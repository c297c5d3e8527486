--------------------------- MODULE LsapiDispatch ---------------------------
(***************************************************************************)
(* How the server runs one PHP request on an LSAPI worker and what it does *)
(* with the socket afterwards (crates/hj-lsapi/src/handler.rs, and the     *)
(* PooledConn / ReturnGuard half of pool.rs).                              *)
(*                                                                         *)
(* A dispatch borrows a socket (kept alive from an earlier request, or     *)
(* dialled), writes BEGIN_REQUEST, then either writes a small body inline  *)
(* or hands the write half to a body pump, and reads the response packets. *)
(* The response and the pump are two tasks that share a ReturnGuard: the   *)
(* socket goes back to the pool when both ended cleanly.  A failure before *)
(* the first response packet may be replayed on another socket.            *)
(*                                                                         *)
(* The worker (lsphp with vendor/lsapilib.c) is external: it may retire,   *)
(* crash or announce CONN_CLOSE between any two packets.  One permit is    *)
(* modelled, so requests follow each other and meet only through what the  *)
(* pool keeps: the socket.  Generations and the dial breaker are in        *)
(* LsapiPool and DialBreaker.                                              *)
(***************************************************************************)
EXTENDS Integers, Sequences

CONSTANTS MaxReq,      \* bound: requests dispatched one after another
          BodyLen,     \* length of a request body, in writes
          MaxData,     \* bound: RESP_STREAM packets a script writes
          InlineCap,   \* INLINE_BODY_CAP
          RetryMax,    \* IDEMPOTENT_RETRY_MAX
          MaxFaults,   \* bound: failures of the worker, dial failures and hang-ups
          Mixes,       \* the kinds of requests the instance dispatches, in order
          HangupAt     \* the awaits at which a request future may be dropped

LsapiDispatchAssumption ==
  /\ {MaxReq, BodyLen, MaxData, InlineCap, RetryMax, MaxFaults} \subseteq Nat
  /\ BodyLen > 0
  /\ Mixes \subseteq [1..MaxReq -> {"get", "post", "streamed", "buffered", "preread"}]
  /\ HangupAt \subseteq {"acquire", "begin", "write", "read"}

VARIABLES
  pc,        \* the dispatching future
  q,         \* the request being dispatched: requests are numbered 1..MaxReq
  kinds,     \* the kind of each request
  attempt,   \* failed attempts of request q
  fresh,     \* the next attempt must dial (acquire_fresh)
  why,       \* RetryKind of the attempt that just failed
  conn,      \* the socket: bytes to the worker, packets from it, who closed it
  pooled,    \* the socket is in the idle list
  wk,        \* the worker behind the socket
  rt,        \* the response task: read_response, then pump_body
  rbuf,      \* PacketReader's buffer of unparsed packets
  saw,       \* a packet arrived in this attempt
  decl,      \* declared Content-Length, -1 when absent
  sent,      \* RESP_STREAM packets taken for the client
  over,      \* bytes arrived past the declared length
  bp,        \* the request-body pump
  written,   \* body writes done in this attempt
  cancel,    \* the stored permit of the `cancel` Notify
  guard,     \* ReturnSlot
  out,       \* request q's response as the client sees it
  from,      \* the request whose response head q was given (0: none yet)
  runs,      \* how often PHP started each request's script
  faults     \* failures so far

dispatch == <<pc, q, kinds, attempt, fresh, why>>
response == <<rt, rbuf, saw, decl, sent, over>>
upload   == <<bp, written, cancel>>
client   == <<out, from>>
vars == <<dispatch, conn, pooled, wk, response, upload, guard, client, runs, faults>>

Reqs == 1..MaxReq
NoLength == -1

NoConn   == [down |-> <<>>, up |-> <<>>, closed |-> "none", shut |-> FALSE, reused |-> FALSE]
NoWorker == [pc |-> "none", id |-> 0, got |-> 0, data |-> 0, ended |-> FALSE]
NewGuard == [read |-> FALSE, write |-> FALSE, poison |-> FALSE,
             carried |-> FALSE, preread |-> FALSE]

Packet(t, id, len) == [t |-> t, id |-> id, len |-> len]
Byte(t, id) == [t |-> t, id |-> id]

Idempotent(k) == k = "get"
Bodiless(k)   == k \in {"get", "post"}
Inline(k)     == k \in {"buffered", "preread"}
Preread(k)    == k = "preread"
kind == kinds[q]

Init ==
  /\ pc = "idle" /\ q = 0 /\ attempt = 0 /\ fresh = FALSE /\ why = "none"
  /\ kinds \in Mixes
  /\ conn = NoConn /\ pooled = FALSE /\ wk = NoWorker
  /\ rt = "off" /\ rbuf = <<>> /\ saw = FALSE /\ decl = NoLength /\ sent = 0 /\ over = FALSE
  /\ bp = "off" /\ written = 0 /\ cancel = FALSE /\ guard = NewGuard
  /\ out = "none" /\ from = 0 /\ runs = [r \in Reqs |-> 0]
  /\ faults = 0

Fault == faults < MaxFaults /\ faults' = faults + 1

----------------------------------------------------------------------------
(* Dispatch and retry. *)

Start ==
  /\ pc = "idle" /\ rt = "off" /\ q < MaxReq
  /\ q' = q + 1 /\ pc' = "acquire" /\ attempt' = 0 /\ fresh' = FALSE /\ why' = "none"
  /\ out' = "none" /\ from' = 0
  /\ UNCHANGED <<kinds, conn, pooled, wk, response, upload, guard, runs, faults>>

(* is_socket_healthy: nothing to read and no end of stream. *)
Healthy == conn.up = <<>> /\ conn.closed = "open"

(* A bodiless GET or HEAD takes an idle socket without probing it. *)
Reusable == pooled /\ ~fresh /\ (Idempotent(kind) \/ Healthy)

Acquire ==
  /\ pc = "acquire" /\ rt = "off"
  /\ pc' = "begin" /\ pooled' = FALSE
  /\ IF Reusable
       THEN conn' = [conn EXCEPT !.reused = TRUE] /\ UNCHANGED wk
       ELSE /\ conn' = [NoConn EXCEPT !.closed = "open"]
            /\ wk' = [NoWorker EXCEPT !.pc = "ready"]
  /\ UNCHANGED <<q, kinds, attempt, fresh, why, response, upload, guard, client, runs, faults>>

(* The future gives up on the request: the client gets an error status. *)
Fail == pc' = "idle" /\ out' = "error"

(* The semaphore timed out (503 at once), or the dial failed (PreFlush). *)
AcquireFails ==
  /\ pc = "acquire" /\ rt = "off" /\ ~Reusable /\ Fault
  /\ pooled' = FALSE /\ conn' = NoConn /\ wk' = NoWorker
  /\ \/ Fail /\ UNCHANGED why
     \/ pc' = "retry" /\ why' = "PreFlush" /\ UNCHANGED out
  /\ UNCHANGED <<q, kinds, attempt, fresh, response, upload, guard, from, runs>>

IsResetReplay(k) == k \in {"IdempotentReset", "UnreadReset"}

MayRetry(k, n) == IF k = "PreFlush" THEN n = 1 ELSE n <= RetryMax

(* proceed_with_retry, one step of the *_retrying loops: the supervisor or *)
(* the breaker may also have turned bad meanwhile.                         *)
Retry ==
  /\ pc = "retry" /\ rt = "off"
  /\ attempt' = attempt + 1
  /\ \/ /\ MayRetry(why, attempt + 1)
        /\ pc' = "acquire" /\ fresh' = (fresh \/ IsResetReplay(why))
        /\ UNCHANGED <<out, faults>>
     \/ Fail /\ ~MayRetry(why, attempt + 1) /\ UNCHANGED <<fresh, faults>>
     \/ Fail /\ Fault /\ UNCHANGED fresh
  /\ pooled' = IF IsResetReplay(why) THEN pooled ELSE FALSE
  /\ UNCHANGED <<q, kinds, why, conn, wk, response, upload, guard, from, runs>>

(* begin_failure_kind *)
BeginFailureKind ==
  IF Idempotent(kind) /\ conn.reused THEN "StaleReuse" ELSE "PreFlush"

(* What PooledConn::into_split and the marks after it leave in the guard. *)
SplitGuard ==
  [NewGuard EXCEPT !.write = Bodiless(kind) \/ Inline(kind),
                   !.carried = ~Bodiless(kind) /\ ~Preread(kind),
                   !.preread = Preread(kind)]

Push(t) == conn' = [conn EXCEPT !.down = Append(@, Byte(t, q))]

(* The socket is closed and forgotten: its worker's next read or write ends it. *)
Close == conn' = NoConn /\ wk' = NoWorker

WriteBegin ==
  /\ pc = "begin"
  /\ \/ /\ conn.closed # "open"
        /\ Close /\ pc' = "retry" /\ why' = BeginFailureKind
        /\ UNCHANGED <<rt, bp, guard>>
     \/ /\ conn.closed = "open"
        /\ Push("begin") /\ UNCHANGED <<wk, why>>
        /\ IF Inline(kind)
             THEN pc' = "write" /\ UNCHANGED <<rt, bp, guard>>
             ELSE /\ pc' = "read" /\ rt' = "head" /\ guard' = SplitGuard
                  /\ bp' = IF Bodiless(kind) THEN "off" ELSE "run"
  /\ UNCHANGED <<q, kinds, attempt, fresh, pooled, rbuf, saw, decl, sent, over,
                 written, cancel, client, runs, faults>>

(* dispatch_buffered writes the whole body before it splits the socket. *)
WriteBody ==
  /\ pc = "write"
  /\ \/ /\ conn.closed # "open" /\ Close
        /\ IF Preread(kind)
             THEN pc' = "retry" /\ why' = "UnreadReset" /\ UNCHANGED out
             ELSE Fail /\ UNCHANGED why
        /\ UNCHANGED <<rt, guard, written>>
     \/ /\ conn.closed = "open" /\ Push("body") /\ UNCHANGED <<wk, why, out>>
        /\ written' = written + 1
        /\ IF written + 1 = BodyLen
             THEN pc' = "read" /\ rt' = "head" /\ guard' = SplitGuard
             ELSE UNCHANGED <<pc, rt, guard>>
  /\ UNCHANGED <<q, kinds, attempt, fresh, pooled, rbuf, saw, decl, sent, over,
                 bp, cancel, from, runs, faults>>

(* A worker that takes no body for read_timeout: a terminal 502. *)
WriteTimeout ==
  /\ pc = "write" /\ Close /\ Fail
  /\ UNCHANGED <<q, kinds, attempt, fresh, why, pooled, response, upload, guard, from, runs,
                 faults>>

(* The client went away and its request future is dropped where it awaits. *)
(* A PooledConn that was not split or poisoned goes back to the idle list; *)
(* a read half that was never deposited does not.                          *)
Hangup ==
  /\ pc \in HangupAt /\ Fault
  /\ pc = "read" => rt = "head"
  /\ pc' = "idle" /\ out' = "gone"
  /\ pooled' = (pooled \/ pc \in {"begin", "write"})
  /\ rt' = IF pc = "read" THEN "ended" ELSE rt
  /\ UNCHANGED <<q, kinds, attempt, fresh, why, conn, wk, rbuf, saw, decl, sent, over,
                 upload, guard, from, runs>>

----------------------------------------------------------------------------
(* The response task. *)

Fill == rbuf = <<>> /\ conn.up # <<>> /\ rbuf' = conn.up /\ conn' = [conn EXCEPT !.up = <<>>]

Drained == rbuf = <<>> /\ conn.up = <<>>

Poison == guard' = [guard EXCEPT !.poison = TRUE]

(* The `fail` closure: poison the guard and wake the body pump. *)
EndPoisoned == rt' = "ended" /\ Poison /\ cancel' = TRUE

(* Mutant: a reset counts as unread whatever followed BEGIN_REQUEST. *)
ReplayBodied(unread) ==
  IF Idempotent(kind) /\ Bodiless(kind) THEN "IdempotentReset"
  ELSE IF unread THEN "UnreadReset" ELSE "none"

(* ReadFail::replay *)
Replay(unread) ==
  IF Idempotent(kind) /\ Bodiless(kind) THEN "IdempotentReset"
  ELSE IF unread /\ (Bodiless(kind) \/ Preread(kind)) THEN "UnreadReset" ELSE "none"

(* read_response takes packets until the RESP_HEADER. *)
ReadHead ==
  /\ rt = "head" /\ pc = "read"
  /\ \/ Fill /\ UNCHANGED <<dispatch, rt, saw, decl, cancel, guard, client>>
     \/ /\ rbuf # <<>> /\ saw' = TRUE /\ rbuf' = Tail(rbuf)
        /\ CASE Head(rbuf).t = "hdr" ->
                  /\ rt' = "inline" /\ decl' = Head(rbuf).len
                  /\ from' = Head(rbuf).id
                  /\ UNCHANGED <<dispatch, cancel, guard, out>>
             [] Head(rbuf).t \in {"end", "close"} ->
                  /\ EndPoisoned /\ Fail
                  /\ UNCHANGED <<q, kinds, attempt, fresh, why, decl, from>>
             [] OTHER -> UNCHANGED <<dispatch, rt, decl, cancel, guard, client>>
        /\ UNCHANGED conn
     \/ /\ Drained /\ conn.closed \in {"eof", "reset"}
        /\ EndPoisoned
        /\ LET k == Replay(~saw /\ conn.closed = "reset")
           IN IF k = "none" THEN Fail /\ UNCHANGED why
                            ELSE pc' = "retry" /\ why' = k /\ UNCHANGED out
        /\ UNCHANGED <<q, kinds, attempt, fresh, conn, rbuf, saw, decl, from>>
  /\ UNCHANGED <<pooled, wk, sent, over, bp, written, runs, faults>>

(* The idle timeout and the deadline run once the upload is over: a 504. *)
HeadTimeout ==
  /\ rt = "head" /\ pc = "read" /\ bp # "run" /\ Drained /\ conn.closed = "open"
  /\ EndPoisoned /\ Fail
  /\ UNCHANGED <<q, kinds, attempt, fresh, why, conn, pooled, wk, rbuf, saw, decl, sent,
                 over, bp, written, from, runs, faults>>

Enforced == decl # NoLength

(* A clean RESP_END re-pools unless bytes came past the length or the end. *)
SettleClean(rest) ==
  /\ rt' = "ended" /\ cancel' = TRUE
  /\ guard' = IF over' \/ rest # <<>> THEN [guard EXCEPT !.poison = TRUE]
                                      ELSE [guard EXCEPT !.read = TRUE]

(* Hand the response to the client with the packets collected so far, and  *)
(* the rest to pump_body: the consumer's body is complete at the declared  *)
(* length.                                                                 *)
HandOff(n) ==
  /\ rt' = "pump" /\ pc' = "idle"
  /\ over' = (Enforced /\ n > decl)
  /\ sent' = IF Enforced /\ n > decl THEN decl ELSE n
  /\ out' = IF Enforced /\ n >= decl THEN "clean" ELSE "open"
  /\ UNCHANGED <<cancel, guard>>

(* RESP_END or CONN_CLOSE while everything so far was in the buffer. *)
InlineEnd(packet, rest) ==
  IF (packet.t = "close" /\ ~Enforced) \/ (Enforced /\ sent < decl)
    THEN EndPoisoned /\ Fail /\ UNCHANGED <<sent, over>>
    ELSE /\ pc' = "idle" /\ out' = "clean"
         /\ over' = (Enforced /\ sent > decl)
         /\ sent' = IF Enforced THEN decl ELSE sent
         /\ IF packet.t = "end" THEN SettleClean(rest) ELSE EndPoisoned

(* The synchronous fast path after the head: parse what is buffered, take  *)
(* in what the socket already holds, and never wait.                       *)
ReadInline ==
  /\ rt = "inline" /\ pc = "read"
  /\ \/ /\ rbuf # <<>> /\ rbuf' = Tail(rbuf) /\ UNCHANGED conn
        /\ CASE Head(rbuf).t = "data" ->
                  IF sent + 1 > InlineCap
                    THEN HandOff(sent + 1)
                    ELSE /\ sent' = sent + 1
                         /\ UNCHANGED <<pc, rt, over, cancel, guard, out>>
             [] Head(rbuf).t \in {"end", "close"} -> InlineEnd(Head(rbuf), Tail(rbuf))
             [] OTHER -> UNCHANGED <<pc, rt, sent, over, cancel, guard, out>>
     \/ /\ rbuf = <<>> /\ Enforced /\ decl <= InlineCap /\ sent < decl /\ Fill
        /\ UNCHANGED <<pc, rt, sent, over, cancel, guard, out>>
     \/ rbuf = <<>> /\ HandOff(sent) /\ UNCHANGED <<rbuf, conn>>
  /\ UNCHANGED <<q, kinds, attempt, fresh, why, pooled, wk, saw, decl, bp, written,
                 from, runs, faults>>

(* Mutant: the sender is dropped without an abort, which ends the body. *)
AbortBodySilent == out' = IF out = "open" THEN "clean" ELSE out

(* The consumer's body ends in error, unless it was complete already. *)
AbortBody == out' = IF out = "open" THEN "aborted" ELSE out

(* feed_chunk: forward a chunk, and end the body at the declared length. *)
FeedChunk ==
  IF out # "open"
    THEN over' = (over \/ Enforced) /\ UNCHANGED <<sent, out>>
    ELSE /\ sent' = sent + 1
         /\ out' = IF Enforced /\ sent + 1 >= decl THEN "clean" ELSE out
         /\ UNCHANGED over

(* pump_body reads to RESP_END; anything else ends it poisoned. *)
PumpBody ==
  /\ rt = "pump"
  /\ \/ Fill /\ UNCHANGED <<rt, sent, over, cancel, guard, out>>
     \/ /\ rbuf # <<>> /\ rbuf' = Tail(rbuf) /\ UNCHANGED conn
        /\ CASE Head(rbuf).t = "data" -> FeedChunk /\ UNCHANGED <<rt, cancel, guard>>
             [] Head(rbuf).t = "end" ->
                  /\ UNCHANGED <<sent, over>>
                  /\ IF Enforced /\ sent < decl
                       THEN EndPoisoned /\ AbortBody
                       ELSE /\ SettleClean(Tail(rbuf))
                            /\ out' = IF out = "open" THEN "clean" ELSE out
             [] Head(rbuf).t = "close" -> EndPoisoned /\ AbortBody /\ UNCHANGED <<sent, over>>
             [] OTHER -> UNCHANGED <<rt, sent, over, cancel, guard, out>>
     \/ /\ Drained /\ conn.closed \in {"eof", "reset"}
        /\ EndPoisoned /\ AbortBody /\ UNCHANGED <<rbuf, conn, sent, over>>
  /\ UNCHANGED <<dispatch, pooled, wk, saw, decl, bp, written, from, runs, faults>>

(* The worker stalls past the timeout, or the receiver is gone. *)
PumpBodyGivesUp ==
  /\ rt = "pump"
  /\ \/ Drained /\ conn.closed = "open"
     \/ out = "open" /\ rbuf # <<>> /\ Head(rbuf).t = "data"
  /\ EndPoisoned /\ AbortBody
  /\ UNCHANGED <<dispatch, conn, pooled, wk, rbuf, saw, decl, sent, over, bp, written,
                 from, runs, faults>>

----------------------------------------------------------------------------
(* The request-body pump, and the guard both tasks share. *)

PumpRequestBody ==
  /\ bp = "run" /\ ~cancel /\ conn.closed = "open"
  /\ Push("body") /\ written' = written + 1
  /\ IF written + 1 = BodyLen
       THEN bp' = "ended" /\ guard' = [guard EXCEPT !.write = TRUE]
       ELSE UNCHANGED <<bp, guard>>
  /\ UNCHANGED <<dispatch, pooled, wk, response, cancel, client, runs, faults>>

(* PumpEnd::Abort shuts the write direction down and poisons the guard. *)
PumpAborts ==
  /\ bp' = "ended" /\ Poison /\ conn' = [conn EXCEPT !.shut = TRUE]
  /\ UNCHANGED <<dispatch, pooled, wk, response, written, cancel, client, runs,
                 faults>>

(* The response side is done, or the write fails. *)
PumpStops == bp = "run" /\ (cancel \/ conn.closed # "open") /\ PumpAborts

(* Mutant: the frame read is not under the idle timer. *)
PumpIdleUntimed == bp = "run" /\ FALSE /\ PumpAborts

(* No body frame and no write within the idle timeout, or the client's body errs. *)
PumpIdleTimeout == bp = "run" /\ PumpAborts

(* Mutant: a socket that carried a body is pooled like any other. *)
MayRepoolCarried ==
  /\ ~guard.poison /\ guard.read /\ guard.write
  /\ guard.preread => conn.down = <<>>

(* Drop of the last Arc<ReturnGuard> releases the permit. *)
MayRepool ==
  /\ ~guard.poison /\ guard.read /\ guard.write
  /\ ~guard.carried
  /\ guard.preread => conn.down = <<>>

GuardDrop ==
  /\ rt = "ended" /\ bp # "run"
  /\ rt' = "off" /\ bp' = "off" /\ pooled' = MayRepool
  /\ IF MayRepool THEN UNCHANGED <<conn, wk>> ELSE Close
  /\ rbuf' = <<>> /\ saw' = FALSE /\ decl' = NoLength /\ sent' = 0 /\ over' = FALSE
  /\ written' = 0 /\ cancel' = FALSE /\ guard' = NewGuard
  /\ UNCHANGED <<dispatch, client, runs, faults>>

----------------------------------------------------------------------------
(* The worker. *)

Alive == conn.closed = "open" /\ wk.pc # "none"
NextByte(t) == conn.down # <<>> /\ Head(conn.down).t = t
Send(packets) == conn' = [conn EXCEPT !.up = @ \o packets]
Starts(id) == runs' = [runs EXCEPT ![id] = @ + 1]
WorkerOnly == UNCHANGED <<dispatch, pooled, response, upload, guard, client>>

(* readReq: the script starts once BEGIN_REQUEST is in, or, for a body PHP *)
(* reads first, once the body is; the worker may acknowledge the request.  *)
WorkerAccepts ==
  /\ Alive /\ wk.pc = "ready" /\ NextByte("begin")
  /\ LET id == Head(conn.down).id
     IN /\ \E ack \in {<<>>, <<Packet("ack", id, NoLength)>>} :
             conn' = [conn EXCEPT !.down = Tail(@), !.up = @ \o ack]
        /\ IF Preread(kinds[id])
             THEN wk' = [NoWorker EXCEPT !.pc = "preread", !.id = id] /\ UNCHANGED runs
             ELSE wk' = [NoWorker EXCEPT !.pc = "script", !.id = id] /\ Starts(id)
  /\ WorkerOnly /\ UNCHANGED faults

WorkerReadsBody ==
  /\ Alive /\ wk.pc \in {"preread", "script", "body"} /\ wk.got < BodyLen /\ NextByte("body")
  /\ conn' = [conn EXCEPT !.down = Tail(@)]
  /\ IF wk.pc = "preread" /\ wk.got + 1 = BodyLen
       THEN wk' = [wk EXCEPT !.got = @ + 1, !.pc = "script"] /\ Starts(wk.id)
       ELSE wk' = [wk EXCEPT !.got = @ + 1] /\ UNCHANGED runs
  /\ WorkerOnly /\ UNCHANGED faults

WorkerAnswers ==
  /\ Alive
  /\ \/ /\ wk.pc = "script"
        /\ \E len \in {NoLength} \cup 1..MaxData : Send(<<Packet("hdr", wk.id, len)>>)
        /\ wk' = [wk EXCEPT !.pc = "body"]
     \/ /\ wk.pc = "body" /\ wk.data < MaxData
        /\ Send(<<Packet("data", wk.id, NoLength)>>)
        /\ wk' = [wk EXCEPT !.data = @ + 1]
     \/ /\ wk.pc = "body"
        /\ Send(<<Packet("end", wk.id, NoLength)>>)
        /\ wk' = [wk EXCEPT !.pc = "ready", !.ended = TRUE]
  /\ WorkerOnly /\ UNCHANGED <<runs, faults>>

(* Bytes a script left unread are parsed as the next packet: the worker    *)
(* answers them, whatever they are, or drops the connection.               *)
WorkerParsesLeftover ==
  /\ Alive /\ wk.pc = "ready" /\ NextByte("body")
  /\ LET id == Head(conn.down).id
     IN conn' = [conn EXCEPT !.down = Tail(@),
                             !.up = @ \o <<Packet("hdr", id, NoLength), Packet("end", id, NoLength)>>]
  /\ UNCHANGED <<wk, runs, faults>> /\ WorkerOnly

(* A close with bytes unread resets the peer; it still reads what was sent. *)
Closes == conn' = [conn EXCEPT !.closed = IF conn.down = <<>> THEN "eof" ELSE "reset"]

(* litespeed_finish_request ends the response with CONN_CLOSE; a worker   *)
(* that is not needed any more sends CONN_CLOSE before it closes.         *)
WorkerFinishes ==
  /\ Alive /\ Fault
  /\ \/ /\ wk.pc = "body"
        /\ Send(<<Packet("end", wk.id, NoLength), Packet("close", wk.id, NoLength)>>)
     \/ /\ wk.pc = "ready" /\ wk.id # 0
        /\ Send(<<Packet("close", wk.id, NoLength)>>)
  /\ wk' = [wk EXCEPT !.pc = "closing", !.ended = TRUE]
  /\ UNCHANGED runs /\ WorkerOnly

(* A closing worker closes; a retiring one drops its next request unread;  *)
(* one whose upload is cut short or that crashes closes where it is.       *)
WorkerCloses ==
  /\ Alive
  /\ \/ wk.pc = "closing" /\ UNCHANGED faults
     \/ conn.shut /\ conn.down = <<>> /\ UNCHANGED faults
     \/ Fault
  /\ Closes /\ wk' = [wk EXCEPT !.pc = "none"] /\ UNCHANGED runs /\ WorkerOnly

----------------------------------------------------------------------------
Dispatch == Start \/ Acquire \/ AcquireFails \/ Retry \/ WriteBegin \/ WriteBody
              \/ WriteTimeout \/ Hangup
Response == ReadHead \/ HeadTimeout \/ ReadInline \/ PumpBody \/ PumpBodyGivesUp
Upload   == PumpRequestBody \/ PumpStops \/ PumpIdleTimeout \/ GuardDrop
Worker   == WorkerAccepts \/ WorkerReadsBody \/ WorkerAnswers \/ WorkerParsesLeftover
              \/ WorkerFinishes \/ WorkerCloses

Next == Dispatch \/ Response \/ Upload \/ Worker

Spec == Init /\ [][Next]_vars

(* The tasks are spawned on a multi-threaded runtime and every wait of     *)
(* theirs is under a timer; the worker and the client owe nothing.         *)
Fairness ==
  /\ WF_vars(Acquire \/ Retry \/ WriteBegin \/ WriteBody \/ WriteTimeout)
  /\ WF_vars(Response)
  /\ WF_vars(PumpStops \/ PumpIdleTimeout)
  /\ WF_vars(GuardDrop)

LiveSpec == Spec /\ Fairness

----------------------------------------------------------------------------
(* Replaying a request after its socket failed never runs its script a     *)
(* second time, unless the request is a GET or HEAD without a body.        *)
RunsOnce == \A r \in Reqs : runs[r] > 1 => Idempotent(kinds[r])

(* The response head a request is given was written for that request:      *)
(* nothing an earlier request left on a kept-alive socket reaches it.      *)
OwnResponse == from \in {0, q}

(* A response body that ends without an error is whole: the declared       *)
(* number of bytes, or all the script wrote up to its RESP_END.            *)
CleanMeansWhole ==
  [][out # "clean" /\ out' = "clean" /\ from = q
       => IF Enforced THEN sent' = decl ELSE wk.ended /\ sent' = wk.data]_vars

(* Every dispatch ends, and with it the permit and the socket's two halves *)
(* are free again, whatever the worker and the client do.                  *)
SlotReturns == (pc = "acquire") ~> (pc = "idle" /\ rt = "off")
=============================================================================
