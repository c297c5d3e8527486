--------------------------- MODULE MCConnections ---------------------------
(***************************************************************************)
(* The two connections a request travels on, in one run: an HTTP/2 client  *)
(* connection, and the pool of FastCGI connections.  The behaviours of one *)
(* instance at a time, chosen by focus.  HTTP/2 has five, each with the    *)
(* inputs of one question; FastCGI has one of whole exchanges on a single  *)
(* connection and one of more waiters.                                     *)
(***************************************************************************)
EXTENDS H2Connection

CONSTANTS Reqs, Waiters, MaxOpen, MaxData, Buffer     \* FastCgi

VARIABLES focus,
          open, idle, waiters, permit, pc, socket, body, stdin, keep, expected, sent, client,
          app, inbox, outbox, peer, unread, shipped, ended

fc == <<open, idle, waiters, permit, pc, socket, body, stdin, keep, expected, sent, client,
        app, inbox, outbox, peer, unread, shipped, ended>>

\* Values of the constants, by name so that they are evaluated once.
Nothing == {}
Unit == {1}
Two == {1, 3}
Three == {1, 3, 5}
Below == {0}
BelowAndAbove == {0, 2}
AnyShape == BOOLEAN \X BOOLEAN \X BOOLEAN
Independent == BOOLEAN \X BOOLEAN \X {FALSE}
WholeRequest == {<<TRUE, TRUE, FALSE>>}
Good == {"ok"}
Faultless == {"none"}
AnyAnswer == {None, 1, Streamed}
BodilessAnswer == {None}
BufferedAnswer == {2}
StreamedAnswer == {Streamed}
NoBody == {"none"}
AnyBody == {"none", "inline", "large"}
ShortOrWhole == {0, 1}

\* The module itself is the instance of two buffered responses under flow control,
\* with SETTINGS below what was sent.

\* Two requests at once, with every frame, verdict and fault; no response bodies.
Receive == INSTANCE H2Connection WITH
  MaxWindow <- 3, Windows <- Nothing, Lengths <- Unit,
  Shapes <- AnyShape, Verdicts <- AllVerdicts, Faults <- AllFaults, Bodies <- BodilessAnswer

\* Three requests where one is allowed: refusals, and ids that leave RecentIds.
Refuse == INSTANCE H2Connection WITH
  Ids <- Three, MaxConcurrent <- 1, Windows <- Nothing, Grants <- Nothing,
  Shapes <- Independent, Faults <- Faultless, Bodies <- BodilessAnswer

\* One stream through all of it: upload, early credit, any response.
Early == INSTANCE H2Connection WITH
  Ids <- Unit, MaxWindow <- 3, Windows <- BelowAndAbove, Shapes <- Independent,
  Faults <- Faultless, Bodies <- AnyAnswer

\* Two streamed responses whose pulls are cancelled, fail or never resolve.
Stream == INSTANCE H2Connection WITH
  FirstWindow <- 2, Windows <- Nothing, Grants <- Nothing, Bodies <- StreamedAnswer

Exchange == INSTANCE FastCgi WITH conn <- socket, Lengths <- ShortOrWhole, Bodies <- AnyBody
Crowd == INSTANCE FastCgi WITH conn <- socket, Reqs <- Waiters, Buffer <- 1,
           MaxData <- 0, Lengths <- Nothing, Bodies <- NoBody

ASSUME /\ H2Assumption /\ Receive!H2Assumption /\ Refuse!H2Assumption
       /\ Early!H2Assumption /\ Stream!H2Assumption
ASSUME Exchange!FastCgiAssumption /\ Crowd!FastCgiAssumption

\* A component that is out of focus.
FcUnused ==
  /\ open = None /\ idle = None /\ waiters = None /\ permit = None /\ pc = None
  /\ socket = None /\ body = None /\ stdin = None /\ keep = None /\ expected = None
  /\ sent = None /\ client = None /\ app = None /\ inbox = None /\ outbox = None
  /\ peer = None /\ unread = None /\ shipped = None /\ ended = None
H2Unused == phase = None /\ conn = None

MCInit ==
  \/ FcUnused /\ \/ focus = "flow" /\ Init
                 \/ focus = "receive" /\ Receive!Init
                 \/ focus = "refuse" /\ Refuse!Init
                 \/ focus = "early" /\ Early!Init
                 \/ focus = "stream" /\ Stream!Init
  \/ H2Unused /\ \/ focus = "exchange" /\ Exchange!Init
                 \/ focus = "crowd" /\ Crowd!Init

MCNext ==
  \/ focus = "flow" /\ Next /\ UNCHANGED <<focus, fc>>
  \/ focus = "receive" /\ Receive!Next /\ UNCHANGED <<focus, fc>>
  \/ focus = "refuse" /\ Refuse!Next /\ UNCHANGED <<focus, fc>>
  \/ focus = "early" /\ Early!Next /\ UNCHANGED <<focus, fc>>
  \/ focus = "stream" /\ Stream!Next /\ UNCHANGED <<focus, fc>>
  \/ focus = "exchange" /\ Exchange!Next /\ UNCHANGED <<focus, vars>>
  \/ focus = "crowd" /\ Crowd!Next /\ UNCHANGED <<focus, vars>>

MCSpec == MCInit /\ [][MCNext]_<<focus, vars, fc>>

----------------------------------------------------------------------------
\* H2Connection, what the peer sees: nothing on a stream that is closed, DATA up
\* to exactly the credit it granted, before or after the response began, and no
\* response left behind while there is credit for it.
H2Wire ==
  /\ focus = "flow" => NothingAfterClose /\ CreditConserved /\ PumpedDry
  /\ focus = "receive" => Receive!NothingAfterClose
  /\ focus = "refuse" => Refuse!NothingAfterClose
  /\ focus = "early" => Early!NothingAfterClose /\ Early!CreditConserved /\ Early!PumpedDry
  /\ focus = "stream" => Stream!NothingAfterClose /\ Stream!CreditConserved /\ Stream!PumpedDry

\* H2Connection, its books: the byte counters, the markers of aborted handlers,
\* the early credit, the send schedule and the concurrency limit agree with the
\* streams that exist, on every way a stream can end.
H2Books ==
  /\ focus = "flow" => ScheduledOnce /\ ParkedOwned /\ ConcurrencyBounded
  /\ focus = "receive" => /\ Receive!CountersExact /\ Receive!CancelledExact
                          /\ Receive!ConcurrencyBounded /\ Receive!ParkedOwned
  /\ focus = "refuse" => Refuse!CountersExact /\ Refuse!CancelledExact /\ Refuse!ConcurrencyBounded
  /\ focus = "early" => Early!CountersExact /\ Early!ScheduledOnce /\ Early!ParkedOwned
  /\ focus = "stream" => Stream!ScheduledOnce /\ Stream!CancelledExact /\ Stream!ConcurrencyBounded

\* H2Connection, its end: no handler ever runs a request above a last-stream-id
\* the server announced, and a connection that closes has answered or reset every
\* stream it accepted.
H2Closing ==
  /\ focus = "flow" => ClosedAnswered
  /\ focus = "receive" => Receive!Announced /\ Receive!ClosedAnswered
  /\ focus = "refuse" => Refuse!Announced /\ Refuse!ClosedAnswered
  /\ focus = "early" => Early!ClosedAnswered
  /\ focus = "stream" => Stream!ClosedAnswered

=============================================================================
