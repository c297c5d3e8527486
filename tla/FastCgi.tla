------------------------------ MODULE FastCgi ------------------------------
(***************************************************************************)
(* The FastCGI handler and its connection pool (crates/hj-fastcgi).        *)
(*                                                                         *)
(* A request takes an idle connection or dials one under the pool's        *)
(* max_open, sends itself, reads the CGI head and pumps the body to the    *)
(* client.  A large request body is written by a task of its own that owns *)
(* the write half of the connection.  The connection goes back to the pool *)
(* after a clean END_REQUEST of a request without a body; in every other   *)
(* case it is closed and its slot given up.                                *)
(*                                                                         *)
(* A connection is named by the request that dialled it.  The application  *)
(* at its other end is external: it serves what it reads in order, may     *)
(* leave STDIN unread, stop anywhere, or fall silent.                      *)
(***************************************************************************)
EXTENDS Integers, Sequences, FiniteSets

CONSTANTS Reqs, None,
          MaxOpen,    \* max_open
          MaxData,    \* bound: STDOUT records of a response body
          Buffer,     \* bound: records the connection holds before a writer waits
          Lengths,    \* the Content-Lengths an application may declare
          Bodies      \* request bodies: "none", "inline" or "large"

FastCgiAssumption ==
  /\ None \notin Reqs /\ MaxOpen \in Nat \ {0} /\ {MaxData, Buffer} \subseteq Nat /\ Lengths \subseteq Nat
  /\ Bodies \subseteq {"none", "inline", "large"}

NoLength == -1

VARIABLES
  open, idle,        \* State: connections counted, idle ones with an expiry flag
  waiters, permit,   \* `changed`: tasks awaiting it, and its one stored permit
  pc, conn,          \* where a request is, and its connection
  body, stdin,       \* its body, and the task that pumps a large one
  keep,              \* FCGI_KEEP_CONN was sent
  expected, sent,    \* Content-Length to enforce, and body records fed
  client,            \* what the client has seen
  app,               \* each connection's application: the request it serves
  inbox, outbox,     \* requests written to it and not read, records not read from it
  peer,              \* "open", or "closed" at the application's end
  unread,            \* STDIN bytes the application left on the connection
  shipped, ended     \* history: body records written for a request, and its END_REQUEST

pool == <<open, idle, waiters, permit>>
world == <<app, inbox, outbox, peer, unread, shipped, ended>>
handler == <<pc, conn, body, stdin, keep, expected, sent, client>>
vars == <<pool, handler, world>>

Init ==
  /\ open = 0 /\ idle = <<>> /\ waiters = <<>> /\ permit = FALSE
  /\ pc = [r \in Reqs |-> "new"] /\ conn = [r \in Reqs |-> None]
  /\ body \in [Reqs -> Bodies]
  /\ stdin = [r \in Reqs |-> "off"] /\ keep = [r \in Reqs |-> FALSE]
  /\ expected = [r \in Reqs |-> NoLength] /\ sent = [r \in Reqs |-> 0]
  /\ client = [r \in Reqs |-> "waiting"]
  /\ app = [c \in Reqs |-> None] /\ inbox = [c \in Reqs |-> <<>>]
  /\ outbox = [c \in Reqs |-> <<>>] /\ peer = [c \in Reqs |-> "open"]
  /\ unread = [c \in Reqs |-> FALSE]
  /\ shipped = [r \in Reqs |-> 0] /\ ended = [r \in Reqs |-> "no"]

Goto(r, p) == pc' = [pc EXCEPT ![r] = p]
\* Connections closed here: nothing more is read from or written to them.
Close(S) ==
  /\ app' = [c \in Reqs |-> IF c \in S THEN None ELSE app[c]]
  /\ inbox' = [c \in Reqs |-> IF c \in S THEN <<>> ELSE inbox[c]]
  /\ outbox' = [c \in Reqs |-> IF c \in S THEN <<>> ELSE outbox[c]]
  /\ peer' = [c \in Reqs |-> IF c \in S THEN "closed" ELSE peer[c]]
  /\ unread' = [c \in Reqs |-> unread[c] /\ c \notin S]
  /\ UNCHANGED <<shipped, ended>>
\* A request that is over is forgotten.
Forget(r) ==
  /\ Goto(r, "done")
  /\ body' = [body EXCEPT ![r] = "none"] /\ stdin' = [stdin EXCEPT ![r] = "off"]
  /\ keep' = [keep EXCEPT ![r] = FALSE] /\ expected' = [expected EXCEPT ![r] = NoLength]
  /\ sent' = [sent EXCEPT ![r] = 0] /\ client' = [client EXCEPT ![r] = "over"]
  /\ shipped' = [shipped EXCEPT ![r] = 0] /\ ended' = [ended EXCEPT ![r] = "no"]
Sees(r, what) == client' = [client EXCEPT ![r] = IF @ = "gone" THEN @ ELSE what]

----------------------------------------------------------------------------
(* The pool. *)

\* notify_one: the oldest waiter, or the one permit that is stored
NotifyOne ==
  IF waiters = <<>>
    THEN permit' = TRUE /\ UNCHANGED waiters
    ELSE waiters' = Tail(waiters) /\ UNCHANGED permit

Woken(r) == pc[r] = "sleep" /\ \A i \in DOMAIN waiters : waiters[i] # r
Healthy(c) == peer[c] = "open" /\ outbox[c] = <<>>
\* The idle connections an acquire keeps: the expired ones leave from the front,
\* and from the back every one up to and including the newest healthy one.
Fresh == SelectSeq(idle, LAMBDA e : ~e.old)
NewestHealthy == {i \in DOMAIN Fresh :
                    Healthy(Fresh[i].conn) /\ \A j \in i + 1..Len(Fresh) : ~Healthy(Fresh[j].conn)}

Acquire(r) ==
  /\ pc[r] = "new" /\ Goto(r, "check")
  /\ UNCHANGED <<pool, conn, body, stdin, keep, expected, sent, client, world>>

\* The locked section of acquire_inner.
Check(r) ==
  /\ pc[r] = "check"
  /\ \/ \E i \in NewestHealthy :
          /\ conn' = [conn EXCEPT ![r] = Fresh[i].conn]
          /\ idle' = SubSeq(Fresh, 1, i - 1)
          /\ open' = open - (Len(idle) - i)
          /\ Goto(r, "write")
     \/ /\ NewestHealthy = {}
        /\ idle' = <<>>
        /\ IF open - Len(idle) < MaxOpen
             THEN open' = open - Len(idle) + 1 /\ Goto(r, "dial")
             ELSE open' = open - Len(idle) /\ Goto(r, "await")
        /\ UNCHANGED conn
  /\ Close({idle[i].conn : i \in DOMAIN idle}
             \ ({idle'[i].conn : i \in DOMAIN idle'} \cup {conn'[r]}))
  /\ UNCHANGED <<waiters, permit, body, stdin, keep, expected, sent, client>>

\* The first poll of Notified takes a stored permit.
Await(r) ==
  /\ pc[r] = "await"
  /\ IF permit THEN permit' = FALSE /\ Goto(r, "check") /\ UNCHANGED waiters
               ELSE waiters' = Append(waiters, r) /\ Goto(r, "sleep") /\ UNCHANGED permit
  /\ UNCHANGED <<open, idle, conn, body, stdin, keep, expected, sent, client, world>>

Wake(r) ==
  /\ Woken(r) /\ Goto(r, "check")
  /\ UNCHANGED <<pool, conn, body, stdin, keep, expected, sent, client, world>>

\* release_open: the slot is given up under the lock, the notification follows.
\* A request whose connection is gone is at "notify" until it is sent.
ReleaseOpen(r) == open' = open - 1 /\ Goto(r, "notify") /\ UNCHANGED idle

Connect(r) ==
  /\ pc[r] = "dial"
  /\ \/ /\ conn' = [conn EXCEPT ![r] = r] /\ Goto(r, "write")
        /\ UNCHANGED <<open, idle, client>>
     \/ ReleaseOpen(r) /\ Sees(r, "error") /\ UNCHANGED conn
  /\ UNCHANGED <<waiters, permit, body, stdin, keep, expected, sent, world>>

Notify(r) ==
  /\ pc[r] = "notify" /\ NotifyOne /\ Forget(r)
  /\ UNCHANGED <<open, idle, conn, app, inbox, outbox, peer, unread>>

\* acquire_timeout passes, or the caller is dropped: SlotGuard gives a reserved slot
\* up, and a Notified that was notified passes the notification on.
Without(r) == SelectSeq(waiters, LAMBDA w : w # r)
AcquireTimeout(r) ==
  /\ \/ /\ pc[r] = "sleep" /\ Forget(r)
        /\ IF Woken(r) THEN NotifyOne ELSE waiters' = Without(r) /\ UNCHANGED permit
        /\ UNCHANGED <<open, idle>>
     \/ /\ pc[r] = "dial" /\ ReleaseOpen(r) /\ Sees(r, "error")
        /\ UNCHANGED <<waiters, permit, body, stdin, keep, expected, sent, shipped, ended>>
  /\ UNCHANGED <<conn, app, inbox, outbox, peer, unread>>

\* An idle connection reaches idle_timeout; the front one is the oldest.
Expire ==
  /\ \E n \in DOMAIN idle : /\ ~idle[n].old
                            /\ \A i \in 1..n - 1 : idle[i].old
                            /\ idle' = [idle EXCEPT ![n].old = TRUE]
  /\ UNCHANGED <<open, waiters, permit, handler, world>>

----------------------------------------------------------------------------
(* The handler. *)

Bare == -2   \* a response without a body (HEAD, 204, 304): nothing is fed or counted


\* The PooledConnection is dropped: back to the idle list or closed.
DropConn(r, reusable) ==
  LET c == conn[r] IN
  /\ conn' = [conn EXCEPT ![r] = None]
  /\ IF reusable
       THEN /\ idle' = Append(idle, [conn |-> c, old |-> FALSE])
            /\ Goto(r, "notify")
            /\ UNCHANGED <<open, world>>
       ELSE ReleaseOpen(r) /\ Close({c})
  /\ UNCHANGED <<waiters, permit>>

\* The Conn is dropped unfinished: a pump that still writes is cancelled, and the
\* connection lives until it lets the write half go.
DropUnfinished(r) ==
  IF stdin[r] = "sending"
    THEN /\ stdin' = [stdin EXCEPT ![r] = "cancelled"] /\ Goto(r, "parting")
         /\ UNCHANGED <<pool, conn, world>>
    ELSE DropConn(r, FALSE) /\ UNCHANGED stdin

\* write_request, or write_head and the spawn of pump_stdin for a large body.
KeepConn(r) == body[r] = "none"
Write(r) ==
  /\ pc[r] = "write"
  /\ \/ /\ keep' = [keep EXCEPT ![r] = KeepConn(r)]
        /\ inbox' = [inbox EXCEPT ![conn[r]] =
             Append(@, [req |-> r, keep |-> KeepConn(r), stdin |-> body[r] # "none"])]
        /\ stdin' = [stdin EXCEPT ![r] = IF body[r] = "large" THEN "sending" ELSE "off"]
        /\ Goto(r, "head")
        /\ UNCHANGED <<pool, conn, client, app, outbox, peer, unread, shipped, ended>>
     \/ DropConn(r, FALSE) /\ Sees(r, "error") /\ UNCHANGED <<keep, stdin>>
  /\ UNCHANGED <<body, expected, sent>>

Next1(r) == Head(outbox[conn[r]])
HasRecord(r) == outbox[conn[r]] # <<>>
Consume(r) ==
  /\ outbox' = [outbox EXCEPT ![conn[r]] = Tail(@)]
  /\ UNCHANGED <<pool, conn, stdin, app, inbox, peer, unread, shipped, ended>>

\* The CGI head starts the response; any other record is refused.
ReadHead(r) ==
  /\ pc[r] = "head" /\ HasRecord(r)
  /\ IF Next1(r).kind = "head"
       THEN /\ expected' = [expected EXCEPT ![r] = Next1(r).length]
            /\ Sees(r, IF Next1(r).length = Bare THEN "clean" ELSE "streaming")
            /\ Goto(r, "pump") /\ Consume(r)
       ELSE Sees(r, "error") /\ DropUnfinished(r) /\ UNCHANGED expected
  /\ UNCHANGED <<body, keep, sent>>

\* pump_response's `!clean`: the body is aborted, then the connection dropped.
Abort(r) ==
  /\ IF expected[r] = Bare THEN UNCHANGED client ELSE Sees(r, "aborted")
  /\ DropUnfinished(r)

\* next_record fails: the application closed, or was silent for read_timeout.
ReadFails(r) ==
  /\ pc[r] \in {"head", "pump"} /\ ~HasRecord(r)
  /\ IF pc[r] = "head" THEN Sees(r, "error") /\ DropUnfinished(r) ELSE Abort(r)
  /\ UNCHANGED <<body, keep, expected, sent>>

Feed(r) ==
  /\ pc[r] = "pump" /\ HasRecord(r) /\ Next1(r).kind = "data"
  /\ IF (expected[r] >= 0 /\ sent[r] >= expected[r]) \/ (expected[r] # Bare /\ client[r] = "gone")
       THEN Abort(r) /\ UNCHANGED sent
       ELSE sent' = [sent EXCEPT ![r] = @ + 1] /\ Consume(r) /\ UNCHANGED <<pc, client>>
  /\ UNCHANGED <<body, keep, expected>>

\* The empty STDOUT record; END_REQUEST ends STDOUT without it.
StdoutEnds(r) ==
  /\ pc[r] = "pump" /\ HasRecord(r) /\ Next1(r).kind = "eof"
  /\ Consume(r)
  /\ UNCHANGED <<pc, body, keep, expected, sent, client>>

EndedWhole(r) == Next1(r).kind = "endOk" /\ (expected[r] < 0 \/ sent[r] = expected[r])

\* END_REQUEST and finish_clean, which waits for a pump it cancels; or a record
\* that has no place here.
EndRequest(r) ==
  /\ pc[r] = "pump" /\ HasRecord(r) /\ Next1(r).kind \in {"endOk", "endBad", "odd"}
  /\ IF ~EndedWhole(r) THEN Abort(r)
     ELSE IF stdin[r] = "sending"
       THEN /\ stdin' = [stdin EXCEPT ![r] = "cancelled"] /\ Goto(r, "finishing")
            /\ UNCHANGED <<pool, conn, client, world>>
       ELSE DropConn(r, keep[r]) /\ Sees(r, "clean") /\ UNCHANGED stdin
  /\ UNCHANGED <<body, keep, expected, sent>>

\* pump_stdin ends: all written, failed, or cancelled.  Written, it leaves the write
\* half to the reader; otherwise, or with the reader gone, it lets it go.
PumpStdin(r) ==
  /\ stdin[r] \in {"sending", "cancelled"}
  /\ stdin' = [stdin EXCEPT ![r] = "ended"]
  /\ \/ pc[r] \in {"head", "pump"} /\ UNCHANGED <<pc, pool, conn, client, world>>
     \/ pc[r] = "parting" /\ DropConn(r, FALSE) /\ UNCHANGED client
     \/ pc[r] = "finishing" /\ DropConn(r, FALSE) /\ Sees(r, "clean")
  /\ UNCHANGED <<body, keep, expected, sent>>

\* The client goes away: the handler's future is dropped, or the body's receiver is.
ClientGone(r) ==
  /\ client[r] \in {"waiting", "streaming"} /\ pc[r] \in {"write", "head", "pump", "finishing"}
  /\ client' = [client EXCEPT ![r] = "gone"]
  /\ IF pc[r] \in {"write", "head"} THEN DropUnfinished(r)
                                    ELSE UNCHANGED <<pool, pc, conn, stdin, world>>
  /\ UNCHANGED <<body, keep, expected, sent>>

----------------------------------------------------------------------------
(* The application at the other end of a connection. *)

Says(c, rec) == outbox' = [outbox EXCEPT ![c] = Append(@, rec)]
Serving(c) == peer[c] = "open" /\ app[c] # None /\ Len(outbox[c]) < Buffer

AppTakes(c) ==
  /\ peer[c] = "open" /\ app[c] = None /\ inbox[c] # <<>>
  /\ app' = [app EXCEPT ![c] = [call |-> Head(inbox[c]), phase |-> "head"]]
  /\ inbox' = [inbox EXCEPT ![c] = Tail(@)]
  /\ UNCHANGED <<pool, handler, outbox, peer, unread, shipped, ended>>

AppHead(c) ==
  /\ Serving(c) /\ app[c].phase = "head"
  /\ app' = [app EXCEPT ![c].phase = "body"]
  /\ \E n \in Lengths \cup {NoLength, Bare} :
       Says(c, [for |-> app[c].call.req, kind |-> "head", length |-> n])
  /\ UNCHANGED <<pool, handler, inbox, peer, unread, shipped, ended>>

AppData(c) ==
  /\ Serving(c) /\ app[c].phase = "body" /\ shipped[app[c].call.req] < MaxData
  /\ shipped' = [shipped EXCEPT ![app[c].call.req] = @ + 1]
  /\ Says(c, [for |-> app[c].call.req, kind |-> "data"])
  /\ UNCHANGED <<pool, handler, app, inbox, peer, unread, ended>>

AppEof(c) ==
  /\ Serving(c) /\ app[c].phase = "body"
  /\ app' = [app EXCEPT ![c].phase = "eof"]
  /\ Says(c, [for |-> app[c].call.req, kind |-> "eof"])
  /\ UNCHANGED <<pool, handler, inbox, peer, unread, shipped, ended>>

\* END_REQUEST: without FCGI_KEEP_CONN the application then closes.
AppEnd(c) ==
  /\ Serving(c) /\ app[c].phase \in {"body", "eof"}
  /\ \E how \in {"endOk", "endBad"} :
       /\ Says(c, [for |-> app[c].call.req, kind |-> how])
       /\ ended' = [ended EXCEPT ![app[c].call.req] = how]
  /\ \E left \in {FALSE, app[c].call.stdin} : unread' = [unread EXCEPT ![c] = left]
  /\ app' = [app EXCEPT ![c] = None]
  /\ peer' = [peer EXCEPT ![c] = IF app[c].call.keep THEN @ ELSE "closed"]
  /\ UNCHANGED <<pool, handler, inbox, shipped>>

\* It stops anywhere, at best after a record that has no place there.
AppStops(c) ==
  /\ peer[c] = "open" /\ (app[c] # None \/ \E i \in DOMAIN idle : idle[i].conn = c)
  /\ peer' = [peer EXCEPT ![c] = "closed"]
  /\ \/ Serving(c) /\ Says(c, [for |-> app[c].call.req, kind |-> "odd"])
     \/ UNCHANGED outbox
  /\ UNCHANGED <<pool, handler, app, inbox, unread, shipped, ended>>

----------------------------------------------------------------------------
Pool(r) == Check(r) \/ Await(r) \/ Wake(r) \/ Connect(r) \/ Notify(r)
Handle(r) == Write(r) \/ ReadHead(r) \/ ReadFails(r) \/ Feed(r) \/ StdoutEnds(r)
               \/ EndRequest(r) \/ PumpStdin(r)
Application(c) == AppTakes(c) \/ AppHead(c) \/ AppData(c) \/ AppEof(c) \/ AppEnd(c) \/ AppStops(c)

Next ==
  \/ \E r \in Reqs : \/ Acquire(r) \/ Pool(r) \/ AcquireTimeout(r)
                     \/ Handle(r) \/ ClientGone(r) \/ Application(r)
  \/ Expire

Spec == Init /\ [][Next]_vars

----------------------------------------------------------------------------
\* `open` counts exactly the connections that are idle, being dialled or in use,
\* and stays within max_open: no cancelled dial (SlotGuard), expired or dead idle
\* socket, late STDIN pump or dropped connection leaks a slot or frees one twice.
OpenExact ==
  /\ open = Len(idle) + Cardinality({r \in Reqs : pc[r] = "dial"})
                      + Cardinality({r \in Reqs : conn[r] # None})
  /\ open <= MaxOpen

\* notify_one wakes one task and keeps at most one permit, so releases may share a
\* wake-up.  Still, while an acquire sleeps beside free capacity some other request
\* is on its way to a notification: nobody is left asleep for good.
OnItsWay(r) ==
  \/ pc[r] \in {"check", "dial", "write", "head", "pump", "parting", "finishing", "notify"}
  \/ Woken(r)
NoneStranded ==
  (\E r \in Reqs : pc[r] = "sleep" /\ ~Woken(r)) /\ (open < MaxOpen \/ idle # <<>>)
    => \E r \in Reqs : OnItsWay(r)

\* What a request reads was written for it: a connection is reused only when the
\* application has finished with the request before.
OwnRecords ==
  \A r \in Reqs : pc[r] \in {"head", "pump"} /\ HasRecord(r) => Next1(r).for = r

\* "An application that reads its input partially leaves the rest on the socket, and
\* php-fpm/php-cgi parse it as the next request on a kept connection": no application
\* keeps a connection with unread STDIN on it.
NothingUnreadKept == \A c \in Reqs : unread[c] => peer[c] = "closed"

\* "Without END_REQUEST the body is truncated: abort it rather than end it cleanly":
\* a body that ended cleanly is everything the application wrote.
CleanIsWhole ==
  \A r \in Reqs : client[r] = "clean" /\ expected[r] # Bare
                    => ended[r] = "endOk" /\ sent[r] = shipped[r]
============================================================================
