---------------------------- MODULE MCServices -----------------------------
(* The supervisor of the PHP workers and the forwarding of responses, in   *)
(* one run: the behaviours of one of them at a time, chosen by focus, the  *)
(* other left where it starts.                                             *)
EXTENDS LsphpSupervisor, TLC

CONSTANTS c1, s1, s2, Streams, Conns, ConnOf, Global, GlobalMax, ShareMax, FrameClaim,
          FileChunk, Threshold, FullLeaseMin, Depth, Sizes, Reading, MaxFrames

VARIABLES focus, used, line, pc, kind, lease, frame, todo, made, eof, rx, chunks, out

RE == INSTANCE ResponseEgress WITH queue <- chunks

ASSUME RE!EgressAssumption

re == <<used, line, pc, kind, lease, frame, todo, made, eof, rx, chunks, out>>

\* Two responses on one connection.
BothOnOne == s1 :> c1 @@ s2 :> c1

MCInit ==
  /\ focus \in {"supervisor", "egress"}
  /\ Init /\ RE!Init
  /\ focus # "supervisor" => source = "Bind"

MCNext ==
  \/ focus = "supervisor" /\ Next /\ UNCHANGED <<focus, re>>
  \/ focus = "egress" /\ RE!Next /\ UNCHANGED <<focus, vars>>

\* Each component's own fairness, of the component in focus.
MCFairness ==
  /\ WF_vars(focus = "supervisor" /\ Transaction)
  /\ WF_vars(focus = "supervisor" /\ Monitor)
  /\ WF_vars(focus = "supervisor" /\ Stopping)
  /\ WF_vars(focus = "supervisor" /\ WindowOver)
  /\ \A s \in Streams :
       /\ WF_re(focus = "egress" /\ RE!Forward(s))
       /\ ConnOf[s] \in Reading => /\ WF_re(focus = "egress" /\ RE!Receive(s))
                                   /\ WF_re(focus = "egress" /\ RE!Written(s))

MCSpec == MCInit /\ [][MCNext]_<<focus, vars, re>> /\ MCFairness

\* ResponseEgress: each budget is exactly what the leases hold, whatever is
\* refused, cut short, aborted or hung up, and no connection's queued chunks
\* exceed its share.
LeasesWithinShares == RE!LeasesExact /\ RE!QueuedWithinShare

\* ResponseEgress: a body that ends short of its source ends with an error.
NoSilentTruncation == RE!NoSilentTruncation

\* ResponseEgress: every response on a connection whose peer reads ends.
ReadersDrain == RE!ReadersDrain
=============================================================================
