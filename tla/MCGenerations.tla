--------------------------- MODULE MCGenerations ---------------------------
(***************************************************************************)
(* The generations of workers, and how one HTTP/2 connection of a          *)
(* generation that shuts down comes to its end, in one run: the behaviours *)
(* of one of them at a time, chosen by focus.                              *)
(***************************************************************************)
EXTENDS Generations

CONSTANTS Absent, Streamed, Failed

VARIABLES focus, phase, h2_conn

h2 == <<phase, h2_conn>>

\* Values of the constants, by name so that they are evaluated once.
Nothing == {}
Unit == {1}
BelowAndAbove == {0, 2}
AnyShape == BOOLEAN \X BOOLEAN \X BOOLEAN
Good == {"ok"}
Faultless == {"none"}
AnyAnswer == {Absent, 1, Streamed}

\* One stream, from its upload to any response, under flow control.
H2 == INSTANCE H2Connection WITH conn <- h2_conn, None <- Absent, Ids <- Unit,
  MaxConcurrent <- 2, MaxBody <- 1, PerConn <- 1, HeaderMem <- 1, MaxWindow <- 3,
  ParkedMax <- 2, ResetBurst <- 1, NoProgress <- 2, FirstWindow <- 1,
  Windows <- BelowAndAbove, Grants <- Unit, Lengths <- Nothing, Shapes <- AnyShape,
  Verdicts <- Good, Faults <- Faultless, Bodies <- AnyAnswer

ASSUME H2!H2Assumption

MCInit ==
  /\ Init
  /\ \/ focus = "generations" /\ phase = Absent /\ h2_conn = Absent
     \/ focus = "h2" /\ Socks = Uds /\ H2!Init

MCNext ==
  \/ focus = "generations" /\ Next /\ UNCHANGED <<focus, h2>>
  \/ focus = "h2" /\ H2!Next /\ UNCHANGED <<focus, vars>>

\* Each component's own fairness, of the component in focus.
MCFairness ==
  /\ \A r \in Epochs, s \in Tcp \cup Uds :
       WF_vars(focus = "generations" /\ s \in Socks /\ Worker(r, s) /\ UNCHANGED Socks)
  /\ \A w \in Writers :
       WF_vars(/\ focus = "generations"
               /\ Abandon(w) \/ JoinCandidate(w) \/ PublishResources(w)
               /\ UNCHANGED Socks)
  /\ \A r \in Epochs : WF_vars(focus = "generations" /\ Reap(r) /\ UNCHANGED Socks)
  /\ WF_vars(focus = "generations" /\ Shutdown /\ UNCHANGED Socks)
  /\ WF_phase(focus = "h2" /\ H2!Advances)
  /\ SF_h2(focus = "h2" /\ H2!Awaited)

MCSpec == MCInit /\ [][MCNext]_<<focus, vars, h2>> /\ MCFairness

=============================================================================
