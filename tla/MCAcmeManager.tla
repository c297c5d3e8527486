--------------------------- MODULE MCAcmeManager ---------------------------
(***************************************************************************)
(* Two dialogues with a peer that may fall silent half way, in one run:    *)
(* the issuance of a certificate, with DNS-01 and with HTTP-01 challenges, *)
(* and a request dispatched to an LSAPI worker.  The behaviours of one of  *)
(* them at a time, chosen by focus.  AcmeManager's own constants are those *)
(* of the DNS-01 instance.                                                 *)
(***************************************************************************)
EXTENDS AcmeManager

CONSTANTS HttpDomains, HttpFaults,                                       \* HTTP-01
          MaxReq, BodyLen, MaxData, InlineCap, RetryMax, LsapiFaults,    \* LsapiDispatch
          HangupAt

VARIABLES focus,
          at, q, kinds, attempt, fresh, why, conn, pooled, wk, rt, rbuf, saw, decl, sent,
          over, bp, written, cancel, guard, out, from, runs, lsapi_faults

lsapi == <<at, q, kinds, attempt, fresh, why, conn, pooled, wk, rt, rbuf, saw, decl, sent,
           over, bp, written, cancel, guard, out, from, runs, lsapi_faults>>

\* The kinds of the two requests that follow each other on a socket.
Mixes == {<<a, b>> : a \in {"get", "post", "streamed", "buffered", "preread"},
                     b \in {"get", "preread"}}

Http == INSTANCE AcmeManager WITH
          IsDns01 <- FALSE, Domains <- HttpDomains, MaxFaults <- HttpFaults
Lsapi == INSTANCE LsapiDispatch WITH pc <- at, faults <- lsapi_faults, MaxFaults <- LsapiFaults

ASSUME Http!AcmeAssumption /\ Lsapi!LsapiDispatchAssumption

MCInit ==
  /\ focus \in {"dns01", "http01", "lsapi"}
  /\ IF focus = "http01" THEN Http!Init ELSE Init
  /\ Lsapi!Init /\ (focus # "lsapi" => kinds = <<"get", "get">>)

MCNext ==
  \/ focus = "dns01" /\ Next /\ UNCHANGED <<focus, lsapi>>
  \/ focus = "http01" /\ Http!Next /\ UNCHANGED <<focus, lsapi>>
  \/ focus = "lsapi" /\ Lsapi!Next /\ UNCHANGED <<focus, vars>>

\* Each component's own fairness, of the component in focus.
MCFairness ==
  /\ WF_vars(focus = "dns01" /\ Task) /\ WF_vars(focus = "dns01" /\ Authority)
  /\ WF_vars(focus = "http01" /\ Http!Task) /\ WF_vars(focus = "http01" /\ Http!Authority)
  /\ WF_lsapi(focus = "lsapi" /\ (Lsapi!Acquire \/ Lsapi!Retry \/ Lsapi!WriteBegin
                                    \/ Lsapi!WriteBody \/ Lsapi!WriteTimeout))
  /\ WF_lsapi(focus = "lsapi" /\ Lsapi!Response)
  /\ WF_lsapi(focus = "lsapi" /\ (Lsapi!PumpStops \/ Lsapi!PumpIdleTimeout))
  /\ WF_lsapi(focus = "lsapi" /\ Lsapi!GuardDrop)

MCSpec == MCInit /\ [][MCNext]_<<focus, vars, lsapi>> /\ MCFairness

\* LsapiDispatch: a replay never runs a script twice unless the request is idempotent.
RunsOnce == Lsapi!RunsOnce

\* LsapiDispatch: the response head a request is given was written for it.
OwnResponse == Lsapi!OwnResponse

\* LsapiDispatch: a response body that ends without an error is whole.
CleanMeansWhole == Lsapi!CleanMeansWhole

\* LsapiDispatch: every dispatch ends and gives back its permit and its socket.
SlotReturns == Lsapi!SlotReturns
============================================================================
