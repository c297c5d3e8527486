---------------------------- MODULE AcmeManager ----------------------------
(***************************************************************************)
(* How the server obtains its own certificates (crates/hj-acme: manager.rs *)
(* and storage.rs; the task that drives it, httpjet/src/acme_runtime.rs).  *)
(*                                                                         *)
(* Everything the manager must remember is one snapshot, replaced on disk  *)
(* as a whole before the step that depends on it: the account, the order   *)
(* under way with its private key, the certificate installed, and the DNS  *)
(* records that may be published.  The process may stop between any two    *)
(* steps, a write may fail with the new snapshot visible or not, and the   *)
(* answer to any request may be lost after the request took effect.        *)
(*                                                                         *)
(* The authority and the DNS controller are external.  A private key is a  *)
(* number, in the order in which keys are generated; 0 is none.  When an   *)
(* attempt is due is not modelled: it may start at any time.               *)
(***************************************************************************)
EXTENDS Naturals

CONSTANTS Domains,      \* AcmeConfig::domains
          IsDns01,      \* the configured challenge: DNS-01 or HTTP-01
          Urls,         \* the orders the authority can create
          None,
          MaxKeys,      \* bound: orders begun
          MaxFaults,    \* bound: failed writes and requests, timeouts and refusals
          MaxStops      \* bound: stops of the process

\* manager.rs PendingOrder and Snapshot, and what the authority knows of an order
PendingOrder == [key : Nat, url : Urls \cup {None}]
Snapshot == [account : BOOLEAN, order : PendingOrder \cup {None}, installed : Nat,
             dns_cleanup : SUBSET (Urls \X Domains)]
Status == {"none", "pending", "ready", "processing", "valid", "invalid"}
Order == [status : Status, key : Nat, csr : Nat,
          auth : [Domains -> {"pending", "asked", "valid", "invalid"}]]

ASSUME AcmeAssumption ==
  /\ IsDns01 \in BOOLEAN
  /\ MaxKeys \in Nat /\ MaxFaults \in Nat /\ MaxStops \in Nat
  /\ None \notin Urls \cup Domains \cup PendingOrder \cup Snapshot

VARIABLES
  pc,            \* where the ACME task is; "down": no process, "ended": no task
  back,          \* where cleanup_dns returns to
  ram,           \* AcmeManager.state
  disk,          \* the snapshots a reopened store may find
  write_failed,  \* PrivateStore.write_failed
  result,        \* what issue_inner returned
  seen,          \* the order's status as last fetched
  todo,          \* authorizations still to be gone through
  domain,        \* the one at hand
  leases,        \* challenges the HTTP-01 registry answers
  live,          \* the key of the certificate in the TLS resolvers
  orders,        \* the authority's orders
  zone,          \* TXT records published
  key,           \* keys generated so far
  faults, stops

task == <<back, result, seen, todo, domain, leases>>
store == <<ram, disk, write_failed>>
world == <<orders, zone>>
vars == <<pc, task, store, live, world, key, faults, stops>>

Fresh == [account |-> FALSE, order |-> None, installed |-> 0, dns_cleanup |-> {}]
NoOrder == [status |-> "none", key |-> 0, csr |-> 0, auth |-> [d \in Domains |-> "pending"]]
Fault == faults < MaxFaults /\ faults' = faults + 1

Init ==
  /\ pc = "down" /\ back = "idle" /\ result = "Ok" /\ seen = "pending"
  /\ todo = {} /\ domain = None /\ leases = {}
  /\ ram = Fresh /\ disk = {None} /\ write_failed = FALSE
  /\ live = 0 /\ key = 0 /\ faults = 0 /\ stops = 0
  /\ orders = [u \in Urls |-> NoOrder] /\ zone = {}

----------------------------------------------------------------------------
(* persist(), and where the caller goes on.  After one failure the store   *)
(* refuses every write until it is opened again.                           *)

Stored(s, next) ==
  /\ ~write_failed
  /\ ram' = s /\ disk' = {s} /\ pc' = next
  /\ UNCHANGED <<write_failed, faults>>

StoreFails(s, next) ==
  /\ ram' = s /\ pc' = next /\ write_failed' = TRUE
  /\ \/ ~write_failed /\ Fault /\ disk' = disk \cup {s}
     \/ write_failed /\ UNCHANGED <<disk, faults>>

(* Inside issue_inner: the attempt goes on at `next`, or ends with Storage. *)
Persist(s, next) ==
  \/ Stored(s, next) /\ UNCHANGED result
  \/ StoreFails(s, "after") /\ result' = "Storage"

Fails(error) == pc' = "after" /\ result' = error

----------------------------------------------------------------------------
(* open_inner, reconcile_order and attach_handles, at boot.  The operator  *)
(* can name the order that a lost newOrder created.                        *)

Opened(s) ==
  /\ ram' = s /\ live' = s.installed /\ pc' = "cleanup"
  /\ UNCHANGED <<task, write_failed, world, key, stops>>

OpenStored(s) ==
  \/ Opened(s) /\ disk' = {s} /\ UNCHANGED faults
  \/ /\ Fault /\ disk' = disk \cup {s}
     /\ UNCHANGED <<pc, task, ram, write_failed, live, world, key, stops>>

Open ==
  /\ pc = "down"
  /\ \/ \E s \in disk \ {None} : Opened(s) /\ UNCHANGED <<disk, faults>>
     \/ None \in disk /\ OpenStored(Fresh)

ReconcileOrder ==
  /\ pc = "down"
  /\ \E s \in disk \ {None}, u \in Urls :
       /\ s.order # None /\ s.order.url = None
       /\ orders[u].status # "none" /\ orders[u].key = s.order.key
       /\ OpenStored([s EXCEPT !.order.url = u])

(* cleanup_dns: a record leaves the list once its removal is confirmed.    *)
CleanupFails == pc' = IF back \in {"idle", "ended"} THEN "ended" ELSE "idle"

Removed(r) == [ram EXCEPT !.dns_cleanup = @ \ {r}]

CleanupDns ==
  /\ pc = "cleanup"
  /\ \/ ram.dns_cleanup = {} /\ pc' = back /\ UNCHANGED <<store, zone, faults>>
     \/ \E r \in ram.dns_cleanup :
          /\ zone' = zone \ {r}
          /\ \/ Stored(Removed(r), "cleanup")
             \/ StoreFails(Removed(r), "ended")
     \/ \E r \in ram.dns_cleanup :
          /\ Fault /\ zone' \in {zone, zone \ {r}}
          /\ CleanupFails /\ UNCHANGED store
  /\ UNCHANGED <<task, live, orders, key, stops>>

----------------------------------------------------------------------------
(* issue and issue_inner.                                                  *)

Issue ==
  /\ pc = "idle"
  /\ IF ram.order # None /\ ram.order.url = None
     THEN pc' = "ended" /\ UNCHANGED <<store, back, faults>>
     ELSE /\ ram.order = None => key < MaxKeys
          /\ Stored(ram, "cleanup") \/ StoreFails(ram, "ended")
          /\ back' = "account"
  /\ UNCHANGED <<result, seen, todo, domain, leases, live, world, key, stops>>

CreateAccount ==
  /\ pc = "account"
  /\ \/ ram.account /\ pc' = "order" /\ UNCHANGED <<store, result, faults>>
     \/ ~ram.account /\ Persist([ram EXCEPT !.account = TRUE], "order")
     \/ Fault /\ Fails("Authority") /\ UNCHANGED store
  /\ UNCHANGED <<back, seen, todo, domain, leases, live, world, key, stops>>

\* Mutant: the new key is saved only with the order's URL
BeginOrder_Unsaved ==
  /\ pc = "order" /\ ram.order = None
  /\ key' = key + 1 /\ pc' = "newOrder"
  /\ ram' = [ram EXCEPT !.order = [key |-> key + 1, url |-> None]]
  /\ UNCHANGED <<disk, write_failed, faults, task, live, world, stops>>

BeginOrder ==
  /\ pc = "order" /\ ram.order = None
  /\ key' = key + 1
  /\ Persist([ram EXCEPT !.order = [key |-> key + 1, url |-> None]], "newOrder")
  /\ UNCHANGED <<back, seen, todo, domain, leases, live, world, stops>>

NewOrder ==
  /\ pc = "newOrder"
  /\ \/ \E u \in {v \in Urls : orders[v].status = "none"} :
          /\ orders' = [orders EXCEPT ![u].status = "pending", ![u].key = ram.order.key]
          /\ \/ /\ Persist([ram EXCEPT !.order.url = u], "authz")
                /\ seen' = "pending" /\ todo' = Domains
             \/ Fault /\ Fails("Authority") /\ UNCHANGED <<store, seen, todo>>
     \/ Fault /\ Fails("Authority") /\ UNCHANGED <<store, seen, todo, orders>>
  /\ UNCHANGED <<back, domain, leases, live, zone, key, stops>>

FetchOrder ==
  /\ pc = "order" /\ ram.order # None
  /\ \/ /\ pc' = "authz" /\ seen' = orders[ram.order.url].status /\ todo' = Domains
        /\ UNCHANGED <<result, faults>>
     \/ Fault /\ Fails("Authority") /\ UNCHANGED <<seen, todo>>
  /\ UNCHANGED <<store, back, domain, leases, live, world, key, stops>>

(* The authorizations, in whatever order the authority lists them.         *)
Record(d) == <<ram.order.url, d>>
Leased(d) == leases \cup {Record(d)}

\* Mutant: an authorization that is already valid is an error
Skips_Never(status) == FALSE

Skips(status) == status = "valid"

Authorization ==
  /\ pc = "authz"
  /\ \/ \E d \in todo :
          LET status == orders[ram.order.url].auth[d]
          IN  \/ /\ Skips(status) /\ todo' = todo \ {d}
                 /\ UNCHANGED <<pc, store, result, domain, leases, faults>>
              \/ /\ status \in {"pending", "asked"} /\ IsDns01
                 /\ Persist([ram EXCEPT !.dns_cleanup = @ \cup {Record(d)}], "present")
                 /\ domain' = d /\ UNCHANGED <<todo, leases>>
              \/ /\ status \in {"pending", "asked"} /\ ~IsDns01
                 /\ leases' = Leased(d) /\ domain' = d /\ pc' = "setReady"
                 /\ UNCHANGED <<store, result, todo, faults>>
              \/ /\ status \notin {"pending", "asked"} /\ ~Skips(status)
                 /\ Fails("Challenge")
                 /\ UNCHANGED <<store, todo, domain, leases, faults>>
     \/ /\ todo = {} /\ pc' = "poll"
        /\ UNCHANGED <<store, result, todo, domain, leases, faults>>
     \/ todo # {} /\ Fault /\ Fails("Authority") /\ UNCHANGED <<store, todo, domain, leases>>
  /\ UNCHANGED <<back, seen, live, world, key, stops>>

(* provider.present, and provider.ready until the controller answers true. *)
Present ==
  /\ pc = "present"
  /\ \/ /\ zone' = zone \cup {Record(domain)} /\ pc' = "setReady"
        /\ UNCHANGED <<result, faults>>
     \/ Fault /\ Fails("Dns") /\ zone' \in {zone, zone \cup {Record(domain)}}
  /\ UNCHANGED <<back, seen, todo, domain, leases, store, live, orders, key, stops>>

Asked == [orders EXCEPT ![ram.order.url].auth[domain] = IF @ = "pending" THEN "asked" ELSE @]

SetReady ==
  /\ pc = "setReady"
  /\ \/ /\ orders' = Asked /\ todo' = todo \ {domain} /\ pc' = "authz"
        /\ UNCHANGED <<result, faults>>
     \/ Fault /\ Fails("Authority") /\ orders' \in {orders, Asked} /\ UNCHANGED todo
  /\ UNCHANGED <<back, seen, domain, leases, store, live, zone, key, stops>>

(* One turn of the loop that follows the order, with the refresh after it. *)
Finalized ==
  [orders EXCEPT ![ram.order.url].status = "processing", ![ram.order.url].csr = ram.order.key]

Refresh ==
  /\ pc = "poll" /\ seen \in {"pending", "processing"}
  /\ \/ seen' = orders[ram.order.url].status /\ UNCHANGED <<pc, result, faults>>
     \/ Fault /\ Fails("Authority") /\ UNCHANGED seen
  /\ UNCHANGED <<back, todo, domain, leases, store, live, world, key, stops>>

FinalizeCsr ==
  /\ pc = "poll" /\ seen = "ready"
  /\ IF orders[ram.order.url].status = "ready"
     THEN \/ orders' = Finalized /\ seen' = "processing" /\ UNCHANGED <<pc, result, faults>>
          \/ Fault /\ Fails("Authority") /\ orders' \in {orders, Finalized} /\ UNCHANGED seen
     ELSE Fails("Authority") /\ UNCHANGED <<orders, seen, faults>>
  /\ UNCHANGED <<back, todo, domain, leases, store, live, zone, key, stops>>

Download ==
  /\ pc = "poll" /\ seen = "valid" /\ pc' = "after"
  /\ \/ result' = "Ok" /\ UNCHANGED faults
     \/ result' = "Authority" /\ Fault
  /\ UNCHANGED <<back, seen, todo, domain, leases, store, live, world, key, stops>>

Abandon ==
  /\ pc = "poll" /\ seen = "invalid"
  /\ LET s == [ram EXCEPT !.order = None]
     IN  \/ Stored(s, "after") /\ result' = "Authority"
         \/ StoreFails(s, "after") /\ result' = "Storage"
  /\ UNCHANGED <<back, seen, todo, domain, leases, live, world, key, stops>>

(* The rest of issue: the leases are dropped with issue_inner, a later     *)
(* Retry-After is saved, and what was published is withdrawn.              *)
After ==
  /\ pc = "after"
  /\ \/ pc' = "cleanup" /\ UNCHANGED <<store, faults>>
     \/ Stored(ram, "cleanup") \/ StoreFails(ram, "ended")
  /\ back' = "finish" /\ leases' = {}
  /\ UNCHANGED <<result, seen, todo, domain, live, world, key, stops>>

(* What the task makes of the result: install and publish, try again when  *)
(* the next attempt is due, or stop for the operator.                      *)
Installed == [ram EXCEPT !.installed = ram.order.key, !.order = None]

Install ==
  /\ pc = "finish" /\ result = "Ok"
  /\ IF orders[ram.order.url].csr # ram.order.key
     THEN pc' = "idle" /\ UNCHANGED <<store, live, faults>>
     ELSE \/ Stored(Installed, "idle") /\ live' = ram.order.key
          \/ StoreFails(Installed, "ended") /\ UNCHANGED live
  /\ UNCHANGED <<task, world, key, stops>>

Finish ==
  /\ pc = "finish" /\ result # "Ok"
  /\ pc' = IF result = "Storage" THEN "ended" ELSE "idle"
  /\ UNCHANGED <<task, store, live, world, key, faults, stops>>

----------------------------------------------------------------------------
(* Timeouts, the shutdown of the server and the death of the process.      *)

Inner == {"account", "order", "newOrder", "authz", "present", "setReady", "poll"}

(* The 120 seconds given to issue_inner are over.                          *)
Timeout ==
  /\ pc \in Inner /\ Fault /\ Fails("Timeout")
  /\ UNCHANGED <<back, seen, todo, domain, leases, store, live, world, key, stops>>

(* The shutdown token drops issue() at an await; the boot's cleanup and    *)
(* the shutdown's own are not selected against it.                         *)
Shutdown ==
  /\ \/ pc \in Inner \cup {"idle"}
     \/ pc = "cleanup" /\ back \in {"account", "finish"}
  /\ pc' = "cleanup" /\ back' = "ended" /\ leases' = {}
  /\ UNCHANGED <<result, seen, todo, domain, store, live, world, key, faults, stops>>

Stop ==
  /\ pc # "down" /\ stops < MaxStops
  /\ pc' = "down" /\ back' = "idle" /\ result' = "Ok" /\ seen' = "pending"
  /\ todo' = {} /\ domain' = None /\ leases' = {} /\ ram' = Fresh
  /\ write_failed' = FALSE /\ live' = 0 /\ stops' = stops + 1
  /\ UNCHANGED <<disk, world, key, faults>>

----------------------------------------------------------------------------
(* The authority: it looks at a challenge it was asked to validate, finds  *)
(* the order ready once every authorization is valid, and signs.           *)

Visible(r) == r \in zone \/ r \in leases

Judged(u, d, verdict) ==
  LET auth == [orders[u].auth EXCEPT ![d] = verdict]
      status == IF verdict = "invalid" THEN "invalid"
                ELSE IF \A e \in Domains : auth[e] = "valid" THEN "ready" ELSE "pending"
  IN  orders' = [orders EXCEPT ![u].auth = auth, ![u].status = status]

Validate(u, d) ==
  /\ orders[u].status = "pending" /\ orders[u].auth[d] = "asked" /\ Visible(<<u, d>>)
  /\ Judged(u, d, "valid")
  /\ UNCHANGED <<pc, task, store, live, zone, key, faults, stops>>

Refuse(u, d) ==
  /\ orders[u].status = "pending" /\ orders[u].auth[d] = "asked" /\ Fault
  /\ Judged(u, d, "invalid")
  /\ UNCHANGED <<pc, task, store, live, zone, key, stops>>

Sign(u) ==
  /\ orders[u].status = "processing"
  /\ orders' = [orders EXCEPT ![u].status = "valid"]
  /\ UNCHANGED <<pc, task, store, live, zone, key, faults, stops>>

Authority == \E u \in Urls : Sign(u) \/ \E d \in Domains : Validate(u, d)

Task ==
  \/ CleanupDns \/ Issue \/ CreateAccount \/ BeginOrder \/ NewOrder \/ FetchOrder
  \/ Authorization \/ Present \/ SetReady \/ Refresh \/ FinalizeCsr \/ Download
  \/ Abandon \/ After \/ Install \/ Finish

Next ==
  \/ Open \/ ReconcileOrder \/ Task \/ Timeout \/ Shutdown \/ Stop
  \/ Authority \/ \E u \in Urls, d \in Domains : Refuse(u, d)

Spec == Init /\ [][Next]_vars

(* The runtime keeps polling the task, and the authority does its part.    *)
LiveSpec == Spec /\ WF_vars(Task) /\ WF_vars(Authority)
----------------------------------------------------------------------------
(* Properties.                                                             *)

TypeOK ==
  /\ pc \in Inner \cup {"down", "ended", "cleanup", "idle", "after", "finish"}
  /\ back \in {"idle", "account", "finish", "ended"}
  /\ result \in {"Ok", "Storage", "Authority", "Challenge", "Dns", "Timeout"}
  /\ seen \in Status /\ todo \subseteq Domains /\ domain \in Domains \cup {None}
  /\ leases \subseteq Urls \X Domains /\ zone \subseteq Urls \X Domains
  /\ ram \in Snapshot /\ disk \subseteq Snapshot \cup {None} /\ write_failed \in BOOLEAN
  /\ orders \in [Urls -> Order] /\ live \in Nat /\ key \in Nat
  /\ faults \in 0..MaxFaults /\ stops \in 0..MaxStops

(* What the snapshot s lets a later process go on with.                    *)
Holds(s, k) == s # None /\ (s.installed >= k \/ (s.order # None /\ s.order.key = k))

(* newOrder is never sent twice for one key, whatever answer was lost and  *)
(* whenever the process died (the write-ahead marker of PendingOrder.url). *)
OrderOnce ==
  \A u, v \in Urls :
    orders[u].status # "none" /\ orders[u].key = orders[v].key => u = v

(* The private key of an order that may still yield a certificate is in    *)
(* every snapshot a restart can find, unless a later one is installed.     *)
KeyKept ==
  \A u \in Urls : orders[u].status \notin {"none", "invalid"} =>
    \A s \in disk : Holds(s, orders[u].key)

(* An order is finalized with the key it was begun under.                  *)
OwnKey == \A u \in Urls : orders[u].csr \in {0, orders[u].key}

(* The TLS resolvers serve only a certificate that was signed and that a   *)
(* restart still has, or can still download.                               *)
LiveIsDurable ==
  live # 0 => /\ \E u \in Urls : orders[u].status = "valid" /\ orders[u].csr = live
              /\ \A s \in disk : Holds(s, live)

(* Every record that may be in the zone is in the journal of every         *)
(* snapshot a restart can find, so some later cleanup_dns withdraws it.    *)
RecordsJournaled == \A s \in disk : s # None => zone \subseteq s.dns_cleanup

(* What a crash, a lost answer or a failed write must never break.         *)
AcmeExact == OrderOnce /\ KeyKept /\ OwnKey /\ LiveIsDurable /\ RecordsJournaled

Refused ==
  /\ ram.order # None /\ ram.order.url # None
  /\ orders[ram.order.url].status = "invalid"

(* The task is gone, or the bound on keys keeps it from a new order.       *)
Over == pc \in {"down", "ended"} \/ (key = MaxKeys /\ ram.order = None)

(* A task that keeps running goes on to publish a newer certificate, past  *)
(* timeouts, lost answers and restarts with an order half done, unless the *)
(* authority refuses the order.                                            *)
RenewsUnlessRefused ==
  \A n \in 0..MaxKeys - 1 : (pc = "idle" /\ live = n) ~> (live > n \/ Over \/ Refused)

(* The comment in attach_handles: the renewal loop is what replaces a      *)
(* certificate, for as long as its task runs; a refused order is replaced. *)
Renews == \A n \in 0..MaxKeys - 1 : (pc = "idle" /\ live = n) ~> (live > n \/ Over)
============================================================================
