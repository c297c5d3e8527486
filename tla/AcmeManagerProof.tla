-------------------------- MODULE AcmeManagerProof --------------------------
(***************************************************************************)
(* AcmeExact for every set of domains and orders and every number of       *)
(* faults and stops.                                                       *)
(***************************************************************************)
EXTENDS AcmeManager, TLAPS

\* Leaves are set and function reasoning; one that needs more says SMTT.
USE ZenonT(30)

Active(o) == o.status \notin {"none", "invalid"}

(* A snapshot that a process can go on from, given the authority's orders  *)
(* o, the zone z and the number of keys generated k.                       *)
Sound(s, o, z, k) ==
  /\ s.installed <= k
  /\ s.installed # 0 => \E u \in Urls : o[u].status = "valid" /\ o[u].csr = s.installed
  /\ s.order # None =>
       /\ s.installed < s.order.key /\ s.order.key <= k
       /\ s.order.url # None => /\ o[s.order.url].status # "none"
                                /\ o[s.order.url].key = s.order.key
  /\ z \subseteq s.dns_cleanup
  /\ \A u \in Urls : Active(o[u]) => Holds(s, o[u].key)

(* Whatever a restart finds, and the running manager's own state, is sound. *)
Durable ==
  /\ \A s \in disk : s # None => Sound(s, orders, zone, key)
  /\ None \in disk => Sound(Fresh, orders, zone, key)
  /\ pc # "down" => Sound(ram, orders, zone, key)

(* What the authority holds belongs to keys that were generated.           *)
Keyed(o, k) ==
  /\ \A u \in Urls : (o[u].status = "none") <=> (o[u].key = 0)
  /\ \A u \in Urls : o[u].key <= k /\ o[u].csr \in {0, o[u].key}
  /\ \A u, v \in Urls : o[u].status # "none" /\ o[u].key = o[v].key => u = v

(* An attempt works on a snapshot that is safely on disk.                  *)
Ending == pc \in {"after", "finish"} \/ (pc = "cleanup" /\ back = "finish")
Starting == pc \in {"account", "order"} \/ (pc = "cleanup" /\ back = "account")
Following == pc \in {"authz", "present", "setReady", "poll"}

Synced ==
  Starting \/ pc \in Inner \/ (Ending /\ result # "Storage") =>
    ~write_failed /\ disk = {ram}

HasUrl == ram.order # None /\ ram.order.url # None

Control ==
  /\ pc = "down" => back = "idle"
  /\ Starting => ram.order = None \/ HasUrl
  /\ pc = "newOrder" => /\ ram.order # None
                        /\ \A u \in Urls : orders[u].key # ram.order.key
  /\ Following => /\ HasUrl
                  /\ seen \in {"valid", "invalid"} => orders[ram.order.url].status = seen
  /\ pc \in {"present", "setReady"} => domain \in Domains
  /\ pc = "present" => Record(domain) \in ram.dns_cleanup
  /\ Ending /\ result = "Ok" => HasUrl /\ orders[ram.order.url].status = "valid"

Inv == TypeOK /\ Durable /\ Keyed(orders, key) /\ Synced /\ Control /\
       (live # 0 => \E u \in Urls : orders[u].status = "valid" /\ orders[u].csr = live)
----------------------------------------------------------------------------
(* Types.                                                                  *)

LEMMA SnapshotType ==
  ASSUME NEW s \in Snapshot
  PROVE  /\ s.account \in BOOLEAN /\ s.order \in PendingOrder \cup {None}
         /\ s.installed \in Nat /\ s.dns_cleanup \subseteq Urls \X Domains
         /\ s # None
         /\ s.order # None => s.order.key \in Nat /\ s.order.url \in Urls \cup {None}
         /\ [s EXCEPT !.account = TRUE] \in Snapshot
         /\ \A p \in PendingOrder \cup {None} : [s EXCEPT !.order = p] \in Snapshot
         /\ \A u \in Urls : s.order # None => [s EXCEPT !.order.url = u] \in Snapshot
         /\ \A r \in Urls \X Domains : [s EXCEPT !.dns_cleanup = @ \cup {r}] \in Snapshot
         /\ \A r \in Urls \X Domains : [s EXCEPT !.dns_cleanup = @ \ {r}] \in Snapshot
         /\ s.order # None => [s EXCEPT !.installed = s.order.key, !.order = None] \in Snapshot
  BY AcmeAssumption DEF Snapshot, PendingOrder

LEMMA FreshType == Fresh \in Snapshot
  BY DEF Fresh, Snapshot

LEMMA InitType == Init => TypeOK
<1> SUFFICES ASSUME Init PROVE TypeOK
  OBVIOUS
<1>1. NoOrder \in Order
  BY DEF NoOrder, Order, Status
<1>2. orders \in [Urls -> Order]
  BY <1>1 DEF Init
<1>3. /\ faults \in 0..MaxFaults /\ stops \in 0..MaxStops /\ live \in Nat /\ key \in Nat
      /\ pc \in Inner \cup {"down", "ended", "cleanup", "idle", "after", "finish"}
      /\ seen \in Status
  BY SMTT(20), AcmeAssumption DEF Init, Inner, Status
<1> QED
  BY <1>2, <1>3, FreshType DEF Init, TypeOK

(* One write: what a caller may assume of the store afterwards.            *)
LEMMA Writes ==
  ASSUME TypeOK, NEW s \in Snapshot, NEW n, Stored(s, n) \/ StoreFails(s, n)
  PROVE  /\ pc' = n /\ ram' = s /\ ram' \in Snapshot
         /\ disk' \subseteq disk \cup {s} /\ disk' \subseteq Snapshot \cup {None}
         /\ write_failed' \in BOOLEAN /\ faults' \in 0..MaxFaults
         /\ Stored(s, n) => ~write_failed' /\ disk' = {ram'}
<1>1. faults' \in 0..MaxFaults
  BY SMTT(20), AcmeAssumption DEF TypeOK, Stored, StoreFails, Fault
<1>2. write_failed' \in BOOLEAN
  BY DEF TypeOK, Stored, StoreFails
<1> QED
  BY <1>1, <1>2 DEF TypeOK, Stored, StoreFails

LEMMA Persists ==
  ASSUME TypeOK, NEW s \in Snapshot, NEW n, Persist(s, n)
  PROVE  /\ ram' = s /\ ram' \in Snapshot
         /\ disk' \subseteq disk \cup {s} /\ disk' \subseteq Snapshot \cup {None}
         /\ write_failed' \in BOOLEAN /\ faults' \in 0..MaxFaults
         /\ \/ pc' = n /\ result' = result /\ ~write_failed' /\ disk' = {ram'}
            \/ pc' = "after" /\ result' = "Storage"
<1>1. CASE Stored(s, n) /\ UNCHANGED result
  BY <1>1, Writes
<1>2. CASE StoreFails(s, "after") /\ result' = "Storage"
  BY <1>2, Writes
<1> QED
  BY <1>1, <1>2 DEF Persist

LEMMA FaultType == TypeOK /\ Fault => faults' \in 0..MaxFaults
  BY SMTT(20), AcmeAssumption DEF TypeOK, Fault

(* What the authority's orders become.                                     *)
LEMMA OrdersType ==
  ASSUME TypeOK, NEW u \in Urls
  PROVE  /\ orders[u] \in Order
         /\ orders[u].status \in Status /\ orders[u].key \in Nat /\ orders[u].csr \in Nat
         /\ \A st \in Status : [orders EXCEPT ![u].status = st] \in [Urls -> Order]
         /\ \A st \in Status, k \in Nat :
              /\ [orders EXCEPT ![u].status = st, ![u].key = k] \in [Urls -> Order]
              /\ [orders EXCEPT ![u].status = st, ![u].csr = k] \in [Urls -> Order]
         /\ \A d \in Domains, a \in {"pending", "asked", "valid", "invalid"} :
              /\ orders[u].auth[d] \in {"pending", "asked", "valid", "invalid"}
              /\ [orders EXCEPT ![u].auth[d] = a] \in [Urls -> Order]
              /\ \A st \in Status :
                   [orders EXCEPT ![u].auth = [orders[u].auth EXCEPT ![d] = a], ![u].status = st]
                     \in [Urls -> Order]
  BY DEF TypeOK, Order

LEMMA StepType == Inv /\ [Next]_vars => TypeOK'
<1> SUFFICES ASSUME Inv, [Next]_vars PROVE TypeOK'
  OBVIOUS
<1> USE DEF task, store, world
<1>t. TypeOK /\ Control
  BY DEF Inv
<1>r. ram \in Snapshot
  BY <1>t DEF TypeOK
<1>n. /\ (pc = "newOrder" => ram.order # None)
      /\ (pc \in {"authz", "present", "setReady", "poll"} =>
            ram.order # None /\ ram.order.url \in Urls)
      /\ (pc \in {"present", "setReady"} => domain \in Domains)
      /\ (pc = "order" => ram.order = None \/ ram.order.url \in Urls)
      /\ (pc = "finish" /\ result = "Ok" => ram.order # None /\ ram.order.url \in Urls)
  BY <1>t, <1>r, SnapshotType DEF Control, Starting, Following, Ending, HasUrl
<1>1. CASE Open
  <2>1. CASE \E s \in disk \ {None} : Opened(s) /\ UNCHANGED <<disk, faults>>
    <3> PICK s \in disk \ {None} : Opened(s) /\ UNCHANGED <<disk, faults>>
      BY <2>1
    <3>1. s \in Snapshot /\ s.installed \in Nat
      BY <1>t, SnapshotType DEF TypeOK
    <3> QED
      BY <1>t, <3>1 DEF Opened, TypeOK
  <2>2. CASE OpenStored(Fresh)
    <3>1. Fresh.installed \in Nat
      BY DEF Fresh
    <3> QED
      BY <2>2, <3>1, <1>t, FreshType, FaultType DEF Opened, OpenStored, TypeOK
  <2> QED
    BY <1>1, <2>1, <2>2 DEF Open
<1>2. CASE ReconcileOrder
  <2> PICK s \in disk \ {None}, u \in Urls :
         s.order # None /\ OpenStored([s EXCEPT !.order.url = u])
    BY <1>2 DEF ReconcileOrder
  <2>1. [s EXCEPT !.order.url = u] \in Snapshot
    BY <1>t, SnapshotType DEF TypeOK
  <2>2. [s EXCEPT !.order.url = u].installed \in Nat
    BY <2>1, SnapshotType
  <2> QED
    BY SMTT(20), <1>t, <2>1, <2>2, FaultType DEF Opened, OpenStored, TypeOK
<1>3. CASE CleanupDns
  <2>1. \A r \in ram.dns_cleanup : Removed(r) \in Snapshot
    BY <1>r, SnapshotType DEF Removed
  <2>2. /\ ram' \in Snapshot /\ disk' \subseteq Snapshot \cup {None}
        /\ write_failed' \in BOOLEAN /\ faults' \in 0..MaxFaults
    BY <1>3, <1>t, <2>1, Writes, FaultType DEF CleanupDns, TypeOK
  <2>3. pc' \in {"idle", "account", "finish", "ended", "cleanup"} /\ zone' \subseteq zone
    BY <1>3, <1>t, <2>1, Writes DEF CleanupDns, CleanupFails, TypeOK
  <2> QED
    BY SMTT(20), <1>3, <1>t, <2>2, <2>3 DEF CleanupDns, TypeOK, Inner
<1>4. CASE Issue
  BY <1>4, <1>t, <1>r, Writes DEF Issue, TypeOK
<1>5. CASE CreateAccount
  <2>1. [ram EXCEPT !.account = TRUE] \in Snapshot
    BY <1>r, SnapshotType
  <2> QED
    BY SMTT(20), <1>5, <1>t, <2>1, Persists, FaultType DEF CreateAccount, Fails, TypeOK, Inner
<1>6. CASE BeginOrder
  <2>1. [ram EXCEPT !.order = [key |-> key + 1, url |-> None]] \in Snapshot
    <3>1. [key |-> key + 1, url |-> None] \in PendingOrder
      BY SMTT(20), <1>t DEF TypeOK, PendingOrder
    <3> QED
      BY <1>r, <3>1, SnapshotType
  <2> QED
    BY SMTT(20), <1>6, <1>t, <2>1, Persists DEF BeginOrder, TypeOK, Inner
<1>7. CASE NewOrder
  <2>1. orders' \in [Urls -> Order]
    <3>1. ram.order.key \in Nat
      BY <1>7, <1>n, <1>r, SnapshotType DEF NewOrder
    <3>2. \A u \in Urls : [orders EXCEPT ![u].status = "pending", ![u].key = ram.order.key]
                            \in [Urls -> Order]
      BY <3>1, <1>t, OrdersType DEF Status
    <3> QED
      BY <1>7, <1>t, <3>2 DEF NewOrder, TypeOK
  <2>2. \A u \in Urls : [ram EXCEPT !.order.url = u] \in Snapshot
    BY <1>7, <1>n, <1>r, SnapshotType DEF NewOrder
  <2> QED
    <3>1. CASE Fault /\ Fails("Authority") /\ UNCHANGED <<store, seen, todo>>
      BY <1>7, <3>1, <1>t, <2>1, FaultType DEF NewOrder, Fails, TypeOK
    <3>2. CASE \E u \in Urls : /\ Persist([ram EXCEPT !.order.url = u], "authz")
                               /\ seen' = "pending" /\ todo' = Domains
      BY <1>7, <3>2, <1>t, <2>1, <2>2, Persists DEF NewOrder, TypeOK, Inner, Status
    <3> QED
      BY <1>7, <3>1, <3>2 DEF NewOrder
<1>8. CASE FetchOrder
  <2>1. orders[ram.order.url].status \in Status
    BY <1>8, <1>t, <1>n, OrdersType DEF FetchOrder
  <2> QED
    BY <1>8, <1>t, <2>1, FaultType DEF FetchOrder, Fails, TypeOK, Inner
<1>9. CASE Authorization
  <2>1. \A d \in todo : /\ Record(d) \in Urls \X Domains
                        /\ [ram EXCEPT !.dns_cleanup = @ \cup {Record(d)}] \in Snapshot
    BY <1>9, <1>t, <1>n, <1>r, SnapshotType DEF Authorization, Record, TypeOK
  <2> QED
    BY <1>9, <1>t, <2>1, Persists, FaultType DEF Authorization, Leased, Fails, TypeOK, Inner
<1>10. CASE Present
  BY SMTT(20), <1>10, <1>t, <1>n, FaultType DEF Present, Record, Fails, TypeOK, Inner
<1>11. CASE SetReady
  <2>1. Asked \in [Urls -> Order]
    BY <1>11, <1>t, <1>n, OrdersType DEF SetReady, Asked
  <2> QED
    BY <1>11, <1>t, <2>1, FaultType DEF SetReady, Fails, TypeOK, Inner
<1>12. CASE Refresh
  <2>1. orders[ram.order.url].status \in Status
    BY <1>12, <1>t, <1>n, OrdersType DEF Refresh
  <2> QED
    BY <1>12, <1>t, <2>1, FaultType DEF Refresh, Fails, TypeOK, Inner
<1>13. CASE FinalizeCsr
  <2>1. Finalized \in [Urls -> Order]
    BY <1>13, <1>t, <1>n, <1>r, SnapshotType, OrdersType DEF FinalizeCsr, Finalized, Status
  <2> QED
    BY <1>13, <1>t, <2>1, FaultType DEF FinalizeCsr, Fails, TypeOK, Inner, Status
<1>14. CASE Download
  BY <1>14, <1>t, FaultType DEF Download, TypeOK
<1>15. CASE Abandon
  <2>1. [ram EXCEPT !.order = None] \in Snapshot
    BY <1>r, SnapshotType
  <2> QED
    BY <1>15, <1>t, <2>1, Writes DEF Abandon, TypeOK
<1>16. CASE After
  BY <1>16, <1>t, <1>r, Writes DEF After, TypeOK
<1>17. CASE Install
  <2>1. Installed \in Snapshot /\ ram.order.key \in Nat
    BY <1>17, <1>n, <1>r, SnapshotType DEF Install, Installed
  <2> QED
    BY <1>17, <1>t, <2>1, Writes DEF Install, TypeOK
<1>18. CASE Finish
  BY <1>18, <1>t DEF Finish, TypeOK
<1>19. CASE Timeout
  BY <1>19, <1>t, FaultType DEF Timeout, Fails, TypeOK
<1>20. CASE Shutdown
  BY <1>20, <1>t DEF Shutdown, TypeOK
<1>21. CASE Stop
  <2>1. stops' \in 0..MaxStops
    BY SMTT(20), <1>21, <1>t, AcmeAssumption DEF Stop, TypeOK
  <2> QED
    BY <1>21, <1>t, <2>1, FreshType DEF Stop, TypeOK, Status
<1>22. ASSUME NEW u \in Urls, NEW d \in Domains, NEW v \in {"valid", "invalid"}, Judged(u, d, v)
       PROVE  orders' \in [Urls -> Order]
  BY <1>22, <1>t, OrdersType DEF Judged, Status
<1>23. CASE Authority
  <2>1. orders' \in [Urls -> Order]
    <3>1. ASSUME NEW u \in Urls, Sign(u) PROVE orders' \in [Urls -> Order]
      BY <3>1, <1>t, OrdersType DEF Sign, Status
    <3> QED
      BY <1>22, <1>23, <3>1 DEF Authority, Validate
  <2> QED
    BY <1>23, <1>t, <2>1 DEF Authority, Validate, Sign, TypeOK
<1>24. CASE \E u \in Urls, d \in Domains : Refuse(u, d)
  <2>1. orders' \in [Urls -> Order]
    BY <1>22, <1>24 DEF Refuse
  <2> QED
    BY <1>24, <1>t, <2>1, FaultType DEF Refuse, TypeOK
<1>25. CASE UNCHANGED vars
  BY SMTT(20), <1>25, <1>t DEF vars, TypeOK
<1> QED
  BY <1>1, <1>2, <1>3, <1>4, <1>5, <1>6, <1>7, <1>8, <1>9, <1>10, <1>11, <1>12, <1>13, <1>14,
     <1>15, <1>16, <1>17, <1>18, <1>19, <1>20, <1>21, <1>23, <1>24, <1>25 DEF Next, Task

----------------------------------------------------------------------------
(* What the authority may do to an order: only newOrder gives one a key,   *)
(* and a valid or an invalid order stays as it is.                         *)
Moves(o, p) ==
  \A u \in Urls :
    /\ p[u].key = o[u].key /\ p[u].csr \in {o[u].csr, o[u].key}
    /\ (p[u].status = "none") <=> (o[u].status = "none")
    /\ o[u].status = "valid" => p[u].status = "valid" /\ p[u].csr = o[u].csr
    /\ o[u].status = "invalid" => p[u].status = "invalid"

LEMMA OrdersMove == Inv /\ [Next]_vars => NewOrder \/ Moves(orders, orders')
<1> SUFFICES ASSUME Inv, [Next]_vars, ~NewOrder PROVE Moves(orders, orders')
  OBVIOUS
<1>t. TypeOK /\ ram \in Snapshot /\ Durable /\ Control
  BY DEF Inv, TypeOK
<1>o. \A u \in Urls : orders[u].auth \in [Domains -> {"pending", "asked", "valid", "invalid"}]
                      /\ DOMAIN orders[u] = {"status", "key", "csr", "auth"}
  BY <1>t DEF TypeOK, Order
<1>s. CASE UNCHANGED orders
  BY <1>s DEF Moves
<1>1. CASE SetReady
  <2>1. ram.order.url \in Urls
    BY <1>1, <1>t, SnapshotType DEF SetReady, Control, Following, HasUrl
  <2>2. Moves(orders, Asked)
    BY SMTT(20), <2>1, <1>t DEF Asked, Moves, TypeOK, Order
  <2> QED
    BY <1>1, <1>s, <2>2 DEF SetReady
<1>2. CASE FinalizeCsr
  <2>1. /\ ram.order # None /\ ram.order.url \in Urls /\ pc # "down"
        /\ orders[ram.order.url].key = ram.order.key
    BY <1>2, <1>t, SnapshotType DEF FinalizeCsr, Control, Following, HasUrl, Durable, Sound
  <2>2. orders[ram.order.url].status = "ready" => Moves(orders, Finalized)
    BY SMTT(20), <2>1, <1>t DEF Finalized, Moves, TypeOK, Order
  <2> QED
    BY <1>2, <1>s, <2>2 DEF FinalizeCsr
<1>3. ASSUME NEW u \in Urls, NEW d \in Domains, NEW v, Judged(u, d, v),
             orders[u].status = "pending"
      PROVE  Moves(orders, orders')
  <2> DEFINE auth == [orders[u].auth EXCEPT ![d] = v]
  <2>1. \E st \in {"invalid", "ready", "pending"} :
          orders' = [orders EXCEPT ![u].auth = auth, ![u].status = st]
    BY <1>3 DEF Judged
  <2> HIDE DEF auth
  <2> QED
    BY SMTT(20), <2>1, <1>3, <1>t DEF Moves, TypeOK, Order
<1>4. CASE Authority
  <2>1. ASSUME NEW u \in Urls, Sign(u) PROVE Moves(orders, orders')
    BY <2>1, <1>t DEF Sign, Moves, TypeOK, Order
  <2> QED
    BY <1>3, <1>4, <2>1 DEF Authority, Validate
<1>5. CASE \E u \in Urls, d \in Domains : Refuse(u, d)
  BY <1>3, <1>5 DEF Refuse
<1> QED
  BY <1>s, <1>1, <1>2, <1>4, <1>5
  DEF Next, Task, vars, world, Open, Opened, OpenStored, ReconcileOrder, CleanupDns, Issue,
      CreateAccount, BeginOrder, FetchOrder, Authorization, Present, Refresh, Download, Abandon,
      After, Install, Finish, Timeout, Shutdown, Stop

LEMMA MovesSound ==
  ASSUME NEW s \in Snapshot, NEW o \in [Urls -> Order], NEW p \in [Urls -> Order],
         NEW z, NEW y, y \subseteq z, NEW k \in Nat, NEW l \in Nat, k <= l,
         Moves(o, p), Sound(s, o, z, k)
  PROVE  Sound(s, p, y, l)
<1>1. s.installed \in Nat /\ (s.order # None => s.order.key \in Nat /\ s.order.url \in Urls \cup {None})
  BY SnapshotType
<1>2. \A u \in Urls : Active(p[u]) => Holds(s, p[u].key)
  BY DEF Sound, Moves, Active
<1> QED
  BY SMTT(20), <1>1, <1>2 DEF Sound, Moves

LEMMA MovesKeyed ==
  ASSUME NEW o \in [Urls -> Order], NEW p \in [Urls -> Order], NEW k \in Nat, NEW l \in Nat,
         k <= l, Moves(o, p), Keyed(o, k)
  PROVE  Keyed(p, l)
<1>1. \A u \in Urls : o[u].key \in Nat
  BY DEF Order
<1> QED
  BY SMTT(20), <1>1 DEF Keyed, Moves

LEMMA KeyGrows == TypeOK /\ [Next]_vars => key' \in Nat /\ key <= key'
<1>1. ASSUME [Next]_vars, ~BeginOrder PROVE key' = key
  BY <1>1
  DEF Next, Task, Authority, vars, Open, Opened, OpenStored, ReconcileOrder, CleanupDns, Issue,
      CreateAccount, NewOrder, FetchOrder, Authorization, Present, SetReady, Refresh, FinalizeCsr,
      Download, Abandon, After, Install, Finish, Timeout, Shutdown, Stop, Validate, Refuse, Sign
<1>2. BeginOrder => key' = key + 1
  BY DEF BeginOrder
<1> QED
  BY SMTT(20), <1>1, <1>2 DEF TypeOK

(* newOrder on the key at hand: the order is new and so is the key.        *)
LEMMA NewOrderKey ==
  ASSUME Inv, NewOrder
  PROVE  /\ pc = "newOrder" /\ ram \in Snapshot /\ ram.order # None
         /\ ram.order.key \in 1..key /\ disk = {ram} /\ Sound(ram, orders, zone, key)
         /\ \A u \in Urls : orders[u].key # ram.order.key
<1>1. /\ pc = "newOrder" /\ ram \in Snapshot /\ ram.order # None /\ disk = {ram}
      /\ \A u \in Urls : orders[u].key # ram.order.key
  BY DEF Inv, NewOrder, TypeOK, Synced, Control, Inner
<1>2. Sound(ram, orders, zone, key)
  BY <1>1 DEF Inv, Durable
<1>3. ram.order.key \in Nat /\ ram.installed \in Nat /\ key \in Nat
  BY <1>1, SnapshotType DEF Inv, TypeOK
<1>4. ram.installed < ram.order.key /\ ram.order.key <= key
  BY <1>1, <1>2 DEF Sound
<1> QED
  BY SMTT(20), <1>1, <1>2, <1>3, <1>4

LEMMA StepKeyed == Inv /\ [Next]_vars => Keyed(orders', key')
<1> SUFFICES ASSUME Inv, [Next]_vars PROVE Keyed(orders', key')
  OBVIOUS
<1>t. orders \in [Urls -> Order] /\ orders' \in [Urls -> Order] /\ key \in Nat /\ Keyed(orders, key)
  BY StepType DEF Inv, TypeOK
<1>1. CASE NewOrder
  <2>1. CASE UNCHANGED orders
    BY <1>1, <2>1, <1>t DEF NewOrder
  <2>2. ASSUME NEW u \in Urls, orders[u].status = "none",
               orders' = [orders EXCEPT ![u].status = "pending", ![u].key = ram.order.key]
        PROVE  Keyed(orders', key')
    <3>1. /\ orders'[u].status = "pending" /\ orders'[u].key = ram.order.key
          /\ orders'[u].csr = orders[u].csr
          /\ \A v \in Urls : v # u => orders'[v] = orders[v]
      BY <2>2, <1>t DEF Order
    <3>2. key' = key
      BY <1>1 DEF NewOrder
    <3>3. \A v \in Urls : orders[v].key \in Nat /\ orders[v].csr \in Nat
      BY <1>t DEF Order
    <3> QED
      BY SMTT(20), <2>2, <3>1, <3>2, <3>3, <1>1, <1>t, NewOrderKey DEF Keyed
  <2> QED
    BY <1>1, <2>1, <2>2 DEF NewOrder
<1>2. CASE Moves(orders, orders')
  BY <1>2, <1>t, MovesKeyed, KeyGrows DEF Inv
<1> QED
  BY <1>1, <1>2, OrdersMove

----------------------------------------------------------------------------
(* Durability.                                                             *)

(* The snapshots on disk, after the step's effect on the world.            *)
Kept ==
  /\ \A s \in disk : s # None => Sound(s, orders', zone', key')
  /\ None \in disk => Sound(Fresh, orders', zone', key')

LEMMA DurableStep ==
  ASSUME Kept, disk' \subseteq disk \cup {ram'}, ram' \in Snapshot,
         Sound(ram', orders', zone', key')
  PROVE  Durable'
  BY SnapshotType DEF Kept, Durable

(* The world moves on without a new order or record: what was sound stays. *)
LEMMA StaysSound ==
  ASSUME Inv, [Next]_vars, Moves(orders, orders'), zone' \subseteq zone,
         NEW s \in Snapshot, Sound(s, orders, zone, key)
  PROVE  Sound(s, orders', zone', key')
<1>1. orders \in [Urls -> Order] /\ orders' \in [Urls -> Order] /\ key \in Nat
  BY StepType DEF Inv, TypeOK
<1>2. key' \in Nat /\ key <= key'
  BY KeyGrows DEF Inv
<1> QED
  BY <1>1, <1>2, MovesSound

LEMMA StaysKept ==
  ASSUME Inv, [Next]_vars, Moves(orders, orders'), zone' \subseteq zone
  PROVE  Kept
  BY StaysSound, FreshType DEF Kept, Inv, Durable, TypeOK

(* The snapshots the manager writes, one lemma for each way it changes one. *)
LEMMA EditsSound ==
  ASSUME NEW s \in Snapshot, NEW o \in [Urls -> Order], NEW z, NEW k \in Nat, Sound(s, o, z, k)
  PROVE  /\ Sound([s EXCEPT !.account = TRUE], o, z, k)
         /\ \A r \in Urls \X Domains : Sound([s EXCEPT !.dns_cleanup = @ \cup {r}], o, z, k)
         /\ \A r \in Urls \X Domains : Sound([s EXCEPT !.dns_cleanup = @ \ {r}], o, z \ {r}, k)
<1>1. ASSUME NEW t \in Snapshot, t.installed = s.installed, t.order = s.order, NEW y,
             y \subseteq t.dns_cleanup
      PROVE  Sound(t, o, y, k)
  <2>1. s # None /\ t # None
    BY SnapshotType
  <2>2. \A u \in Urls : Active(o[u]) => Holds(t, o[u].key)
    BY SMTT(20), <1>1, <2>1 DEF Sound, Holds
  <2> QED
    BY SMTT(20), <1>1, <2>2 DEF Sound
<1>2. z \subseteq s.dns_cleanup
  BY DEF Sound
<1>3. Sound([s EXCEPT !.account = TRUE], o, z, k)
  BY <1>1, <1>2 DEF Snapshot
<1>4. ASSUME NEW r \in Urls \X Domains
      PROVE  Sound([s EXCEPT !.dns_cleanup = @ \cup {r}], o, z, k)
  BY <1>1, <1>2 DEF Snapshot
<1>5. ASSUME NEW r \in Urls \X Domains
      PROVE  Sound([s EXCEPT !.dns_cleanup = @ \ {r}], o, z \ {r}, k)
  BY <1>1, <1>2 DEF Snapshot
<1> QED
  BY <1>3, <1>4, <1>5

LEMMA BegunSound ==
  ASSUME NEW s \in Snapshot, NEW o \in [Urls -> Order], NEW z, NEW k \in Nat, Sound(s, o, z, k),
         s.order = None
  PROVE  Sound([s EXCEPT !.order = [key |-> k + 1, url |-> None]], o, z, k + 1)
<1> DEFINE t == [s EXCEPT !.order = [key |-> k + 1, url |-> None]]
<1>1. /\ t.installed = s.installed /\ t.dns_cleanup = s.dns_cleanup /\ s.installed \in Nat
      /\ t.order = [key |-> k + 1, url |-> None]
  BY DEF Snapshot
<1>2. t \in Snapshot
  <2>1. [key |-> k + 1, url |-> None] \in PendingOrder
    BY SMTT(20) DEF PendingOrder
  <2> QED
    BY <2>1, SnapshotType
<1>3. t # None
  BY <1>2, SnapshotType
<1> HIDE DEF t
<1>4. \A u \in Urls : Active(o[u]) => Holds(t, o[u].key)
  BY <1>1, <1>3 DEF Sound, Holds
<1> QED
  BY SMTT(20), <1>1, <1>4 DEF Sound, t

(* An order the authority has, and the snapshot that names it.             *)
LEMMA NamedSound ==
  ASSUME NEW s \in Snapshot, NEW o \in [Urls -> Order], NEW z, NEW k \in Nat, Sound(s, o, z, k),
         s.order # None, NEW u \in Urls, o[u].status # "none", o[u].key = s.order.key
  PROVE  Sound([s EXCEPT !.order.url = u], o, z, k)
<1> DEFINE t == [s EXCEPT !.order.url = u]
<1>1. /\ t.installed = s.installed /\ t.dns_cleanup = s.dns_cleanup
      /\ t.order.key = s.order.key /\ t.order.url = u
      /\ t \in Snapshot
  <2>1. s.order \in PendingOrder
    BY SnapshotType
  <2>2. t \in Snapshot
    BY SnapshotType
  <2> QED
    BY <2>1, <2>2 DEF Snapshot, PendingOrder
<1>2. t # None /\ t.order # None
  <2>1. [s.order EXCEPT !.url = u] \in PendingOrder /\ t.order = [s.order EXCEPT !.url = u]
    <3>1. s.order \in PendingOrder
      BY SnapshotType
    <3> QED
      BY <3>1 DEF Snapshot, PendingOrder
  <2> QED
    BY <1>1, <2>1, SnapshotType, AcmeAssumption
<1> HIDE DEF t
<1>3. \A v \in Urls : Active(o[v]) => Holds(t, o[v].key)
  BY <1>1, <1>2 DEF Sound, Holds
<1> QED
  BY <1>1, <1>3 DEF Sound, t

LEMMA PlacedSound ==
  ASSUME NEW s \in Snapshot, NEW o \in [Urls -> Order], NEW z, NEW k \in Nat, Sound(s, o, z, k),
         s.order # None, NEW u \in Urls, o[u].status = "none"
  PROVE  Sound(s, [o EXCEPT ![u].status = "pending", ![u].key = s.order.key], z, k)
<1> DEFINE p == [o EXCEPT ![u].status = "pending", ![u].key = s.order.key]
<1>1. /\ p[u].status = "pending" /\ p[u].key = s.order.key
      /\ \A v \in Urls : v # u => p[v] = o[v]
  BY DEF Order
<1>2. s # None /\ (s.order.url # None => s.order.url \in Urls)
  BY SnapshotType
<1> HIDE DEF p
<1>3. \A v \in Urls : Active(p[v]) => Holds(s, p[v].key)
  BY <1>1, <1>2 DEF Sound, Holds
<1>4. s.installed # 0 => \E v \in Urls : p[v].status = "valid" /\ p[v].csr = s.installed
  BY <1>1 DEF Sound
<1> QED
  BY <1>1, <1>2, <1>3, <1>4 DEF Sound, p

(* Giving up an order that the authority refused loses no key that counts. *)
LEMMA AbandonedSound ==
  ASSUME NEW s \in Snapshot, NEW o \in [Urls -> Order], NEW z, NEW k \in Nat, Sound(s, o, z, k),
         Keyed(o, k), s.order # None, s.order.url # None, o[s.order.url].status = "invalid"
  PROVE  Sound([s EXCEPT !.order = None], o, z, k)
<1> DEFINE t == [s EXCEPT !.order = None]
<1>1. t.installed = s.installed /\ t.dns_cleanup = s.dns_cleanup /\ t.order = None
  BY DEF Snapshot
<1>2. t # None
  BY SnapshotType
<1> HIDE DEF t
<1>3. s.order.url \in Urls /\ o[s.order.url].key = s.order.key
  BY SnapshotType DEF Sound
<1>4. \A v \in Urls : Active(o[v]) => Holds(t, o[v].key)
  BY SMTT(20), <1>1, <1>2, <1>3 DEF Sound, Holds, Keyed, Active
<1> QED
  BY <1>1, <1>4 DEF Sound, t

(* A certificate installed in place of its order.                          *)
LEMMA InstalledSound ==
  ASSUME NEW s \in Snapshot, NEW o \in [Urls -> Order], NEW z, NEW k \in Nat, Sound(s, o, z, k),
         s.order # None, s.order.url # None, o[s.order.url].status = "valid",
         o[s.order.url].csr = s.order.key
  PROVE  Sound([s EXCEPT !.installed = s.order.key, !.order = None], o, z, k)
<1> DEFINE t == [s EXCEPT !.installed = s.order.key, !.order = None]
<1>1. /\ t.installed = s.order.key /\ t.dns_cleanup = s.dns_cleanup /\ t.order = None
      /\ s.order.key \in Nat /\ s.installed \in Nat /\ s.order.url \in Urls
  BY SnapshotType DEF Snapshot
<1>2. t # None
  BY SnapshotType
<1> HIDE DEF t
<1>3. \A v \in Urls : o[v].key \in Nat
  BY DEF Order
<1>4. \A v \in Urls : Active(o[v]) => Holds(t, o[v].key)
  BY SMTT(20), <1>1, <1>2, <1>3 DEF Sound, Holds
<1> QED
  BY <1>1, <1>4 DEF Sound, t

LEMMA StepDurable == Inv /\ [Next]_vars => Durable'
<1> SUFFICES ASSUME Inv, [Next]_vars PROVE Durable'
  OBVIOUS
<1> USE DEF task, store, world
<1>t. /\ TypeOK /\ ram \in Snapshot /\ ram' \in Snapshot /\ Durable /\ Control /\ Synced
      /\ orders \in [Urls -> Order] /\ key \in Nat /\ orders' \in [Urls -> Order] /\ key' \in Nat
  BY StepType DEF Inv, TypeOK
<1>r. pc # "down" => Sound(ram, orders, zone, key)
  BY <1>t DEF Durable
<1>m. UNCHANGED orders => Moves(orders, orders')
  BY DEF Moves
\* Steps that write nothing and add nothing to the world.
<1>q. ASSUME pc # "down", UNCHANGED <<ram, disk>>, zone' \subseteq zone, Moves(orders, orders')
      PROVE  Durable'
  BY <1>q, <1>r, <1>t, StaysKept, StaysSound, DurableStep
<1>w. ASSUME UNCHANGED <<orders, zone, key>>, Sound(ram', orders, zone, key),
             disk' \subseteq disk \cup {ram'}
      PROVE  Durable'
  BY <1>w, <1>t, <1>m, StaysKept, DurableStep
<1>1. CASE Open
  <2>0. UNCHANGED <<orders, zone, key>>
    BY <1>1 DEF Open, Opened, OpenStored
  <2>1. CASE pc' = "down" /\ disk' \subseteq disk \cup {Fresh} /\ None \in disk
    <3>1. Sound(Fresh, orders, zone, key)
      BY <2>1, <1>t DEF Durable
    <3> QED
      BY <2>0, <2>1, <3>1, <1>t DEF Durable
  <2>2. CASE \E s \in disk \ {None} : ram' = s /\ disk' = disk
    BY <2>0, <2>2, <1>t, <1>w DEF Durable
  <2>3. CASE None \in disk /\ ram' = Fresh /\ disk' = {Fresh}
    BY <2>0, <2>3, <1>t, <1>w DEF Durable
  <2> QED
    BY <1>1, <2>1, <2>2, <2>3 DEF Open, Opened, OpenStored
<1>2. CASE ReconcileOrder
  <2> PICK s \in disk \ {None}, u \in Urls :
         /\ s.order # None /\ orders[u].status # "none" /\ orders[u].key = s.order.key
         /\ OpenStored([s EXCEPT !.order.url = u])
    BY <1>2 DEF ReconcileOrder
  <2> DEFINE t == [s EXCEPT !.order.url = u]
  <2>0. UNCHANGED <<orders, zone, key>> /\ s \in Snapshot
    BY <1>t DEF Opened, OpenStored, TypeOK
  <2>1. Sound(t, orders, zone, key)
    BY <2>0, <1>t, NamedSound DEF Durable
  <2>n. t # None
    BY <2>0, SnapshotType
  <2> HIDE DEF t
  <2>2. \/ pc' = pc /\ disk' \subseteq disk \cup {t}
        \/ ram' = t /\ disk' = {t}
    BY DEF t, Opened, OpenStored
  <2>3. pc = "down"
    BY <1>2 DEF ReconcileOrder
  <2>4. CASE pc' = "down" /\ disk' \subseteq disk \cup {t}
    BY <2>0, <2>1, <2>n, <2>4, <1>t DEF Durable
  <2>5. CASE ram' = t /\ disk' = {t}
    BY <2>0, <2>1, <2>5, <1>w
  <2> QED
    BY <2>2, <2>3, <2>4, <2>5
<1>3. CASE CleanupDns
  <2>0. pc # "down" /\ UNCHANGED <<orders, key>> /\ zone' \subseteq zone
    BY <1>3 DEF CleanupDns
  <2>1. ASSUME NEW r \in ram.dns_cleanup, zone' = zone \ {r}, ram' = Removed(r),
               disk' \subseteq disk \cup {ram'}
        PROVE  Durable'
    <3>1. r \in Urls \X Domains
      BY <1>t, SnapshotType
    <3>2. Sound(Removed(r), orders, zone \ {r}, key)
      BY <2>0, <3>1, <1>r, <1>t, EditsSound DEF Removed
    <3> QED
      BY <2>0, <2>1, <3>2, <1>t, <1>m, StaysKept, DurableStep
  <2>2. \A r \in ram.dns_cleanup : Removed(r) \in Snapshot
    BY <1>t, SnapshotType DEF Removed
  <2> QED
    BY <1>3, <2>0, <2>1, <2>2, <1>q, <1>m, <1>t, Writes DEF CleanupDns
<1>4. CASE Issue
  BY <1>4, <1>r, <1>t, <1>q, <1>w, <1>m, Writes DEF Issue
<1>5. CASE CreateAccount
  <2>1. [ram EXCEPT !.account = TRUE] \in Snapshot
    BY <1>t, SnapshotType
  <2>2. Sound([ram EXCEPT !.account = TRUE], orders, zone, key)
    BY <1>5, <1>r, <1>t, EditsSound DEF CreateAccount
  <2> QED
    BY <1>5, <2>1, <2>2, <1>t, <1>q, <1>w, <1>m, Persists DEF CreateAccount
<1>6. CASE BeginOrder
  <2> DEFINE t == [ram EXCEPT !.order = [key |-> key + 1, url |-> None]]
  <2>1. t \in Snapshot
    <3>1. [key |-> key + 1, url |-> None] \in PendingOrder
      BY SMTT(20), <1>t DEF PendingOrder
    <3> QED
      BY <3>1, <1>t, SnapshotType
  <2>2. Sound(t, orders, zone, key + 1)
    BY <1>6, <1>r, <1>t, BegunSound DEF BeginOrder
  <2>3. Persist(t, "newOrder") /\ UNCHANGED <<orders, zone>> /\ key' = key + 1
    BY <1>6 DEF BeginOrder
  <2> HIDE DEF t
  <2> QED
    BY <2>1, <2>2, <2>3, <1>t, <1>m, Persists, StaysKept, DurableStep
<1>7. CASE NewOrder
  <2>0. UNCHANGED <<zone, key>>
    BY <1>7 DEF NewOrder
  <2>1. CASE UNCHANGED <<ram, disk, orders>>
    BY <1>7, <2>0, <2>1, <1>q, <1>m DEF NewOrder
  <2>2. ASSUME NEW u \in Urls, orders[u].status = "none",
               orders' = [orders EXCEPT ![u].status = "pending", ![u].key = ram.order.key],
               \/ UNCHANGED <<ram, disk>>
               \/ Persist([ram EXCEPT !.order.url = u], "authz")
        PROVE  Durable'
    <3>1. Sound(ram, orders', zone', key')
      BY <2>0, <2>2, <1>7, <1>t, NewOrderKey, PlacedSound
    <3>2. Kept
      BY <3>1, <1>7, NewOrderKey, SnapshotType DEF Kept
    <3>3. orders'[u].status = "pending" /\ orders'[u].key = ram.order.key
      BY SMTT(20), <2>2, <1>t DEF Order
    <3>4. Sound([ram EXCEPT !.order.url = u], orders', zone', key')
      BY <2>0, <3>1, <3>3, <1>7, <1>t, NewOrderKey, NamedSound
    <3>5. [ram EXCEPT !.order.url = u] \in Snapshot
      BY <1>7, <1>t, NewOrderKey, SnapshotType
    <3> QED
      BY <2>2, <3>1, <3>2, <3>4, <3>5, <1>t, Persists, DurableStep
  <2> QED
    BY <1>7, <2>1, <2>2 DEF NewOrder
<1>9. CASE Authorization
  <2>0. pc # "down" /\ UNCHANGED <<orders, zone, key>>
    BY <1>9 DEF Authorization
  <2>1. ASSUME NEW d \in todo, Persist([ram EXCEPT !.dns_cleanup = @ \cup {Record(d)}], "present")
        PROVE  Durable'
    <3>1. Record(d) \in Urls \X Domains
      BY <1>9, <2>1, <1>t, SnapshotType
      DEF Authorization, Record, Control, Following, HasUrl, TypeOK
    <3>2. [ram EXCEPT !.dns_cleanup = @ \cup {Record(d)}] \in Snapshot
      BY <3>1, <1>t, SnapshotType
    <3>3. Sound([ram EXCEPT !.dns_cleanup = @ \cup {Record(d)}], orders, zone, key)
      BY <2>0, <3>1, <1>r, <1>t, EditsSound
    <3> QED
      BY <2>0, <2>1, <3>2, <3>3, <1>t, <1>w, Persists
  <2> QED
    BY <1>9, <2>0, <2>1, <1>q, <1>m DEF Authorization
<1>10. CASE Present
  <2>1. /\ disk = {ram} /\ disk' = disk /\ ram' = ram /\ UNCHANGED <<orders, key>>
        /\ zone' \subseteq zone \cup {Record(domain)} /\ Record(domain) \in ram.dns_cleanup
        /\ Sound(ram, orders, zone, key)
    BY <1>10, <1>r, <1>t DEF Present, Synced, Control, Inner
  <2>2. Sound(ram, orders', zone', key')
    BY <2>1 DEF Sound
  <2>3. Kept
    BY <2>1, <2>2, <1>t, SnapshotType DEF Kept
  <2> QED
    BY <2>1, <2>2, <2>3, <1>t, DurableStep
<1>15. CASE Abandon
  <2> DEFINE t == [ram EXCEPT !.order = None]
  <2>1. t \in Snapshot
    BY <1>t, SnapshotType
  <2>2. ram.order # None /\ ram.order.url # None /\ orders[ram.order.url].status = "invalid"
    BY <1>15, <1>t DEF Abandon, Control, Following, HasUrl
  <2>3. Sound(t, orders, zone, key)
    BY <1>15, <2>2, <1>r, <1>t, AbandonedSound DEF Abandon, Inv
  <2>4. (Stored(t, "after") \/ StoreFails(t, "after")) /\ UNCHANGED <<orders, zone, key>>
    BY <1>15 DEF Abandon
  <2> HIDE DEF t
  <2> QED
    BY <2>1, <2>3, <2>4, <1>t, <1>w, Writes
<1>16. CASE After
  BY <1>16, <1>r, <1>t, <1>q, <1>w, <1>m, Writes DEF After
<1>17. CASE Install
  <2>0. /\ pc # "down" /\ UNCHANGED <<orders, zone, key>>
        /\ ram.order # None /\ ram.order.url # None /\ orders[ram.order.url].status = "valid"
    BY <1>17, <1>t DEF Install, Control, Ending, HasUrl
  <2>1. Installed \in Snapshot
    BY <2>0, <1>t, SnapshotType DEF Installed
  <2>2. orders[ram.order.url].csr = ram.order.key => Sound(Installed, orders, zone, key)
    BY <2>0, <1>r, <1>t, InstalledSound DEF Installed
  <2> QED
    BY <1>17, <2>0, <2>1, <2>2, <1>t, <1>q, <1>w, <1>m, Writes DEF Install
<1>21. CASE Stop
  BY <1>21, <1>t DEF Stop, Durable
<1>22. CASE FetchOrder \/ Refresh \/ Download \/ Finish \/ Timeout \/ Shutdown
  BY <1>22, <1>q, <1>m
  DEF FetchOrder, Refresh, Download, Finish, Timeout, Shutdown, Inner
<1>23. CASE SetReady \/ FinalizeCsr
  BY <1>23, <1>q, OrdersMove DEF SetReady, FinalizeCsr, NewOrder
<1>24. CASE Authority \/ (\E u \in Urls, d \in Domains : Refuse(u, d)) \/ UNCHANGED vars
  <2>1. UNCHANGED <<pc, ram, disk, zone, key>>
    BY <1>24 DEF Authority, Validate, Sign, Refuse, vars
  <2>2. CASE NewOrder
    BY <1>7, <2>2
  <2>3. CASE Moves(orders, orders')
    BY <2>1, <2>3, <1>t, StaysSound, FreshType DEF Durable, TypeOK
  <2> QED
    BY <2>2, <2>3, OrdersMove
<1> QED
  BY <1>1, <1>2, <1>3, <1>4, <1>5, <1>6, <1>7, <1>9, <1>10, <1>15, <1>16, <1>17, <1>21, <1>22,
     <1>23, <1>24 DEF Next, Task

----------------------------------------------------------------------------
(* Where an attempt is, and what it may rely on there.                     *)

LEMMA StepSynced == Inv /\ [Next]_vars => Synced'
<1> SUFFICES ASSUME Inv, [Next]_vars PROVE Synced'
  OBVIOUS
<1> USE DEF task, store, Synced, Starting, Ending, Inner
<1>t. TypeOK /\ ram \in Snapshot /\ Synced /\ Control
  BY DEF Inv, TypeOK
<1>1. CASE Open \/ ReconcileOrder
  <2>1. /\ pc = "down" /\ UNCHANGED back
        /\ pc' \in {"down", "cleanup"}
    BY <1>1 DEF Open, ReconcileOrder, Opened, OpenStored
  <2> QED
    BY <2>1, <1>t DEF Control
<1>3. CASE CleanupDns
  BY <1>3, <1>t DEF CleanupDns, CleanupFails, Stored, StoreFails, TypeOK
<1>4. CASE Issue
  BY <1>4, <1>t DEF Issue, Stored, StoreFails
<1>5. CASE CreateAccount
  BY <1>5, <1>t DEF CreateAccount, Persist, Stored, StoreFails, Fails
<1>6. CASE BeginOrder
  BY <1>6, <1>t DEF BeginOrder, Persist, Stored, StoreFails
<1>7. CASE NewOrder
  BY <1>7, <1>t DEF NewOrder, Persist, Stored, StoreFails, Fails
<1>8. CASE FetchOrder \/ Present \/ SetReady \/ Refresh \/ FinalizeCsr \/ Download \/ Timeout
  BY <1>8, <1>t DEF FetchOrder, Present, SetReady, Refresh, FinalizeCsr, Download, Timeout, Fails
<1>9. CASE Authorization
  BY <1>9, <1>t DEF Authorization, Persist, Stored, StoreFails, Fails
<1>15. CASE Abandon
  BY <1>15, <1>t DEF Abandon, Stored, StoreFails
<1>16. CASE After
  BY <1>16, <1>t DEF After, Stored, StoreFails
<1>17. CASE Install \/ Finish
  BY <1>17, <1>t DEF Install, Finish, Stored, StoreFails
<1>20. CASE Shutdown \/ Stop
  BY <1>20, <1>t DEF Shutdown, Stop
<1>24. CASE Authority \/ (\E u \in Urls, d \in Domains : Refuse(u, d)) \/ UNCHANGED vars
  BY <1>24, <1>t DEF Authority, Validate, Sign, Refuse, vars
<1> QED
  BY <1>1, <1>3, <1>4, <1>5, <1>6, <1>7, <1>8, <1>9, <1>15, <1>16, <1>17, <1>20, <1>24
  DEF Next, Task

LEMMA StepControl == Inv /\ [Next]_vars => Control'
<1> SUFFICES ASSUME Inv, [Next]_vars PROVE Control'
  OBVIOUS
<1> USE DEF task, store, Control, Starting, Ending, Following, HasUrl, Inner
<1>t. TypeOK /\ ram \in Snapshot /\ Control /\ Keyed(orders, key) /\ key \in Nat
  BY DEF Inv, TypeOK
<1>o. \A u \in Urls : orders[u].status \in Status /\ orders[u].key \in Nat
  BY <1>t, OrdersType
<1>u. ram.order # None => ram.order.url \in Urls \cup {None}
  BY <1>t, SnapshotType
\* The attempt stays where it is, or goes back to rest, while the orders move.
<1>q. ASSUME UNCHANGED <<ram, seen, domain, back, result, pc>>, Moves(orders, orders')
      PROVE  Control'
  BY SMTT(20), <1>q, <1>t, <1>u DEF Moves, Record
<1>1. CASE Open \/ ReconcileOrder
  BY <1>1, <1>t DEF Open, ReconcileOrder, Opened, OpenStored
<1>3. CASE CleanupDns
  <2>1. \A r \in ram.dns_cleanup : Removed(r).order = ram.order
    BY <1>t DEF Removed, Snapshot
  <2> QED
    BY <1>3, <2>1, <1>t DEF CleanupDns, CleanupFails, Stored, StoreFails, TypeOK
<1>4. CASE Issue
  BY <1>4, <1>t DEF Issue, Stored, StoreFails
<1>5. CASE CreateAccount
  <2>1. [ram EXCEPT !.account = TRUE].order = ram.order
    BY <1>t DEF Snapshot
  <2> QED
    BY <1>5, <2>1, <1>t DEF CreateAccount, Persist, Stored, StoreFails, Fails
<1>6. CASE BeginOrder
  <2> DEFINE t == [ram EXCEPT !.order = [key |-> key + 1, url |-> None]]
  <2>1. t.order = [key |-> key + 1, url |-> None]
    BY <1>t DEF Snapshot
  <2>2. t.order # None
    <3>1. t.order \in PendingOrder
      BY SMTT(20), <2>1, <1>t DEF PendingOrder
    <3> QED
      BY <3>1, AcmeAssumption
  <2>3. \A u \in Urls : orders[u].key # t.order.key
    BY SMTT(20), <2>1, <1>o, <1>t DEF Keyed
  <2>4. Persist(t, "newOrder") /\ UNCHANGED orders
    BY <1>6 DEF BeginOrder, world
  <2> HIDE DEF t
  <2> QED
    BY <2>2, <2>3, <2>4 DEF Persist, Stored, StoreFails
<1>7. CASE NewOrder
  <2>1. ASSUME NEW u \in Urls, orders[u].status = "none",
               orders' = [orders EXCEPT ![u].status = "pending", ![u].key = ram.order.key],
               Persist([ram EXCEPT !.order.url = u], "authz"), seen' = "pending"
        PROVE  Control'
    <3> DEFINE t == [ram EXCEPT !.order.url = u]
    <3>1. t \in Snapshot /\ t.order.url = u
      <4>1. ram.order \in PendingOrder
        BY <1>7, <1>t, NewOrderKey, SnapshotType
      <4>2. t \in Snapshot
        BY <1>7, <1>t, NewOrderKey, SnapshotType
      <4> QED
        BY <4>1, <4>2, <1>t DEF Snapshot, PendingOrder
    <3>2. t.order # None
      <4>1. ram.order \in PendingOrder
        BY <1>7, <1>t, NewOrderKey, SnapshotType
      <4>2. [ram.order EXCEPT !.url = u] \in PendingOrder /\ t.order = [ram.order EXCEPT !.url = u]
        BY <4>1, <1>t DEF Snapshot, PendingOrder
      <4> QED
        BY <4>2, AcmeAssumption
    <3>3. u # None
      BY AcmeAssumption
    <3> HIDE DEF t
    <3>4. Persist(t, "authz")
      BY <2>1 DEF t
    <3> QED
      BY <2>1, <3>1, <3>2, <3>3, <3>4 DEF Persist, Stored, StoreFails
  <2>2. CASE Fails("Authority")
    BY <2>2 DEF Fails
  <2> QED
    BY <1>7, <2>1, <2>2 DEF NewOrder
<1>8. CASE FetchOrder \/ Refresh
  BY <1>8, <1>t DEF FetchOrder, Refresh, Fails, world
<1>9. CASE Authorization
  <2>0. UNCHANGED <<orders, back, seen>>
    BY <1>9 DEF Authorization, world
  <2>1. ASSUME NEW d \in todo, domain' = d,
               Persist([ram EXCEPT !.dns_cleanup = @ \cup {Record(d)}], "present")
        PROVE  Control'
    <3> DEFINE t == [ram EXCEPT !.dns_cleanup = @ \cup {Record(d)}]
    <3>1. t.order = ram.order /\ Record(d) \in t.dns_cleanup
      BY <1>t DEF Snapshot
    <3>2. d \in Domains
      BY <1>t DEF TypeOK
    <3>3. Persist(t, "present")
      BY <2>1
    <3> HIDE DEF t
    <3> QED
      BY <2>0, <2>1, <3>1, <3>2, <3>3, <1>9, <1>t
      DEF Persist, Stored, StoreFails, Record, Authorization
  <2> QED
    BY <1>9, <2>0, <2>1, <1>t DEF Authorization, Fails, TypeOK
<1>10. CASE Present \/ Timeout
  BY <1>10, <1>t DEF Present, Timeout, Fails, world
<1>11. CASE SetReady \/ FinalizeCsr
  <2>1. Moves(orders, orders')
    BY <1>11, OrdersMove DEF SetReady, FinalizeCsr, NewOrder
  <2> QED
    BY SMTT(20), <1>11, <2>1, <1>t, <1>u DEF SetReady, FinalizeCsr, Fails, Moves
<1>14. CASE Download
  BY <1>14, <1>t DEF Download, world
<1>15. CASE Abandon
  BY <1>15, <1>t DEF Abandon, Stored, StoreFails, world
<1>16. CASE After
  BY <1>16, <1>t DEF After, Stored, StoreFails, world
<1>17. CASE Install \/ Finish
  BY <1>17, <1>t DEF Install, Finish, Stored, StoreFails, world
<1>20. CASE Shutdown \/ Stop
  BY <1>20, <1>t DEF Shutdown, Stop
<1>24. CASE Authority \/ (\E u \in Urls, d \in Domains : Refuse(u, d)) \/ UNCHANGED vars
  <2>1. UNCHANGED <<ram, seen, domain, back, result, pc>>
    BY <1>24 DEF Authority, Validate, Sign, Refuse, vars
  <2> QED
    BY <2>1, <1>q, <1>7, OrdersMove
<1> QED
  BY <1>1, <1>3, <1>4, <1>5, <1>6, <1>7, <1>8, <1>9, <1>10, <1>11, <1>14, <1>15, <1>16, <1>17,
     <1>20, <1>24 DEF Next, Task

Served ==
  live # 0 => \E u \in Urls : orders[u].status = "valid" /\ orders[u].csr = live

LEMMA StepServed == Inv /\ [Next]_vars => Served'
<1> SUFFICES ASSUME Inv, [Next]_vars PROVE Served'
  OBVIOUS
<1> USE DEF task, store, world
<1>t. TypeOK /\ ram \in Snapshot /\ Durable /\ Control /\ Served /\ orders \in [Urls -> Order]
  BY DEF Inv, TypeOK, Served
<1>1. CASE UNCHANGED live /\ Moves(orders, orders')
  BY <1>1, <1>t DEF Served, Moves
<1>2. CASE NewOrder
  <2>1. ASSUME NEW u \in Urls, orders[u].status = "none",
               orders' = [orders EXCEPT ![u].status = "pending", ![u].key = ram.order.key]
        PROVE  \A v \in Urls : v # u => orders'[v] = orders[v]
    BY <2>1, <1>t
  <2> QED
    BY <1>2, <2>1, <1>t DEF NewOrder, Served
<1>3. CASE Open
  BY SMTT(20), <1>3, <1>t, FreshType DEF Open, Opened, OpenStored, Served, Durable, Sound, Fresh
<1>4. CASE ReconcileOrder
  <2> PICK s \in disk \ {None}, u \in Urls : OpenStored([s EXCEPT !.order.url = u])
    BY <1>4 DEF ReconcileOrder
  <2>1. [s EXCEPT !.order.url = u].installed = s.installed
    BY <1>t DEF TypeOK, Snapshot
  <2> QED
    BY SMTT(20), <2>1, <1>t DEF Opened, OpenStored, Served, Durable, Sound
<1>5. CASE Install
  <2>1. /\ UNCHANGED orders /\ ram.order.url \in Urls
        /\ orders[ram.order.url].status = "valid"
    BY <1>5, <1>t, SnapshotType DEF Install, Control, Ending, HasUrl
  <2> QED
    BY <1>5, <2>1, <1>t DEF Install, Served
<1>6. CASE Stop
  BY <1>6 DEF Stop, Served
<1> QED
  BY <1>1, <1>2, <1>3, <1>4, <1>5, <1>6, OrdersMove
  DEF Next, Task, Authority, vars, CleanupDns, Issue, CreateAccount, BeginOrder, FetchOrder,
      Authorization, Present, SetReady, Refresh, FinalizeCsr, Download, Abandon, After, Finish,
      Timeout, Shutdown, Validate, Refuse, Sign

----------------------------------------------------------------------------
LEMMA InvInit == Init => Inv
<1> SUFFICES ASSUME Init PROVE Inv
  OBVIOUS
<1>1. TypeOK
  BY InitType
<1>2. \A u \in Urls : orders[u].status = "none" /\ orders[u].key = 0 /\ orders[u].csr = 0
  BY DEF Init, NoOrder
<1>3. Durable
  BY SMTT(20), <1>2 DEF Init, Durable, Sound, Fresh, Active
<1>4. Keyed(orders, key)
  BY SMTT(20), <1>2 DEF Init, Keyed
<1>5. Synced /\ Control
  BY DEF Init, Synced, Control, Starting, Ending, Following, Inner
<1> QED
  BY <1>1, <1>3, <1>4, <1>5 DEF Inv, Init

LEMMA InvStep == Inv /\ [Next]_vars => Inv'
  BY StepType, StepDurable, StepKeyed, StepSynced, StepControl, StepServed DEF Inv, Served

LEMMA InvExact == Inv => AcmeExact
<1> SUFFICES ASSUME Inv PROVE AcmeExact
  OBVIOUS
<1>1. TypeOK /\ Durable /\ Keyed(orders, key) /\ Served
  BY DEF Inv, Served
<1>2. \A u \in Urls : orders[u].key \in Nat /\ orders[u].csr \in Nat
  BY <1>1, OrdersType
<1>3. OrderOnce /\ OwnKey
  BY <1>1 DEF Keyed, OrderOnce, OwnKey
<1>4. KeyKept
  <2> SUFFICES ASSUME NEW u \in Urls, Active(orders[u]), NEW s \in disk
               PROVE  Holds(s, orders[u].key)
    BY DEF KeyKept, Active
  <2>1. CASE s # None
    BY <2>1, <1>1 DEF Durable, Sound
  <2>2. CASE s = None
    <3>1. Holds(Fresh, orders[u].key)
      BY <2>2, <1>1 DEF Durable, Sound
    <3>2. orders[u].key = 0
      BY SMTT(20), <3>1, <1>2 DEF Holds, Fresh
    <3> QED
      BY <3>2, <1>1 DEF Keyed, Active
  <2> QED
    BY <2>1, <2>2
<1>5. LiveIsDurable
  <2> SUFFICES ASSUME live # 0
               PROVE  /\ \E u \in Urls : orders[u].status = "valid" /\ orders[u].csr = live
                      /\ \A s \in disk : Holds(s, live)
    BY DEF LiveIsDurable
  <2> PICK u \in Urls : orders[u].status = "valid" /\ orders[u].csr = live
    BY <1>1 DEF Served
  <2>1. orders[u].key = live
    BY <1>3 DEF OwnKey
  <2> QED
    BY <2>1, <1>4 DEF KeyKept
<1>6. RecordsJournaled
  BY <1>1 DEF RecordsJournaled, Durable, Sound
<1> QED
  BY <1>3, <1>4, <1>5, <1>6 DEF AcmeExact

(* Whatever write fails, whatever answer is lost and whenever the process  *)
(* stops: issue_inner sends newOrder at most once for a key, every         *)
(* snapshot a restart can find keeps the key of every order that may still *)
(* yield a certificate and lists every published TXT record, finalize_csr  *)
(* uses the order's own key, and the resolvers serve only a durable        *)
(* certificate that was signed.                                            *)
THEOREM Exact == Spec => []AcmeExact
<1>1. Init => Inv
  BY InvInit
<1>2. Inv /\ [Next]_vars => Inv'
  BY InvStep
<1>3. Inv => AcmeExact
  BY InvExact
<1> QED
  BY <1>1, <1>2, <1>3, PTL DEF Spec
=============================================================================
