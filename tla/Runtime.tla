------------------------------ MODULE Runtime ------------------------------
(***************************************************************************)
(* The runtime half of the driver, src/src/ngx_autocert_driver.c: how      *)
(* worker 0 turns the registry's nodes into ACME orders, records the       *)
(* outcome, persists issued names as markers on disk, evicts idle ones and *)
(* rebuilds the registry after a restart; together with the consumers that *)
(* call ensure() in other workers, with reloads that enable and disable    *)
(* autocert, with a worker that dies and with nginx being restarted.       *)
(*                                                                         *)
(* One driver process exists at a time (the lock of DriverLock.tla).  Its  *)
(* handlers run to completion, but every registry operation and every disk *)
(* operation in them is a step of its own, between which other workers and *)
(* the master may act and the process may die.  Time passes only while the *)
(* process is in its event loop (pc = "loop"): ngx_time() is cached there. *)
(* The order's own steps (Order flow) are abstracted to: newOrder sent,    *)
(* certificate committed, failed.                                          *)
(***************************************************************************)
EXTENDS Requests, RateCap, Sequences

CONSTANTS
  NoHost,        \* "no host": an unset pointer
  ConfigHost,    \* the hosts a configured name covers (name_is_config)
  LIFE,          \* lifetime of an issued certificate
  RENEW,         \* autocert_renew_before
  ORDER_MAX, ORDER_WINDOW,           \* NGX_AUTOCERT_RT_ORDER_*
  FAIL_MAX, FAIL_WINDOW, FAIL_HOSTS, \* NGX_AUTOCERT_RT_FAIL_*
  CONFIG_HOLD,   \* the 300 s re-check of a config name not yet issued
  RetryAfter,    \* Retry-After values the CA may send with a 429
  Faults         \* environment events the instance allows

ASSUME RuntimeAssumption ==
  /\ NoHost \notin Host
  /\ ConfigHost \subseteq Host
  /\ {LIFE, RENEW, ORDER_WINDOW, FAIL_WINDOW, FAIL_HOSTS, CONFIG_HOLD}
       \subseteq Nat
  /\ {ORDER_MAX, FAIL_MAX} \subseteq Nat \ {0}
  /\ RetryAfter \subseteq 0 .. MAX_HOLD
  /\ {ORDER_WINDOW + 1, FAIL_WINDOW + 1, CONFIG_HOLD} \subseteq 0 .. MAX_HOLD
  /\ Faults \subseteq {"crash", "reload", "disable", "restart", "launch",
                      "marker", "read", "store"}

VARIABLES
  pc,        \* where the driver process is; "down": there is none
  exiting,   \* ngx_exiting of that process
  cur,       \* the host the running handler holds
  todo,      \* hosts left in the running handler's list
  seeding,   \* directory entries the seed walk has not visited
  order,     \* host of the runtime order in flight, or NoHost
  sent,      \* its newOrder POST was accepted for sending
  rtOrders,  \* ngx_autocert_rt_order_ring + head
  rtFail,    \* ngx_autocert_rt_fail: host -> failure window
  cert,      \* disk: host -> lifetime left of its certificate, NoCert
  marker,    \* disk: hosts with a runtime marker
  lost,      \* history: hosts whose completion was never recorded
  log        \* history: what this process sent to the CA and when

process == <<pc, exiting, cur, todo, seeding, order, sent, rtOrders, rtFail>>
disk == <<cert, marker>>
history == <<lost, log>>
vars == <<zone, process, disk, history>>

-----------------------------------------------------------------------------
NoCert == -1

(* No certificate, or one inside its renewal window. *)
Due(h) == cert[h] = NoCert \/ cert[h] <= RENEW

(* The answers name_due may give: a file that cannot be read now (out of     *)
(* descriptors, no permission, an I/O error) is taken for one that is not    *)
(* due, whether there is a certificate or not.                               *)
name_due(h) == {Due(h)} \cup (IF "read" \in Faults THEN {FALSE} ELSE {})

NoOrders == EmptyRing(ORDER_MAX, ORDER_WINDOW)
NoFails == [h \in Host |-> EmptyRing(FAIL_MAX, FAIL_WINDOW)]

(* rt_order_at_cap, rt_fail_at_cap.  A slot of the failure table whose       *)
(* window has passed is as good as free, so the table is the set of hosts    *)
(* with failures in their window.                                            *)
rt_order_at_cap == window_count(rtOrders, ORDER_WINDOW) >= ORDER_MAX
rt_fail_at_cap(h) == window_count(rtFail[h], FAIL_WINDOW) >= FAIL_MAX

FailTable == {h \in Host : window_count(rtFail[h], FAIL_WINDOW) > 0}

(* MUTANT: the slot of a host that already has failures is cleared again. *)
rt_fail_record_Clears(h) ==
  IF h \in FailTable \/ Cardinality(FailTable) < FAIL_HOSTS
  THEN rtFail' = [rtFail EXCEPT ![h] = ring_push(NoFails[h], FAIL_MAX)]
  ELSE UNCHANGED rtFail

(* rt_fail_record: a host without a slot gets one only if not every slot     *)
(* holds failures in their window.                                           *)
rt_fail_record(h) ==
  IF h \in FailTable \/ Cardinality(FailTable) < FAIL_HOSTS
  THEN rtFail' = [rtFail EXCEPT ![h] =
                    ring_push(IF h \in FailTable THEN @ ELSE NoFails[h],
                              FAIL_MAX)]
  ELSE UNCHANGED rtFail

rt_order_record == rtOrders' = ring_push(rtOrders, ORDER_MAX)

(* MUTANT: a sign error. *)
HoldUntilFree_Sum(ring, window) == window + window_oldest(ring, window) + 1

(* How long until the oldest counted entry has left its window, plus one. *)
HoldUntilFree(ring, window) == window - window_oldest(ring, window) + 1

Idling == pc = "loop" /\ order = NoHost /\ ~exiting

-----------------------------------------------------------------------------
Init ==
  /\ ReqInit
  /\ pc = "down" /\ exiting = FALSE /\ cur = NoHost /\ todo = {}
  /\ seeding = {} /\ order = NoHost /\ sent = FALSE
  /\ rtOrders = NoOrders /\ rtFail = NoFails
  /\ cert = [h \in Host |-> NoCert] /\ marker = {}
  /\ lost = {} /\ log = <<>>

-----------------------------------------------------------------------------
(* CONSUMERS, TIME, AND THE MASTER PROCESS                                  *)

(* A consumer in some worker asks for a host, or asserts it again. *)
ConsumerEnsure(h) ==
  /\ Ensure(h)
  /\ UNCHANGED <<process, disk, history>>

LongestWindow == IF ORDER_WINDOW > FAIL_WINDOW THEN ORDER_WINDOW
                                               ELSE FAIL_WINDOW

(* Entries at the front of the log, which is in the order of time, that are  *)
(* about to leave every window.                                              *)
Expired == Cardinality({i \in DOMAIN log : log[i].age + 1 >= LongestWindow})

(* Time passes for nodes, windows and certificates alike. *)
Tick ==
  /\ pc \in {"down", "loop"}
  /\ ReqTick
  /\ rtOrders' = ring_aged(rtOrders, ORDER_WINDOW)
  /\ rtFail' = [h \in Host |-> ring_aged(rtFail[h], FAIL_WINDOW)]
  /\ cert' = [h \in Host |-> IF cert[h] > 0 THEN cert[h] - 1 ELSE cert[h]]
  /\ log' = [i \in 1 .. Len(log) - Expired |->
               [log[i + Expired] EXCEPT !.age = @ + 1]]
  /\ UNCHANGED <<pc, exiting, cur, todo, seeding, order, sent, marker, lost>>

(* What dies with the process: its order, its lists and its windows. *)
ProcessGone ==
  /\ pc' = "down" /\ exiting' = FALSE /\ cur' = NoHost /\ todo' = {}
  /\ seeding' = {} /\ order' = NoHost /\ sent' = FALSE
  /\ rtOrders' = NoOrders /\ rtFail' = NoFails
  /\ log' = <<>>

(* The zone is mapped for the first cycle, or for a new one on SIGHUP, by an *)
(* enabled (owner) or a consumer-only configuration.  A running worker 0 is  *)
(* told to shut down gracefully.                                             *)
Reload(owner) ==
  /\ \/ owner /\ stamp \in {"none", "legacy"}
     \/ owner /\ "reload" \in Faults
     \/ ~owner /\ "disable" \in Faults
  /\ InitZone(owner)
  /\ exiting' = (pc # "down")
  /\ UNCHANGED <<pc, cur, todo, seeding, order, sent, rtOrders, rtFail, disk,
                 history>>

(* MUTANT: drop_order() frees the order and forgets its host. *)
Exit_KeepsPending ==
  /\ pc = "loop" /\ exiting
  /\ ProcessGone
  /\ UNCHANGED <<zone, disk, lost>>

(* exit_process of the retiring worker: drop_order() hands the host of the   *)
(* order in flight back as REQUESTED, then the lock is released.             *)
Exit ==
  /\ pc = "loop" /\ exiting
  /\ IF order # NoHost
     THEN /\ SetState(order, REQUESTED, NoHold)
          /\ lost' = IF SetStateOk THEN lost ELSE lost \cup {order}
     ELSE UNCHANGED <<zone, lost>>
  /\ ProcessGone
  /\ UNCHANGED disk

(* Worker 0 dies at any point; the zone survives in the master. *)
Crash ==
  /\ "crash" \in Faults
  /\ pc # "down"
  /\ lost' = lost \cup ({order, cur} \ {NoHost})
  /\ ProcessGone
  /\ UNCHANGED <<zone, disk>>

(* nginx is stopped and started: a fresh zone, the store survives. *)
Restart ==
  /\ "restart" \in Faults
  /\ FreshArena
  /\ ProcessGone
  /\ lost' = {}
  /\ UNCHANGED disk

-----------------------------------------------------------------------------
(* START OF THE DRIVER AND THE SEED WALK                                    *)

(* init_process or the relock timer got the lock: start walking the store.   *)
Boot ==
  /\ pc = "down" /\ stamp = "active"
  /\ pc' = "loop"
  /\ seeding' = marker
  /\ UNCHANGED <<zone, exiting, cur, todo, order, sent, rtOrders, rtFail, disk,
                 history>>

(* seed_restore_entry, first half: ensure() unless the entry has no marker   *)
(* any more, a configured name covers it or its certificate is due.  The     *)
(* walk is cut into chunks, so it interleaves with the driver's other work.  *)
(* The first chunk runs in init_process, before the configured names are     *)
(* known (ca_states), and passes over none of them.                          *)
Restorable(h, known, due) == h \in marker \ known /\ ~due

SeedEnsure(h) ==
  /\ pc = "loop" /\ h \in seeding /\ ~exiting
  /\ seeding' = seeding \ {h}
  /\ \E known \in {{}, ConfigHost}, due \in name_due(h) :
       IF /\ Restorable(h, known, due)
          /\ EnsureResult(h) \notin {UNKNOWN, DENIED}
       THEN Ensure(h) /\ pc' = "seedset" /\ cur' = h
       ELSE UNCHANGED <<zone, pc, cur>>
  /\ UNCHANGED <<exiting, todo, order, sent, rtOrders, rtFail, disk, history>>

(* Second half: the entry is ISSUED, whatever state the node was in.  (The   *)
(* host the order in flight is for stays in order.)                          *)
SeedSet ==
  /\ pc = "seedset"
  /\ SetState(cur, ISSUED, NoHold)
  /\ pc' = "loop" /\ cur' = NoHost
  /\ UNCHANGED <<exiting, todo, seeding, order, sent, rtOrders, rtFail, disk,
                 history>>

(* A retiring worker abandons the walk. *)
SeedStop ==
  /\ pc = "loop" /\ exiting /\ seeding # {}
  /\ seeding' = {}
  /\ UNCHANGED <<zone, pc, exiting, cur, todo, order, sent, rtOrders, rtFail,
                 disk, history>>

-----------------------------------------------------------------------------
(* ONE PUMP: sched_pump_runtime                                             *)

(* A tick of the sweep has walked the config names and none is due.          *)
PumpStart ==
  /\ Idling
  /\ pc' = "drain"
  /\ UNCHANGED <<zone, exiting, cur, todo, seeding, order, sent, rtOrders,
                 rtFail, disk, lost, log>>

ListIssued ==
  IF stamp = "active"
  THEN {h \in DOMAIN tree : tree[h].state = ISSUED} ELSE {}

(* Top of the drain loop: claim one host, ... *)
PumpClaim(h) ==
  /\ pc = "drain" /\ ~exiting
  /\ Drain(h)
  /\ pc' = "claimed" /\ cur' = h
  /\ lost' = lost \ {h}
  /\ UNCHANGED <<exiting, todo, seeding, order, sent, rtOrders, rtFail, disk,
                 log>>

(* ... or leave it: retiring, an inactive zone, or nothing eligible.  The    *)
(* renewal scan starts from the hosts that are ISSUED now.                   *)
PumpDrained ==
  /\ pc = "drain"
  /\ exiting \/ stamp # "active" \/ \A h \in DOMAIN tree : ~Eligible(h)
  /\ pc' = "renew" /\ todo' = ListIssued
  /\ UNCHANGED <<zone, exiting, cur, seeding, order, sent, rtOrders, rtFail,
                 disk, history>>

(* The claimed host is given back: write its node and take the next one.  On *)
(* an inactive zone the write fails and the node stays PENDING.              *)
Release(s, hold) ==
  /\ SetState(cur, s, hold)
  /\ lost' = IF SetStateOk THEN lost ELSE lost \cup {cur}
  /\ pc' = "drain" /\ cur' = NoHost
  /\ UNCHANGED <<exiting, todo, seeding, order, sent, rtOrders, rtFail, disk,
                 log>>

(* Covered by a configured name: the config sweep owns it. *)
PumpConfig ==
  /\ pc = "claimed" /\ cur \in ConfigHost
  /\ \E due \in name_due(cur) :
       IF due THEN Release(REQUESTED, CONFIG_HOLD) ELSE Release(ISSUED, NoHold)

(* MUTANT: the host is skipped and stays claimed. *)
PumpOrderCap_Skips ==
  /\ pc = "claimed" /\ cur \notin ConfigHost
  /\ rt_order_at_cap
  /\ pc' = "drain" /\ cur' = NoHost
  /\ UNCHANGED <<zone, exiting, todo, seeding, order, sent, rtOrders, rtFail,
                 disk, history>>

(* MUTANT: the host is given back without waiting for the window. *)
PumpOrderCap_NoHold ==
  /\ pc = "claimed" /\ cur \notin ConfigHost
  /\ rt_order_at_cap
  /\ Release(REQUESTED, NoHold)

(* The global window of new orders is full. *)
PumpOrderCap ==
  /\ pc = "claimed" /\ cur \notin ConfigHost
  /\ rt_order_at_cap
  /\ Release(REQUESTED, HoldUntilFree(rtOrders, ORDER_WINDOW))

(* This host's window of failures is full. *)
PumpFailCap ==
  /\ pc = "claimed" /\ cur \notin ConfigHost
  /\ ~rt_order_at_cap /\ rt_fail_at_cap(cur)
  /\ Release(REQUESTED, HoldUntilFree(rtFail[cur], FAIL_WINDOW))

MayLaunch ==
  /\ pc = "claimed" /\ cur \notin ConfigHost
  /\ ~rt_order_at_cap /\ ~rt_fail_at_cap(cur)

(* start_order_for: the one order slot is taken, the loop is left. *)
PumpLaunch ==
  /\ MayLaunch
  /\ order' = cur /\ sent' = FALSE /\ cur' = NoHost
  /\ pc' = "renew" /\ todo' = ListIssued
  /\ UNCHANGED <<zone, exiting, seeding, rtOrders, rtFail, disk, history>>

PumpLaunchFails ==
  /\ "launch" \in Faults
  /\ MayLaunch
  /\ Release(FAILED, NoHold)

(* The renewal scan: an ISSUED runtime host that is due is requested again.  *)
PumpRenew(h) ==
  /\ pc = "renew" /\ h \in todo
  /\ todo' = todo \ {h}
  /\ \E due \in name_due(h) :
       IF h \notin ConfigHost /\ due
       THEN SetState(h, REQUESTED, NoHold)
       ELSE UNCHANGED zone
  /\ UNCHANGED <<pc, exiting, cur, seeding, order, sent, rtOrders, rtFail, disk,
                 history>>

(* The idle sweep, after the renewal scan; the hosts it evicted are to lose  *)
(* their markers.                                                            *)
PumpGc ==
  /\ pc = "renew" /\ todo = {}
  /\ Gc
  /\ pc' = "unmark" /\ todo' = Evicted
  /\ UNCHANGED <<exiting, cur, seeding, order, sent, rtOrders, rtFail, disk,
                 history>>

(* marker_remove, best effort. *)
PumpUnmark(h) ==
  /\ pc = "unmark" /\ h \in todo
  /\ todo' = todo \ {h}
  /\ \/ marker' = marker \ {h}
     \/ "marker" \in Faults /\ UNCHANGED marker
  /\ UNCHANGED <<zone, pc, exiting, cur, seeding, order, sent, rtOrders, rtFail,
                 cert, history>>

PumpReturn ==
  /\ pc = "unmark" /\ todo = {}
  /\ pc' = "loop"
  /\ UNCHANGED <<zone, exiting, cur, todo, seeding, order, sent, rtOrders,
                 rtFail, disk, history>>

-----------------------------------------------------------------------------
(* THE ORDER IN FLIGHT                                                      *)

InFlight == pc = "loop" /\ order # NoHost

Logged(what) == log' = Append(log, [host |-> order, what |-> what, age |-> 0])

(* MUTANT: the marker is written when the order starts. *)
OrderSent_Marks ==
  /\ InFlight /\ ~sent
  /\ sent' = TRUE
  /\ rt_order_record
  /\ Logged("sent")
  /\ marker' = marker \cup {order}
  /\ UNCHANGED <<zone, pc, exiting, cur, todo, seeding, order, rtFail, cert,
                 lost>>

(* The newOrder POST was accepted for sending: rt_order_accounted. *)
OrderSent ==
  /\ InFlight /\ ~sent
  /\ sent' = TRUE
  /\ rt_order_record
  /\ Logged("sent")
  /\ UNCHANGED <<zone, pc, exiting, cur, todo, seeding, order, rtFail, disk,
                 lost>>

(* order_complete ends in sched_pump.  The sweep's cursor is past its last   *)
(* config name (a runtime order is only launched there), so unless the       *)
(* process is retiring the next thing the same handler does is to drain.     *)
AfterOrder == IF exiting THEN "loop" ELSE "drain"

(* The certificate of a failed order may be in place, when only the last     *)
(* fsync of order_store failed.                                              *)
StoredAnyway ==
  \/ UNCHANGED cert
  \/ "store" \in Faults /\ sent /\ cert' = [cert EXCEPT ![order] = LIFE]

(* MUTANT: after a failed renewal the name is taken to be as it was. *)
OrderFails_AsBefore(hold) ==
  /\ InFlight
  /\ rt_fail_record(order)
  /\ StoredAnyway
  /\ SetState(order, ISSUED, hold)
  /\ lost' = IF SetStateOk THEN lost ELSE lost \cup {order}
  /\ order' = NoHost
  /\ pc' = AfterOrder
  /\ Logged("failed")
  /\ UNCHANGED <<exiting, cur, todo, seeding, sent, rtOrders, marker>>

(* The order flow fails at any point: order_complete(NGX_ERROR).  A refused  *)
(* set_state() is retried as REQUESTED, which an inactive zone refuses too.  *)
OrderFails(hold) ==
  /\ InFlight
  /\ rt_fail_record(order)
  /\ StoredAnyway
  /\ SetState(order, FAILED, hold)
  /\ lost' = IF SetStateOk THEN lost ELSE lost \cup {order}
  /\ order' = NoHost
  /\ pc' = AfterOrder
  /\ Logged("failed")
  /\ UNCHANGED <<exiting, cur, todo, seeding, sent, rtOrders, marker>>

(* The flow stores the certificate ... *)
OrderCommits ==
  /\ InFlight /\ sent
  /\ cert' = [cert EXCEPT ![order] = LIFE]
  /\ pc' = "marking"
  /\ UNCHANGED <<zone, exiting, cur, todo, seeding, order, sent, rtOrders,
                 rtFail, marker, history>>

(* ... and order_complete(NGX_OK) writes the marker, best effort, ... *)
OrderMarks ==
  /\ pc = "marking"
  /\ \/ marker' = marker \cup {order}
     \/ "marker" \in Faults /\ UNCHANGED marker
  /\ pc' = "recording"
  /\ UNCHANGED <<zone, exiting, cur, todo, seeding, order, sent, rtOrders,
                 rtFail, cert, history>>

(* ... records the outcome on the node and frees the order. *)
OrderIssued ==
  /\ pc = "recording"
  /\ SetState(order, ISSUED, NoHold)
  /\ lost' = IF SetStateOk THEN lost ELSE lost \cup {order}
  /\ order' = NoHost
  /\ pc' = AfterOrder
  /\ UNCHANGED <<exiting, cur, todo, seeding, sent, rtOrders, rtFail, disk, log>>

(* The config sweep, which shares the order slot, issues or renews a         *)
(* configured name while no runtime order is in flight.                      *)
ConfigIssues(h) ==
  /\ Idling
  /\ h \in ConfigHost /\ TRUE \in name_due(h)
  /\ cert' = [cert EXCEPT ![h] = LIFE]
  /\ UNCHANGED <<zone, process, marker, history>>

-----------------------------------------------------------------------------
Pump ==
  \/ \E h \in Host : PumpClaim(h) \/ PumpRenew(h) \/ PumpUnmark(h)
  \/ PumpDrained \/ PumpConfig \/ PumpOrderCap \/ PumpFailCap
  \/ PumpLaunch \/ PumpLaunchFails \/ PumpGc \/ PumpReturn

Completion == OrderMarks \/ OrderIssued

Seed == SeedSet \/ SeedStop \/ \E h \in Host : SeedEnsure(h)

OrderFlow ==
  OrderSent \/ OrderCommits
  \/ \E hold \in {NoHold} \cup RetryAfter : OrderFails(hold)

Master == Restart \/ Crash \/ \E owner \in BOOLEAN : Reload(owner)

Next ==
  \/ \E h \in Host : ConsumerEnsure(h) \/ ConfigIssues(h)
  \/ Tick \/ Master \/ Boot \/ Exit \/ PumpStart
  \/ Pump \/ Completion \/ Seed \/ OrderFlow

(* A process in a handler runs on; the sweep timer fires (Sched.tla); an     *)
(* order ends (its polls and requests are bounded); a retiring worker exits  *)
(* and its successor starts.  The clock advances whenever the process keeps  *)
(* coming back to its event loop (SF: a handler interrupts it).  Nothing is  *)
(* assumed of consumers, reloads, crashes and the CA's answers.              *)
Fairness ==
  /\ WF_vars(Pump) /\ WF_vars(Completion) /\ WF_vars(Seed)
  /\ WF_vars(OrderFlow) /\ WF_vars(PumpStart)
  /\ SF_vars(Tick) /\ WF_vars(Boot) /\ WF_vars(Exit)

Spec == Init /\ [][Next]_vars

FairSpec == Spec /\ Fairness

-----------------------------------------------------------------------------
(* TYPE INVARIANT. *)
TypeOK ==
  /\ ReqTypeOK
  /\ pc \in {"down", "loop", "seedset", "drain", "claimed", "renew", "unmark",
             "marking", "recording"}
  /\ exiting \in BOOLEAN /\ sent \in BOOLEAN
  /\ {cur, order} \subseteq Host \cup {NoHost}
  /\ todo \subseteq Host /\ seeding \subseteq Host
  /\ cert \in [Host -> {NoCert} \cup (0 .. LIFE)]
  /\ marker \subseteq Host /\ lost \subseteq Host

(* A PENDING node has an owner: it is the host of the order in flight, or    *)
(* the host the running handler holds; only when its completion could not be *)
(* recorded (the worker died, or the zone was switched inactive) is there    *)
(* none.  drain() never returns a PENDING node again, so a claim that any    *)
(* other path of the driver forgot would lose the host.                      *)
PendingOwned ==
  \A h \in Host : HasNode(h, PENDING) => h \in {order, cur} \cup lost

(* The dedupe against the configured names may take a certificate that could *)
(* not be read for one that is there.                                        *)
Misread(h) == h \in ConfigHost /\ "read" \in Faults

(* ISSUED is only ever reported for a host whose certificate is on disk, be  *)
(* it set by a completed order, by the seed walk or by the dedupe (README:   *)
(* "ISSUED means the cert is on disk"): for a runtime host even while the    *)
(* store cannot be read, for a covered one while it can.                     *)
IssuedHasCert ==
  \A h \in Host : HasNode(h, ISSUED) => cert[h] # NoCert \/ Misread(h)

(* What the dedupe says of a host that a configured name covers, without     *)
(* that exception: ISSUED is reported only if a certificate is on disk.      *)
CoveredHasCert ==
  \A h \in ConfigHost : HasNode(h, ISSUED) => cert[h] # NoCert

(* A marker never outruns its certificate: a restart at any point finds no   *)
(* marker of a host that has nothing to serve.                               *)
MarkerHasCert == \A h \in marker : cert[h] # NoCert

Recent(what, h, window) ==
  {i \in DOMAIN log :
     log[i].what = what /\ log[i].host \in h /\ log[i].age < window}

(* The ring really is the budget: a driver process sends at most ORDER_MAX   *)
(* runtime newOrders within any ORDER_WINDOW, although the check is made     *)
(* when a host is drained and the count when the POST leaves.                *)
OrderBudget == Cardinality(Recent("sent", Host, ORDER_WINDOW)) <= ORDER_MAX

(* No host has more than FAIL_MAX failed orders within any FAIL_WINDOW, even *)
(* if the CA's Retry-After makes it eligible at once, as long as the table   *)
(* has a slot for every failing host.                                        *)
FailBudget ==
  IsFiniteSet(Host) /\ FAIL_HOSTS >= Cardinality(Host) =>
    \A h \in Host :
      Cardinality(Recent("failed", {h}, FAIL_WINDOW)) <= FAIL_MAX

(* The driver implements the registry's contract: whatever it writes to the  *)
(* zone in whatever order, with reloads, crashes and consumers in between,   *)
(* is a sequence of whole registry operations, and every hold it computes    *)
(* from a rolling window ends at most one window and a second from now.      *)
RegistryContract == ReqSpec

(* Each pump returns to the event loop: every turn of the drain loop leaves  *)
(* its host in a state the next drain() does not return, so the loop         *)
(* converges whatever consumers insert meanwhile.                            *)
PumpReturns == pc = "drain" ~> pc \in {"loop", "down"}

StaysUp == <>[](pc # "down")

(* A requested host is not forgotten: once a driver stays up, a host the     *)
(* config sweep does not own is issued, fails or is evicted, although it may *)
(* be held by a full window, share the one order slot and be handed from one *)
(* generation of worker 0 to the next.                                       *)
RequestedSettles ==
  StaysUp => \A h \in Host \ ConfigHost :
    HasNode(h, REQUESTED) ~> ~(HasNode(h, REQUESTED) \/ HasNode(h, PENDING))

(* What gc() says of a lost completion: the node is protected for the TTL,   *)
(* not for ever.  Once a driver stays up, a PENDING node leaves that state.  *)
PendingEnds ==
  StaysUp => \A h \in Host : HasNode(h, PENDING) ~> ~HasNode(h, PENDING)

(* What the certificate callback says of a renewal: it does not take a live  *)
(* name back to the bootstrap certificate.  The callback serves a runtime    *)
(* name while its node is ISSUED.                                            *)
RenewalKeepsServed ==
  [][\A h \in Host \ ConfigHost :
       /\ HasNode(h, ISSUED) /\ cert[h] > 0
       /\ stamp = "active" /\ stamp' = "active" /\ h \in DOMAIN tree'
       => tree'[h].state = ISSUED]_vars
=============================================================================
