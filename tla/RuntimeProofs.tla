---------------------------- MODULE RuntimeProofs ----------------------------
(***************************************************************************)
(* The driver's promises about the hosts it works on, for every set of     *)
(* hosts and every value of the limits: no claimed host is forgotten, and  *)
(* neither a node nor a marker outruns the certificate on disk.  Before    *)
(* them, what holds of the registry alone: its type, and that sh->count is *)
(* exact and bounded.                                                      *)
(***************************************************************************)
EXTENDS Runtime, FiniteSetTheorems, WellFoundedInduction, TLAPS

-----------------------------------------------------------------------------
(* THE REGISTRY                                                             *)

(* A back-off is a delay between 0 and BACKOFF_MAX, whatever the count. *)
LEMMA BackoffRange ==
  ASSUME NEW fails
  PROVE  Backoff(fails) \in 0 .. BACKOFF_MAX
BY RequestsAssumption DEF Backoff

(* Longest bounds both kinds of wait. *)
LEMMA LongestBounds ==
  /\ Longest \in Nat
  /\ BACKOFF_MAX <= Longest
  /\ MAX_HOLD <= Longest
BY RequestsAssumption DEF Longest

(* set_state() writes a well-formed node. *)
LEMMA OutcomeType ==
  ASSUME NEW node \in Node, NEW s \in Stored, NEW hold \in Holds
  PROVE  Outcome(node, s, hold) \in Node
<1>1. Fails(node) \in 0 .. FAIL_CAP
  BY RequestsAssumption DEF Fails, Node
<1>2. Backoff(Fails(node)) \in 0 .. Longest
  BY BackoffRange, LongestBounds, RequestsAssumption
<1>3. hold # NoHold => hold \in 0 .. Longest
  BY LongestBounds, RequestsAssumption DEF Holds
<1>4. 0 \in 0 .. Longest /\ 0 \in 0 .. (TTL + 1)
  BY LongestBounds, RequestsAssumption
<1>5. CASE s = FAILED
  BY <1>1, <1>2, <1>3, <1>4, <1>5 DEF Outcome, Node
<1>6. CASE s # FAILED
  BY <1>3, <1>4, <1>6 DEF Outcome, Node
<1> QED BY <1>5, <1>6

(* Ageing keeps a node well-formed. *)
LEMMA AgedType ==
  ASSUME NEW node \in Node
  PROVE  Aged(node) \in Node
<1> DEFINE idle2 == IF node.idle <= TTL THEN node.idle + 1 ELSE node.idle
           wait2 == IF node.wait > 0 THEN node.wait - 1 ELSE 0
<1>1. idle2 \in 0 .. (TTL + 1)
  BY RequestsAssumption DEF Node
<1>2. wait2 \in 0 .. Longest
  BY LongestBounds DEF Node
<1>3. Aged(node) = [node EXCEPT !.idle = idle2, !.wait = wait2]
  BY DEF Aged
<1> HIDE DEF idle2, wait2
<1> QED BY <1>1, <1>2, <1>3 DEF Node

(* So is a node ensure() inserts. *)
LEMMA FreshType == Fresh \in Node
BY RequestsAssumption, LongestBounds DEF Fresh, Node, Stored, REQUESTED

(* Every operation of the registry keeps its type.  The exact count is       *)
(* needed for gc(): only a finite table has a number of evicted nodes.       *)
LEMMA ReqTypeStep == ReqTypeOK /\ CountExact /\ [ReqNext]_zone => ReqTypeOK'
<1> SUFFICES ASSUME ReqTypeOK, CountExact, [ReqNext]_zone PROVE ReqTypeOK'
  OBVIOUS
<1>1. CASE \E owner \in BOOLEAN : InitZone(owner)
  BY <1>1 DEF ReqTypeOK, InitZone, Stamps, Empty
<1>2. ASSUME NEW h \in Host, Ensure(h) PROVE ReqTypeOK'
  <2>1. CASE EnsureHit(h)
    <3>1. [tree[h] EXCEPT !.idle = 0] \in Node
      BY <2>1, RequestsAssumption DEF EnsureHit, ReqTypeOK, Node
    <3>2. tree' = [tree EXCEPT ![h] = [tree[h] EXCEPT !.idle = 0]]
      BY <2>1 DEF EnsureHit
    <3> QED BY <2>1, <3>1, <3>2 DEF EnsureHit, ReqTypeOK
  <2>2. CASE EnsureMiss(h)
    BY <2>2, FreshType DEF EnsureMiss, Update, ReqTypeOK
  <2> QED BY <1>2, <2>1, <2>2 DEF Ensure
<1>3. ASSUME NEW h \in Host, Drain(h) PROVE ReqTypeOK'
  <2>1. [tree[h] EXCEPT !.state = PENDING] \in Node
    BY <1>3 DEF Drain, Eligible, ReqTypeOK, Node, Stored
  <2>2. tree' = [tree EXCEPT ![h] = [tree[h] EXCEPT !.state = PENDING]]
    BY <1>3 DEF Drain
  <2> QED BY <1>3, <2>1, <2>2 DEF Drain, Eligible, ReqTypeOK
<1>4. ASSUME NEW h \in Host, NEW s \in Stored, NEW hold \in Holds,
             SetState(h, s, hold)
      PROVE  ReqTypeOK'
  <2>1. CASE SetStateOk /\ h \in DOMAIN tree
    <3>1. Outcome(tree[h], s, hold) \in Node
      BY <2>1, OutcomeType DEF ReqTypeOK
    <3>2. tree' = [tree EXCEPT ![h] = Outcome(tree[h], s, hold)]
      BY <1>4, <2>1 DEF SetState
    <3> QED BY <1>4, <2>1, <3>1, <3>2 DEF SetState, ReqTypeOK
  <2>2. CASE ~(SetStateOk /\ h \in DOMAIN tree)
    BY <1>4, <2>2 DEF SetState, ReqTypeOK
  <2> QED BY <2>1, <2>2
<1>5. CASE Gc
  <2>1. Evicted \subseteq DOMAIN tree
    BY DEF Evicted, Idle
  <2>2. IsFiniteSet(Evicted)
    BY <2>1, FS_Subset DEF CountExact
  <2>3. Cardinality(Evicted) \in Nat
    BY <2>2, FS_CardinalityType
  <2> QED BY <1>5, <2>3 DEF Gc, ReqTypeOK
<1>6. CASE ReqTick
  BY <1>6, AgedType DEF ReqTick, ReqTypeOK
<1>7. CASE FreshArena
  BY <1>7 DEF FreshArena, Empty, ReqTypeOK, Stamps
<1>8. CASE UNCHANGED zone
  BY <1>8 DEF zone, ReqTypeOK
<1> QED BY <1>1, <1>2, <1>3, <1>4, <1>5, <1>6, <1>7, <1>8 DEF ReqNext

(* Every operation keeps the count exact and within the cap. *)
LEMMA CountStep == ReqTypeOK /\ CountExact /\ [ReqNext]_zone => CountExact'
<1> SUFFICES ASSUME ReqTypeOK, CountExact, [ReqNext]_zone PROVE CountExact'
  OBVIOUS
<1>1. CASE UNCHANGED <<DOMAIN tree, count>>
  BY <1>1 DEF CountExact
<1>2. CASE tree' = Empty /\ count' = 0
  BY <1>2, FS_EmptySet, RequestsAssumption DEF CountExact, Empty
<1>3. ASSUME NEW h \in Host, EnsureMiss(h) PROVE CountExact'
  <2>1. DOMAIN tree' = DOMAIN tree \cup {h}
    BY <1>3 DEF EnsureMiss, Update
  <2>2. /\ IsFiniteSet(DOMAIN tree')
        /\ Cardinality(DOMAIN tree') = Cardinality(DOMAIN tree) + 1
    BY <1>3, <2>1, FS_AddElement DEF EnsureMiss, CountExact
  <2> QED
    BY <1>3, <2>2, RequestsAssumption DEF EnsureMiss, CountExact, ReqTypeOK
<1>4. CASE Gc
  <2>1. Evicted \subseteq DOMAIN tree /\ DOMAIN tree' = DOMAIN tree \ Evicted
    BY <1>4 DEF Gc, Evicted, Idle
  <2>2. /\ IsFiniteSet(Evicted)
        /\ Cardinality(Evicted) <= Cardinality(DOMAIN tree)
    BY <2>1, FS_Subset DEF CountExact
  <2>3. DOMAIN tree \cap Evicted = Evicted
    BY <2>1
  <2>4. /\ IsFiniteSet(DOMAIN tree')
        /\ Cardinality(DOMAIN tree') =
              Cardinality(DOMAIN tree) - Cardinality(Evicted)
    BY <2>1, <2>3, FS_Difference DEF CountExact
  <2>5. Cardinality(Evicted) \in Nat
    BY <2>2, FS_CardinalityType
  <2>6. count' = count - Cardinality(Evicted)
    BY <1>4, <2>2, <2>5 DEF Gc, CountExact, ReqTypeOK
  <2> QED
    BY <2>4, <2>5, <2>6, RequestsAssumption DEF CountExact, ReqTypeOK
<1>5. ASSUME NEW owner \in BOOLEAN, InitZone(owner) PROVE CountExact'
  BY <1>1, <1>2, <1>5 DEF InitZone
<1>6. ASSUME NEW h \in Host, Ensure(h) \/ Drain(h) PROVE CountExact'
  BY <1>1, <1>3, <1>6 DEF Ensure, EnsureHit, Drain
<1>7. ASSUME NEW h \in Host, NEW s \in Stored, NEW hold \in Holds,
             SetState(h, s, hold)
      PROVE  CountExact'
  BY <1>1, <1>7 DEF SetState
<1>8. CASE ReqTick
  BY <1>1, <1>8 DEF ReqTick
<1>9. CASE FreshArena
  BY <1>2, <1>9 DEF FreshArena
<1>10. CASE UNCHANGED zone
  BY <1>1, <1>10 DEF zone
<1> QED BY <1>4, <1>5, <1>6, <1>7, <1>8, <1>9, <1>10 DEF ReqNext

(* The initial zone is well-formed and empty. *)
LEMMA ReqInitInv == ReqInit => ReqTypeOK /\ CountExact
BY FS_EmptySet, RequestsAssumption
   DEF ReqInit, Empty, ReqTypeOK, CountExact, Stamps

(* The registry keeps its type and an exact, bounded count, whoever calls    *)
(* its operations in whatever order: ensure() of any consumer, drain(),      *)
(* set_state() and gc() of the driver, reloads and restarts.                 *)
THEOREM RegistryCountExact == ReqSpec => [](ReqTypeOK /\ CountExact)
<1>1. ReqTypeOK /\ CountExact /\ [ReqNext]_zone => (ReqTypeOK /\ CountExact)'
  BY ReqTypeStep, CountStep
<1> QED BY <1>1, ReqInitInv, PTL DEF ReqSpec

-----------------------------------------------------------------------------
(* FACTS ABOUT THE REGISTRY'S OPERATIONS                                    *)

(* set_state() gives its state to no other host; a host whose node is in a   *)
(* state the call did not write was in that state before.                    *)
LEMMA SetStateFrame ==
  ASSUME NEW k, NEW s, NEW hold, SetState(k, s, hold),
         NEW h, NEW t, t # s, HasNode(h, t)'
  PROVE  HasNode(h, t) /\ (SetStateOk => h # k)
<1>1. CASE SetStateOk /\ k \in DOMAIN tree
  <2>1. tree' = [tree EXCEPT ![k] = Outcome(tree[k], s, hold)]
    BY <1>1 DEF SetState
  <2>2. Outcome(tree[k], s, hold).state = s
    BY DEF Outcome
  <2>3. h # k
    BY <1>1, <2>1, <2>2 DEF HasNode
  <2> QED BY <2>1, <2>3 DEF HasNode
<1>2. CASE ~(SetStateOk /\ k \in DOMAIN tree)
  BY <1>2 DEF SetState, HasNode
<1> QED BY <1>1, <1>2

(* ensure() puts nobody into a state but REQUESTED. *)
LEMMA EnsureFrame ==
  ASSUME NEW k, Ensure(k), NEW h, NEW t, t # REQUESTED, HasNode(h, t)'
  PROVE  HasNode(h, t)
<1>1. CASE EnsureHit(k)
  <2>1. tree' = [tree EXCEPT ![k] = [tree[k] EXCEPT !.idle = 0]]
    BY <1>1 DEF EnsureHit
  <2>2. [tree[k] EXCEPT !.idle = 0].state = tree[k].state
    OBVIOUS
  <2> QED BY <1>1, <2>1, <2>2 DEF EnsureHit, HasNode
<1>2. CASE EnsureMiss(k)
  BY <1>2 DEF EnsureMiss, Update, Fresh, HasNode
<1> QED BY <1>1, <1>2 DEF Ensure

(* drain() makes one host PENDING. *)
LEMMA DrainFrame ==
  ASSUME NEW k, Drain(k), NEW h, NEW t, HasNode(h, t)'
  PROVE  IF h = k THEN t = PENDING ELSE HasNode(h, t)
<1>1. tree' = [tree EXCEPT ![k] = [tree[k] EXCEPT !.state = PENDING]]
  BY DEF Drain
<1>2. [tree[k] EXCEPT !.state = PENDING].state = PENDING \/ k \notin DOMAIN tree
  BY DEF Drain, Eligible
<1> QED BY <1>1, <1>2 DEF Drain, Eligible, HasNode

(* Neither gc(), a reload, a restart nor the clock changes a state. *)
LEMMA OthersFrame ==
  ASSUME \/ Gc \/ ReqTick \/ FreshArena \/ UNCHANGED zone
         \/ \E owner \in BOOLEAN : InitZone(owner),
         NEW h, NEW t, HasNode(h, t)'
  PROVE  HasNode(h, t)
<1>1. CASE Gc
  BY <1>1 DEF Gc, HasNode
<1>2. CASE ReqTick
  <2>1. ASSUME NEW n PROVE Aged(n).state = n.state
    BY DEF Aged
  <2> QED BY <1>2, <2>1 DEF ReqTick, HasNode
<1>3. CASE FreshArena
  BY <1>3 DEF FreshArena, Empty, HasNode
<1>4. CASE UNCHANGED zone
  BY <1>4 DEF zone, HasNode
<1>5. CASE \E owner \in BOOLEAN : InitZone(owner)
  BY <1>5 DEF InitZone, Empty, HasNode
<1> QED BY <1>1, <1>2, <1>3, <1>4, <1>5

-----------------------------------------------------------------------------
(* NO CLAIMED HOST IS FORGOTTEN                                             *)

(* PendingOwned is not inductive: it says nothing of how the driver passes a *)
(* host from cur to order.  A PENDING host is held by cur only between the   *)
(* claim and the launch, and no order is in flight there.                    *)
Owner(h) == h = order \/ h \in lost \/ (pc = "claimed" /\ h = cur)

Owned == \A h \in Host : HasNode(h, PENDING) => Owner(h)

SlotFree == pc \in {"drain", "claimed"} => order = NoHost

OwnedInv == Owned /\ SlotFree

(* Consumers, the clock and the master take no host from its owner. *)
LEMMA OwnedOutside ==
  ASSUME OwnedInv,
         \/ \E h \in Host : ConsumerEnsure(h) \/ ConfigIssues(h)
         \/ Tick \/ Master \/ Exit
  PROVE  OwnedInv'
<1>1. ASSUME NEW k \in Host, ConsumerEnsure(k) PROVE OwnedInv'
  <2>1. ASSUME NEW h \in Host, HasNode(h, PENDING)' PROVE HasNode(h, PENDING)
    BY <1>1, <2>1, EnsureFrame DEF ConsumerEnsure, PENDING, REQUESTED
  <2> QED BY <1>1, <2>1
      DEF ConsumerEnsure, process, history, OwnedInv, Owned, Owner, SlotFree
<1>2. ASSUME NEW k \in Host, ConfigIssues(k) PROVE OwnedInv'
  <2>1. ASSUME NEW h \in Host, HasNode(h, PENDING)' PROVE HasNode(h, PENDING)
    BY <1>2, <2>1, OthersFrame DEF ConfigIssues
  <2> QED BY <1>2, <2>1
      DEF ConfigIssues, process, history, OwnedInv, Owned, Owner, SlotFree
<1>3. CASE Tick
  <2>1. ASSUME NEW h \in Host, HasNode(h, PENDING)' PROVE HasNode(h, PENDING)
    BY <1>3, <2>1, OthersFrame DEF Tick
  <2>2. UNCHANGED <<pc, cur, order, lost>>
    BY <1>3 DEF Tick
  <2> QED BY <2>1, <2>2 DEF OwnedInv, Owned, Owner, SlotFree
<1>4. CASE Exit
  <2>1. pc = "loop" /\ pc' = "down"
    BY <1>4 DEF Exit, ProcessGone
  <2>2. ASSUME NEW h \in Host, HasNode(h, PENDING)' PROVE h \in lost'
    <3>1. CASE order # NoHost
      <4>1. /\ HasNode(h, PENDING)
            /\ SetStateOk => h # order
        BY <1>4, <2>2, <3>1, SetStateFrame DEF Exit, PENDING, REQUESTED
      <4> QED BY <1>4, <2>1, <3>1, <4>1 DEF Exit, OwnedInv, Owned, Owner
    <3>2. CASE order = NoHost
      <4>1. HasNode(h, PENDING)
        BY <1>4, <2>2, <3>2, OthersFrame DEF Exit
      <4> QED BY <1>4, <2>1, <3>2, <4>1, RuntimeAssumption
          DEF Exit, OwnedInv, Owned, Owner
    <3> QED BY <3>1, <3>2
  <2> QED BY <2>1, <2>2 DEF OwnedInv, Owned, Owner, SlotFree
<1>5. CASE Crash
  <2>1. ASSUME NEW h \in Host, HasNode(h, PENDING)' PROVE HasNode(h, PENDING)
    BY <1>5, <2>1, OthersFrame DEF Crash
  <2>2. pc' = "down" /\ lost' = lost \cup ({order, cur} \ {NoHost})
    BY <1>5 DEF Crash, ProcessGone
  <2> QED BY <2>1, <2>2, RuntimeAssumption
      DEF OwnedInv, Owned, Owner, SlotFree
<1>6. CASE Restart
  BY <1>6 DEF Restart, FreshArena, ProcessGone, Empty, HasNode,
              OwnedInv, Owned, Owner, SlotFree
<1>7. ASSUME NEW owner \in BOOLEAN, Reload(owner) PROVE OwnedInv'
  <2>1. ASSUME NEW h \in Host, HasNode(h, PENDING)' PROVE HasNode(h, PENDING)
    BY <1>7, <2>1, OthersFrame DEF Reload
  <2> QED BY <1>7, <2>1
      DEF Reload, history, OwnedInv, Owned, Owner, SlotFree
<1> QED BY <1>1, <1>2, <1>3, <1>4, <1>5, <1>6, <1>7 DEF Master

(* The seed walk holds hosts that have an owner already or need none. *)
LEMMA OwnedSeed ==
  ASSUME OwnedInv, Boot \/ Seed \/ PumpStart
  PROVE  OwnedInv'
<1>1. CASE Boot \/ SeedStop \/ PumpStart
  <2>1. ASSUME NEW h \in Host, HasNode(h, PENDING)' PROVE HasNode(h, PENDING)
    BY <1>1, <2>1, OthersFrame DEF Boot, SeedStop, PumpStart
  <2> QED BY <1>1, <2>1 DEF Boot, SeedStop, PumpStart, Idling, history,
                            OwnedInv, Owned, Owner, SlotFree
<1>2. ASSUME NEW k \in Host, SeedEnsure(k) PROVE OwnedInv'
  <2>1. ASSUME NEW h \in Host, HasNode(h, PENDING)' PROVE HasNode(h, PENDING)
    BY <1>2, <2>1, EnsureFrame, OthersFrame DEF SeedEnsure, PENDING, REQUESTED
  <2> QED BY <1>2, <2>1 DEF SeedEnsure, history,
                            OwnedInv, Owned, Owner, SlotFree
<1>3. CASE SeedSet
  <2>1. ASSUME NEW h \in Host, HasNode(h, PENDING)' PROVE HasNode(h, PENDING)
    BY <1>3, <2>1, SetStateFrame DEF SeedSet, PENDING, ISSUED
  <2> QED BY <1>3, <2>1 DEF SeedSet, history, OwnedInv, Owned, Owner, SlotFree
<1> QED BY <1>1, <1>2, <1>3 DEF Seed

(* Giving a claimed host back in a state that drain() may return again. *)
LEMMA OwnedRelease ==
  ASSUME OwnedInv, pc = "claimed", NEW s \in {REQUESTED, ISSUED, FAILED},
         NEW hold, Release(s, hold)
  PROVE  OwnedInv'
<1>1. ASSUME NEW h \in Host, HasNode(h, PENDING)'
      PROVE  HasNode(h, PENDING) /\ (SetStateOk => h # cur)
  BY <1>1, SetStateFrame DEF Release, PENDING, REQUESTED, ISSUED, FAILED
<1>2. /\ pc' = "drain" /\ UNCHANGED order
      /\ lost' = IF SetStateOk THEN lost ELSE lost \cup {cur}
  BY DEF Release
<1> QED BY <1>1, <1>2 DEF OwnedInv, Owned, Owner, SlotFree

(* Every step of the pump leaves every PENDING host an owner. *)
LEMMA OwnedPump ==
  ASSUME OwnedInv, Pump
  PROVE  OwnedInv'
<1>1. ASSUME NEW k \in Host, PumpClaim(k) PROVE OwnedInv'
  <2>1. ASSUME NEW h \in Host, HasNode(h, PENDING)', h # k
        PROVE  HasNode(h, PENDING)
    BY <1>1, <2>1, DrainFrame DEF PumpClaim
  <2>2. /\ pc = "drain" /\ pc' = "claimed" /\ cur' = k
        /\ order' = order /\ lost' = lost \ {k}
    BY <1>1 DEF PumpClaim
  <2> QED BY <2>1, <2>2 DEF OwnedInv, Owned, Owner, SlotFree
<1>2. ASSUME NEW k \in Host, PumpRenew(k) PROVE OwnedInv'
  <2>1. ASSUME NEW h \in Host, HasNode(h, PENDING)' PROVE HasNode(h, PENDING)
    BY <1>2, <2>1, SetStateFrame, OthersFrame DEF PumpRenew, PENDING, REQUESTED
  <2> QED BY <1>2, <2>1 DEF PumpRenew, history,
                            OwnedInv, Owned, Owner, SlotFree
<1>3. ASSUME NEW k \in Host, PumpUnmark(k) PROVE OwnedInv'
  <2>1. ASSUME NEW h \in Host, HasNode(h, PENDING)' PROVE HasNode(h, PENDING)
    BY <1>3, <2>1, OthersFrame DEF PumpUnmark
  <2> QED BY <1>3, <2>1 DEF PumpUnmark, history,
                            OwnedInv, Owned, Owner, SlotFree
<1>4. CASE PumpDrained \/ PumpGc \/ PumpReturn
  <2>1. ASSUME NEW h \in Host, HasNode(h, PENDING)' PROVE HasNode(h, PENDING)
    BY <1>4, <2>1, OthersFrame DEF PumpDrained, PumpGc, PumpReturn
  <2> QED BY <1>4, <2>1 DEF PumpDrained, PumpGc, PumpReturn, history,
                            OwnedInv, Owned, Owner, SlotFree
<1>5. CASE PumpLaunch
  <2>1. ASSUME NEW h \in Host, HasNode(h, PENDING)' PROVE HasNode(h, PENDING)
    BY <1>5, <2>1, OthersFrame DEF PumpLaunch
  <2>2. /\ pc = "claimed" /\ pc' = "renew"
        /\ order' = cur /\ lost' = lost
    BY <1>5 DEF PumpLaunch, MayLaunch, history
  <2> QED BY <2>1, <2>2, RuntimeAssumption DEF OwnedInv, Owned, Owner, SlotFree
<1>6. CASE PumpConfig
  BY <1>6, OwnedRelease DEF PumpConfig
<1>7. CASE PumpOrderCap \/ PumpFailCap
  BY <1>7, OwnedRelease DEF PumpOrderCap, PumpFailCap
<1>8. CASE PumpLaunchFails
  BY <1>8, OwnedRelease DEF PumpLaunchFails, MayLaunch
<1> QED BY <1>1, <1>2, <1>3, <1>4, <1>5, <1>6, <1>7, <1>8 DEF Pump

(* The order's host has its outcome recorded, or is counted as lost. *)
LEMMA OwnedOrder ==
  ASSUME OwnedInv, Completion \/ OrderFlow
  PROVE  OwnedInv'
<1>1. CASE OrderSent \/ OrderCommits \/ OrderMarks
  <2>1. ASSUME NEW h \in Host, HasNode(h, PENDING)' PROVE HasNode(h, PENDING)
    BY <1>1, <2>1, OthersFrame DEF OrderSent, OrderCommits, OrderMarks
  <2>2. /\ pc \notin {"drain", "claimed"} /\ pc' \notin {"drain", "claimed"}
        /\ UNCHANGED <<order, lost>>
    BY <1>1 DEF OrderSent, OrderCommits, OrderMarks, InFlight, history
  <2> QED BY <2>1, <2>2 DEF OwnedInv, Owned, Owner, SlotFree
<1>2. ASSUME NEW s \in {FAILED, ISSUED}, NEW hold, SetState(order, s, hold),
             lost' = IF SetStateOk THEN lost ELSE lost \cup {order},
             pc \in {"loop", "recording"}, order' = NoHost, pc' # "claimed"
      PROVE  OwnedInv'
  <2>1. ASSUME NEW h \in Host, HasNode(h, PENDING)'
        PROVE  HasNode(h, PENDING) /\ (SetStateOk => h # order)
    BY <1>2, <2>1, SetStateFrame DEF PENDING, FAILED, ISSUED
  <2> QED BY <1>2, <2>1 DEF OwnedInv, Owned, Owner, SlotFree
<1>3. ASSUME NEW hold, OrderFails(hold) PROVE OwnedInv'
  BY <1>2, <1>3 DEF OrderFails, InFlight, AfterOrder
<1>4. CASE OrderIssued
  BY <1>2, <1>4 DEF OrderIssued, AfterOrder
<1> QED BY <1>1, <1>3, <1>4 DEF Completion, OrderFlow

(* No claim is lost: a PENDING node is the order in flight, is held by the   *)
(* running handler, or its completion could not be recorded because the      *)
(* worker died or the zone was switched inactive.                            *)
THEOREM NoClaimForgotten == Spec => []PendingOwned
<1>1. Init => OwnedInv
  BY DEF Init, ReqInit, Empty, HasNode, OwnedInv, Owned, SlotFree
<1>2. OwnedInv /\ [Next]_vars => OwnedInv'
  <2> SUFFICES ASSUME OwnedInv, [Next]_vars PROVE OwnedInv'
    OBVIOUS
  <2>1. CASE UNCHANGED vars
    BY <2>1 DEF vars, zone, process, history, HasNode,
                OwnedInv, Owned, Owner, SlotFree
  <2> QED BY <2>1, OwnedOutside, OwnedSeed, OwnedPump, OwnedOrder DEF Next
<1>3. OwnedInv => PendingOwned
  BY DEF OwnedInv, Owned, Owner, PendingOwned
<1> QED BY <1>1, <1>2, <1>3, PTL DEF Spec

-----------------------------------------------------------------------------
(* NOTHING OUTRUNS THE CERTIFICATE                                          *)

(* IssuedHasCert and MarkerHasCert need each other, and what the completion  *)
(* of an order and the seed walk know between their steps.                   *)
Refs ==
  /\ order \in Host \cup {NoHost}
  /\ pc = "claimed" => cur \in Host
  /\ marker \subseteq Host

CertType == cert \in [Host -> Int] /\ \A h \in Host : cert[h] >= NoCert

InHand ==
  /\ pc \in {"marking", "recording"} => order \in Host /\ cert[order] # NoCert
  /\ pc = "seedset" => cur \in Host /\ cert[cur] # NoCert

CertInv == Refs /\ CertType /\ InHand /\ IssuedHasCert /\ MarkerHasCert

(* The driver never loses a certificate it has: the three steps that write   *)
(* cert leave one where there was one.                                       *)
CertKept == CertType' /\ \A h \in Host : cert[h] # NoCert => cert'[h] # NoCert

(* A step that leaves the certificates alone, ... *)
LEMMA CertKeptUnchanged ==
  ASSUME CertType, UNCHANGED cert
  PROVE  CertKept
BY DEF CertType, CertKept

(* ... one that stores a fresh certificate for some host, ... *)
LEMMA CertKeptStored ==
  ASSUME CertType, NEW k \in Host, cert' = [cert EXCEPT ![k] = LIFE]
  PROVE  CertKept /\ cert'[k] # NoCert
BY RuntimeAssumption DEF CertType, CertKept, NoCert

(* ... and the clock, which only shortens lifetimes, lose none. *)
LEMMA CertKeptTick ==
  ASSUME CertType, Tick
  PROVE  CertKept
<1>1. cert' = [h \in Host |-> IF cert[h] > 0 THEN cert[h] - 1 ELSE cert[h]]
  BY DEF Tick
<1>2. ASSUME NEW h \in Host
      PROVE  /\ cert'[h] \in Int /\ cert'[h] >= NoCert
             /\ cert[h] # NoCert => cert'[h] # NoCert
  BY <1>1 DEF CertType, NoCert
<1> QED BY <1>1, <1>2 DEF CertType, CertKept

(* A step keeps the invariant if nobody becomes ISSUED or marked who has no  *)
(* certificate, misread ones apart, and what is in hand is backed by one.    *)
LEMMA CertStep ==
  ASSUME CertInv, CertKept, Refs', InHand',
         \A h \in Host : HasNode(h, ISSUED)' =>
           HasNode(h, ISSUED) \/ cert'[h] # NoCert \/ Misread(h),
         \A h \in marker' : h \in marker \/ cert'[h] # NoCert
  PROVE  CertInv'
BY DEF CertInv, CertKept, Refs, IssuedHasCert, MarkerHasCert, Misread

(* Consumers, the clock and the master issue nothing. *)
LEMMA CertOutside ==
  ASSUME CertInv,
         \/ \E h \in Host : ConsumerEnsure(h) \/ ConfigIssues(h)
         \/ Tick \/ Master \/ Exit
  PROVE  CertInv'
<1>1. ASSUME NEW k \in Host, ConsumerEnsure(k) PROVE CertInv'
  <2>1. \A h \in Host : HasNode(h, ISSUED)' => HasNode(h, ISSUED)
    BY <1>1, EnsureFrame DEF ConsumerEnsure, ISSUED, REQUESTED
  <2>2. CertKept
    BY <1>1, CertKeptUnchanged DEF CertInv, ConsumerEnsure, disk
  <2>3. Refs' /\ InHand' /\ marker' = marker
    BY <1>1 DEF ConsumerEnsure, process, disk, CertInv, Refs, InHand
  <2> QED BY <2>1, <2>2, <2>3, CertStep
<1>2. ASSUME NEW k \in Host, ConfigIssues(k) PROVE CertInv'
  <2>1. \A h \in Host : HasNode(h, ISSUED)' => HasNode(h, ISSUED)
    BY <1>2, OthersFrame DEF ConfigIssues
  <2>2. CertKept
    BY <1>2, CertKeptStored DEF CertInv, ConfigIssues
  <2>3. Refs' /\ InHand' /\ marker' = marker
    BY <1>2, <2>2 DEF ConfigIssues, Idling, process, CertInv, Refs, InHand
  <2> QED BY <2>1, <2>2, <2>3, CertStep
<1>3. CASE Tick
  <2>1. \A h \in Host : HasNode(h, ISSUED)' => HasNode(h, ISSUED)
    BY <1>3, OthersFrame DEF Tick
  <2>2. CertKept
    BY <1>3, CertKeptTick DEF CertInv
  <2>3. UNCHANGED <<pc, cur, order, marker>>
    BY <1>3 DEF Tick
  <2>4. Refs' /\ InHand'
    BY <2>2, <2>3 DEF CertKept, CertInv, Refs, InHand
  <2> QED BY <2>1, <2>2, <2>3, <2>4, CertStep
<1>4. CASE Exit \/ Crash \/ Restart
  <2>1. \A h \in Host : HasNode(h, ISSUED)' => HasNode(h, ISSUED)
    BY <1>4, SetStateFrame, OthersFrame
       DEF Exit, Crash, Restart, ISSUED, REQUESTED
  <2>2. CertKept
    BY <1>4, CertKeptUnchanged DEF CertInv, Exit, Crash, Restart, disk
  <2>3. Refs' /\ InHand' /\ marker' = marker
    BY <1>4 DEF Exit, Crash, Restart, ProcessGone, disk, CertInv, Refs, InHand
  <2> QED BY <2>1, <2>2, <2>3, CertStep
<1>5. ASSUME NEW owner \in BOOLEAN, Reload(owner) PROVE CertInv'
  <2>1. \A h \in Host : HasNode(h, ISSUED)' => HasNode(h, ISSUED)
    BY <1>5, OthersFrame DEF Reload
  <2>2. CertKept
    BY <1>5, CertKeptUnchanged DEF CertInv, Reload, disk
  <2>3. Refs' /\ InHand' /\ marker' = marker
    BY <1>5 DEF Reload, disk, CertInv, Refs, InHand
  <2> QED BY <2>1, <2>2, <2>3, CertStep
<1> QED BY <1>1, <1>2, <1>3, <1>4, <1>5 DEF Master

(* The seed walk makes a host ISSUED only from a marker, which vouches for   *)
(* the certificate even when it cannot be read.                              *)
LEMMA CertSeed ==
  ASSUME CertInv, Boot \/ Seed \/ PumpStart
  PROVE  CertInv'
<1>1. CASE Boot \/ SeedStop \/ PumpStart
  <2>1. \A h \in Host : HasNode(h, ISSUED)' => HasNode(h, ISSUED)
    BY <1>1, OthersFrame DEF Boot, SeedStop, PumpStart
  <2>2. CertKept
    BY <1>1, CertKeptUnchanged DEF CertInv, Boot, SeedStop, PumpStart, disk
  <2>3. Refs' /\ InHand' /\ marker' = marker
    BY <1>1 DEF Boot, SeedStop, PumpStart, disk, CertInv, Refs, InHand
  <2> QED BY <2>1, <2>2, <2>3, CertStep
<1>2. ASSUME NEW k \in Host, SeedEnsure(k) PROVE CertInv'
  <2>1. \A h \in Host : HasNode(h, ISSUED)' => HasNode(h, ISSUED)
    BY <1>2, EnsureFrame, OthersFrame DEF SeedEnsure, ISSUED, REQUESTED
  <2>2. CertKept
    BY <1>2, CertKeptUnchanged DEF CertInv, SeedEnsure, disk
  <2>3. UNCHANGED <<order, marker, cert>> /\ pc = "loop"
    BY <1>2 DEF SeedEnsure, disk
  <2>4. \/ UNCHANGED pc
        \/ pc' = "seedset" /\ cur' = k /\ cert[k] # NoCert
    BY <1>2 DEF SeedEnsure, Restorable, CertInv, MarkerHasCert
  <2>5. Refs' /\ InHand'
    BY <2>3, <2>4 DEF CertInv, Refs, InHand
  <2> QED BY <2>1, <2>2, <2>3, <2>5, CertStep
<1>3. CASE SeedSet
  <2>1. \A h \in Host : HasNode(h, ISSUED)' => HasNode(h, ISSUED) \/ h = cur
    BY <1>3 DEF SeedSet, SetState, HasNode
  <2>2. CertKept
    BY <1>3, CertKeptUnchanged DEF CertInv, SeedSet, disk
  <2>3. cert'[cur] # NoCert
    BY <1>3 DEF SeedSet, disk, CertInv, InHand
  <2>4. Refs' /\ InHand' /\ marker' = marker
    BY <1>3 DEF SeedSet, disk, CertInv, Refs, InHand
  <2> QED BY <2>1, <2>2, <2>3, <2>4, CertStep
<1> QED BY <1>1, <1>2, <1>3 DEF Seed

(* The pump makes only a configured name ISSUED, whose certificate is not    *)
(* due or cannot be read.                                                    *)
LEMMA CertPump ==
  ASSUME CertInv, Pump
  PROVE  CertInv'
<1>1. ASSUME NEW k \in Host, PumpClaim(k) PROVE CertInv'
  <2>1. \A h \in Host : HasNode(h, ISSUED)' => HasNode(h, ISSUED)
    BY <1>1, DrainFrame DEF PumpClaim, ISSUED, PENDING
  <2>2. CertKept
    BY <1>1, CertKeptUnchanged DEF CertInv, PumpClaim, disk
  <2>3. Refs' /\ InHand' /\ marker' = marker
    BY <1>1 DEF PumpClaim, disk, CertInv, Refs, InHand
  <2> QED BY <2>1, <2>2, <2>3, CertStep
<1>2. ASSUME NEW k \in Host, PumpRenew(k) \/ PumpUnmark(k) PROVE CertInv'
  <2>1. \A h \in Host : HasNode(h, ISSUED)' => HasNode(h, ISSUED)
    BY <1>2, SetStateFrame, OthersFrame
       DEF PumpRenew, PumpUnmark, ISSUED, REQUESTED
  <2>2. CertKept
    BY <1>2, CertKeptUnchanged DEF CertInv, PumpRenew, PumpUnmark, disk
  <2>3. Refs' /\ InHand' /\ marker' \subseteq marker
    BY <1>2 DEF PumpRenew, PumpUnmark, disk, CertInv, Refs, InHand
  <2> QED BY <2>1, <2>2, <2>3, CertStep
<1>3. CASE PumpDrained \/ PumpGc \/ PumpReturn \/ PumpLaunch
  <2>1. \A h \in Host : HasNode(h, ISSUED)' => HasNode(h, ISSUED)
    BY <1>3, OthersFrame DEF PumpDrained, PumpGc, PumpReturn, PumpLaunch
  <2>2. CertKept
    BY <1>3, CertKeptUnchanged
       DEF CertInv, PumpDrained, PumpGc, PumpReturn, PumpLaunch, disk
  <2>3. Refs' /\ InHand' /\ marker' = marker
    BY <1>3 DEF PumpDrained, PumpGc, PumpReturn, PumpLaunch, MayLaunch, disk,
                CertInv, Refs, InHand
  <2> QED BY <2>1, <2>2, <2>3, CertStep
<1>4. ASSUME NEW s, NEW hold, pc = "claimed", Release(s, hold),
             s = ISSUED => cert[cur] # NoCert \/ Misread(cur)
      PROVE  CertInv'
  <2>1. \A h \in Host : HasNode(h, ISSUED)' =>
          HasNode(h, ISSUED) \/ (s = ISSUED /\ h = cur)
    BY <1>4, SetStateFrame DEF Release, SetState, HasNode
  <2>2. CertKept /\ UNCHANGED cert
    BY <1>4, CertKeptUnchanged DEF CertInv, Release, disk
  <2>3. Refs' /\ InHand' /\ marker' = marker
    BY <1>4 DEF Release, disk, CertInv, Refs, InHand
  <2> QED BY <1>4, <2>1, <2>2, <2>3, CertStep
<1>5. CASE PumpConfig
  <2>1. PICK due \in name_due(cur) :
          IF due THEN Release(REQUESTED, CONFIG_HOLD)
                 ELSE Release(ISSUED, NoHold)
    BY <1>5 DEF PumpConfig
  <2>2. CASE due
    BY <1>4, <1>5, <2>1, <2>2 DEF PumpConfig, REQUESTED, ISSUED
  <2>3. CASE ~due
    <3>1. cert[cur] # NoCert \/ Misread(cur)
      BY <1>5, <2>3 DEF PumpConfig, name_due, Due, Misread
    <3> QED BY <1>4, <1>5, <2>1, <2>3, <3>1 DEF PumpConfig
  <2> QED BY <2>2, <2>3
<1>6. CASE PumpOrderCap \/ PumpFailCap \/ PumpLaunchFails
  BY <1>4, <1>6 DEF PumpOrderCap, PumpFailCap, PumpLaunchFails, MayLaunch,
                    REQUESTED, FAILED, ISSUED
<1> QED BY <1>1, <1>2, <1>3, <1>5, <1>6 DEF Pump

(* An order stores its certificate, then writes the marker, then the node. *)
LEMMA CertOrder ==
  ASSUME CertInv, Completion \/ OrderFlow
  PROVE  CertInv'
<1>1. CASE OrderSent
  <2>1. \A h \in Host : HasNode(h, ISSUED)' => HasNode(h, ISSUED)
    BY <1>1, OthersFrame DEF OrderSent
  <2>2. CertKept
    BY <1>1, CertKeptUnchanged DEF CertInv, OrderSent, disk
  <2>3. Refs' /\ InHand' /\ marker' = marker
    BY <1>1 DEF OrderSent, disk, CertInv, Refs, InHand
  <2> QED BY <2>1, <2>2, <2>3, CertStep
<1>2. ASSUME NEW hold, OrderFails(hold) PROVE CertInv'
  <2>1. \A h \in Host : HasNode(h, ISSUED)' => HasNode(h, ISSUED)
    BY <1>2, SetStateFrame DEF OrderFails, ISSUED, FAILED
  <2>2. CertKept
    BY <1>2, CertKeptUnchanged, CertKeptStored
       DEF CertInv, OrderFails, StoredAnyway, InFlight, Refs
  <2>3. Refs' /\ InHand' /\ marker' = marker
    BY <1>2 DEF OrderFails, AfterOrder, CertInv, Refs, InHand
  <2> QED BY <2>1, <2>2, <2>3, CertStep
<1>3. CASE OrderCommits
  <2>1. \A h \in Host : HasNode(h, ISSUED)' => HasNode(h, ISSUED)
    BY <1>3, OthersFrame DEF OrderCommits
  <2>2. order \in Host
    BY <1>3 DEF OrderCommits, InFlight, CertInv, Refs
  <2>3. CertKept /\ cert'[order] # NoCert
    BY <1>3, <2>2, CertKeptStored DEF CertInv, OrderCommits
  <2>4. Refs' /\ InHand' /\ marker' = marker
    BY <1>3, <2>2, <2>3 DEF OrderCommits, CertInv, Refs, InHand
  <2> QED BY <2>1, <2>3, <2>4, CertStep
<1>4. CASE OrderMarks
  <2>1. \A h \in Host : HasNode(h, ISSUED)' => HasNode(h, ISSUED)
    BY <1>4, OthersFrame DEF OrderMarks
  <2>2. CertKept /\ UNCHANGED cert
    BY <1>4, CertKeptUnchanged DEF CertInv, OrderMarks
  <2>3. Refs' /\ InHand' /\ marker' \subseteq marker \cup {order}
    BY <1>4 DEF OrderMarks, CertInv, Refs, InHand
  <2>4. cert'[order] # NoCert
    BY <1>4, <2>2 DEF OrderMarks, CertInv, InHand
  <2> QED BY <2>1, <2>2, <2>3, <2>4, CertStep
<1>5. CASE OrderIssued
  <2>1. \A h \in Host : HasNode(h, ISSUED)' => HasNode(h, ISSUED) \/ h = order
    BY <1>5 DEF OrderIssued, SetState, HasNode
  <2>2. CertKept /\ cert'[order] # NoCert
    BY <1>5, CertKeptUnchanged DEF CertInv, InHand, OrderIssued, disk
  <2>3. Refs' /\ InHand' /\ marker' = marker
    BY <1>5 DEF OrderIssued, AfterOrder, disk, CertInv, Refs, InHand
  <2> QED BY <2>1, <2>2, <2>3, CertStep
<1> QED BY <1>1, <1>2, <1>3, <1>4, <1>5 DEF Completion, OrderFlow

(* The invariant holds of every behaviour. *)
LEMMA CertInvariant == Spec => []CertInv
<1>1. Init => CertInv
  BY DEF Init, ReqInit, Empty, HasNode, NoCert, CertInv, Refs, CertType,
         InHand, IssuedHasCert, MarkerHasCert
<1>2. CertInv /\ [Next]_vars => CertInv'
  <2> SUFFICES ASSUME CertInv, [Next]_vars PROVE CertInv'
    OBVIOUS
  <2>1. CASE UNCHANGED vars
    BY <2>1 DEF vars, zone, process, disk, HasNode, CertInv, Refs, CertType,
                InHand, IssuedHasCert, MarkerHasCert
  <2> QED BY <2>1, CertOutside, CertSeed, CertPump, CertOrder DEF Next
<1> QED BY <1>1, <1>2, PTL DEF Spec

(* ISSUED is reported only for a host whose certificate is on disk, at every *)
(* step of the completion, the dedupe and the seed walk, and after a crash   *)
(* between any two of them; only the dedupe of a covered host needs a store  *)
(* that can be read.                                                         *)
THEOREM IssuedIsOnDisk == Spec => []IssuedHasCert
<1>1. CertInv => IssuedHasCert
  BY DEF CertInv
<1> QED BY <1>1, CertInvariant, PTL

(* A marker found after a crash or a restart names a stored certificate. *)
THEOREM MarkerIsBacked == Spec => []MarkerHasCert
<1>1. CertInv => MarkerHasCert
  BY DEF CertInv
<1> QED BY <1>1, CertInvariant, PTL

-----------------------------------------------------------------------------
(* THE ROLLING WINDOWS                                                      *)

(* A ring of n time stamps, as old as the window at most. *)
Ring(n, window) == [age : [0 .. n - 1 -> 0 .. window], head : 0 .. n - 1]

(* How far slot i is from being written over. *)
Turn(ring, n, i) == IF i >= ring.head THEN i - ring.head ELSE i - ring.head + n

(* The slot that is written over first is the oldest one, and so on. *)
Fifo(ring, n) ==
  \A i, j \in 0 .. n - 1 :
    Turn(ring, n, i) <= Turn(ring, n, j) => ring.age[i] >= ring.age[j]

(* A set of naturals that is not empty has a least element. *)
LEMMA LeastNatural ==
  ASSUME NEW S \in SUBSET Nat, S # {}
  PROVE  \E x \in S : \A y \in S : x <= y
<1>1. PICK x \in S : \A y \in S : ~ (<<y, x>> \in OpToRel(<, Nat))
  BY NatLessThanWellFounded, WFMin
<1>2. \A y \in S : ~(y < x)
  BY <1>1 DEF OpToRel
<1> QED BY <1>2

(* A bounded set of naturals that is not empty has a greatest one. *)
LEMMA MaxOfBounded ==
  ASSUME NEW w \in Nat, NEW S \in SUBSET (0 .. w), S # {}
  PROVE  Max(S) \in S
<1> DEFINE T == {y \in 0 .. w : w - y \in S}
<1>1. T \in SUBSET Nat
  OBVIOUS
<1>2. PICK s \in S : TRUE
  OBVIOUS
<1>3. w - s \in 0 .. w /\ w - (w - s) = s
  OBVIOUS
<1>4. T # {}
  BY <1>2, <1>3
<1>5. PICK x \in T : \A y \in T : x <= y
  BY <1>1, <1>4, LeastNatural
<1>6. ASSUME NEW y \in S PROVE w - x >= y
  <2>1. w - y \in T
    BY <1>6
  <2> QED BY <1>5, <2>1
<1>7. w - x \in S
  BY <1>5
<1>8. \E m \in S : \A y \in S : m >= y
  BY <1>6, <1>7
<1> QED BY <1>8 DEF Max

(* The next slot, without the remainder. *)
LEMMA NextSlot ==
  ASSUME NEW n \in Nat \ {0}, NEW k \in 0 .. n - 1
  PROVE  (k + 1) % n = IF k + 1 = n THEN 0 ELSE k + 1
<1>1. CASE k + 1 = n
  BY <1>1
<1>2. CASE k + 1 < n
  BY <1>2
<1> QED BY <1>1, <1>2

(* The counted slots are finitely many, at most n. *)
LEMMA WindowCount ==
  ASSUME NEW n \in Nat \ {0}, NEW window \in Nat,
         NEW ring \in Ring(n, window)
  PROVE  /\ InWindow(ring, window) \subseteq 0 .. n - 1
         /\ IsFiniteSet(InWindow(ring, window))
         /\ window_count(ring, window) \in 0 .. n
<1>1. InWindow(ring, window) \subseteq 0 .. n - 1
  BY DEF InWindow, Ring
<1>2. IsFiniteSet(0 .. n - 1) /\ Cardinality(0 .. n - 1) = n
  BY FS_Interval
<1>3. /\ IsFiniteSet(InWindow(ring, window))
      /\ Cardinality(InWindow(ring, window)) <= n
  BY <1>1, <1>2, FS_Subset
<1>4. Cardinality(InWindow(ring, window)) \in Nat
  BY <1>3, FS_CardinalityType
<1> QED BY <1>1, <1>3, <1>4 DEF window_count

(* An empty ring is a ring, in order, and counts nothing. *)
LEMMA EmptyRingFacts ==
  ASSUME NEW n \in Nat \ {0}, NEW window \in Nat
  PROVE  /\ EmptyRing(n, window) \in Ring(n, window)
         /\ Fifo(EmptyRing(n, window), n)
         /\ InWindow(EmptyRing(n, window), window) = {}
         /\ window_count(EmptyRing(n, window), window) = 0
<1>1. EmptyRing(n, window) \in Ring(n, window)
  BY DEF EmptyRing, Ring
<1>2. Fifo(EmptyRing(n, window), n)
  BY DEF EmptyRing, Fifo
<1>3. InWindow(EmptyRing(n, window), window) = {}
  BY DEF EmptyRing, InWindow
<1> QED BY <1>1, <1>2, <1>3, FS_EmptySet DEF window_count

(* ngx_autocert_rt_ring_push writes over the oldest slot and keeps the order *)
(* of the others.                                                            *)
LEMMA PushFacts ==
  ASSUME NEW n \in Nat \ {0}, NEW window \in Nat,
         NEW ring \in Ring(n, window), Fifo(ring, n)
  PROVE  /\ ring_push(ring, n) \in Ring(n, window)
         /\ Fifo(ring_push(ring, n), n)
         /\ ring_push(ring, n).age = [ring.age EXCEPT ![ring.head] = 0]
<1> DEFINE r == ring_push(ring, n)
<1>1. /\ ring.head \in 0 .. n - 1
      /\ ring.age \in [0 .. n - 1 -> 0 .. window]
  BY DEF Ring
<1>2. /\ r.age = [ring.age EXCEPT ![ring.head] = 0]
      /\ r.head = IF ring.head + 1 = n THEN 0 ELSE ring.head + 1
      /\ r = [age |-> r.age, head |-> r.head]
  BY <1>1, NextSlot DEF ring_push
<1> HIDE DEF r
<1>3. r \in Ring(n, window)
  <2>1. r.age \in [0 .. n - 1 -> 0 .. window]
    BY <1>1, <1>2
  <2>2. r.head \in 0 .. n - 1
    BY <1>1, <1>2
  <2> QED BY <1>2, <2>1, <2>2 DEF Ring
<1>4. ASSUME NEW i \in 0 .. n - 1
      PROVE  Turn(r, n, i) = IF i = ring.head THEN n - 1
                                              ELSE Turn(ring, n, i) - 1
  BY <1>1, <1>2 DEF Turn
<1>5. ASSUME NEW i \in 0 .. n - 1
      PROVE  Turn(ring, n, i) \in 0 .. n - 1
  BY <1>1 DEF Turn
<1>6. ASSUME NEW i \in 0 .. n - 1, NEW j \in 0 .. n - 1,
             Turn(r, n, i) <= Turn(r, n, j)
      PROVE  r.age[i] >= r.age[j]
  <2>1. CASE j = ring.head
    BY <1>1, <1>2, <2>1
  <2>2. CASE j # ring.head /\ i = ring.head
    <3>1. Turn(ring, n, j) - 1 >= n - 1
      BY <1>4, <1>6, <2>2
    <3> QED BY <1>5, <3>1
  <2>3. CASE j # ring.head /\ i # ring.head
    <3>1. Turn(ring, n, i) <= Turn(ring, n, j)
      BY <1>4, <1>5, <1>6, <2>3
    <3>2. ring.age[i] >= ring.age[j]
      BY <3>1 DEF Fifo
    <3> QED BY <1>1, <1>2, <2>3, <3>2
  <2> QED BY <2>1, <2>2, <2>3
<1>7. Fifo(r, n)
  BY <1>6 DEF Fifo
<1> QED BY <1>2, <1>3, <1>7 DEF r

(* Time passes alike for all slots. *)
LEMMA AgedFacts ==
  ASSUME NEW n \in Nat \ {0}, NEW window \in Nat,
         NEW ring \in Ring(n, window), Fifo(ring, n)
  PROVE  LET r == ring_aged(ring, window)
         IN  /\ r \in Ring(n, window) /\ Fifo(r, n)
             /\ \A i \in 0 .. n - 1 :
                  r.age[i] = IF ring.age[i] < window THEN ring.age[i] + 1
                                                     ELSE window
             /\ InWindow(r, window) \subseteq InWindow(ring, window)
             /\ window_count(r, window) <= window_count(ring, window)
<1> DEFINE r == ring_aged(ring, window)
<1>1. /\ ring.head \in 0 .. n - 1
      /\ ring.age \in [0 .. n - 1 -> 0 .. window]
      /\ DOMAIN ring.age = 0 .. n - 1
  BY DEF Ring
<1>2. /\ r.head = ring.head
      /\ r.age = [i \in 0 .. n - 1 |-> IF ring.age[i] < window
                                       THEN ring.age[i] + 1 ELSE window]
      /\ r = [ring EXCEPT !.age = r.age]
  BY <1>1 DEF ring_aged, Ring
<1> HIDE DEF r
<1>3. ASSUME NEW i \in 0 .. n - 1
      PROVE  /\ r.age[i] = IF ring.age[i] < window THEN ring.age[i] + 1
                                                   ELSE window
             /\ r.age[i] \in 0 .. window
  BY <1>1, <1>2
<1>4. r.age \in [0 .. n - 1 -> 0 .. window]
  BY <1>2, <1>3
<1>5. r \in Ring(n, window)
  BY <1>1, <1>2, <1>4 DEF Ring
<1>6. Fifo(r, n)
  <2> SUFFICES ASSUME NEW i \in 0 .. n - 1, NEW j \in 0 .. n - 1,
                      Turn(r, n, i) <= Turn(r, n, j)
               PROVE  r.age[i] >= r.age[j]
    BY DEF Fifo
  <2>1. ring.age[i] >= ring.age[j]
    BY <1>2 DEF Fifo, Turn
  <2>2. ring.age[i] \in 0 .. window /\ ring.age[j] \in 0 .. window
    BY <1>1
  <2> QED BY <1>3, <2>1, <2>2
<1>7. InWindow(r, window) \subseteq InWindow(ring, window)
  <2> SUFFICES ASSUME NEW i \in InWindow(r, window)
               PROVE  i \in InWindow(ring, window)
    OBVIOUS
  <2>1. i \in 0 .. n - 1 /\ r.age[i] < window
    BY <1>4 DEF InWindow
  <2>2. ring.age[i] < window
    BY <1>1, <1>3, <2>1
  <2> QED BY <1>1, <2>1, <2>2 DEF InWindow
<1>8. window_count(r, window) <= window_count(ring, window)
  BY <1>7, WindowCount, FS_Subset DEF window_count
<1> QED BY <1>3, <1>5, <1>6, <1>7, <1>8 DEF r

(* A ring that is not full is written where nothing is counted. *)
LEMMA HeadIsFree ==
  ASSUME NEW n \in Nat \ {0}, NEW window \in Nat,
         NEW ring \in Ring(n, window), Fifo(ring, n),
         ~(window_count(ring, window) >= n)
  PROVE  ring.head \notin InWindow(ring, window)
<1>1. /\ ring.head \in 0 .. n - 1
      /\ ring.age \in [0 .. n - 1 -> 0 .. window]
  BY DEF Ring
<1>2. PICK i \in 0 .. n - 1 : i \notin InWindow(ring, window)
  <2>1. SUFFICES ASSUME 0 .. n - 1 \subseteq InWindow(ring, window)
                 PROVE  FALSE
    OBVIOUS
  <2>2. InWindow(ring, window) = 0 .. n - 1
    BY <2>1, WindowCount
  <2>3. Cardinality(0 .. n - 1) = n
    BY FS_Interval
  <2> QED BY <2>2, <2>3 DEF window_count
<1>3. ring.age[i] >= window
  BY <1>1, <1>2 DEF InWindow
<1>4. Turn(ring, n, ring.head) <= Turn(ring, n, i)
  BY <1>1 DEF Turn
<1>5. ring.age[ring.head] >= ring.age[i]
  BY <1>1, <1>4 DEF Fifo
<1> QED BY <1>1, <1>3, <1>5 DEF InWindow

(* The hold of a host that met a full window ends when the window's oldest   *)
(* entry has left it: from two units to one window and one unit from now.    *)
LEMMA HoldRange ==
  ASSUME NEW n \in Nat \ {0}, NEW window \in Nat, window + 1 <= MAX_HOLD,
         NEW ring \in Ring(n, window), window_count(ring, window) >= n
  PROVE  HoldUntilFree(ring, window) \in Holds
<1> DEFINE S == {ring.age[i] : i \in InWindow(ring, window)}
<1>1. ring.age \in [0 .. n - 1 -> 0 .. window]
  BY DEF Ring
<1>2. InWindow(ring, window) # {}
  BY FS_EmptySet DEF window_count
<1>3. S \in SUBSET (0 .. window)
  BY <1>1 DEF InWindow
<1>4. S # {}
  BY <1>2
<1>5. Max(S) \in S
  BY <1>3, <1>4, MaxOfBounded
<1>6. Max(S) \in 0 .. window
  BY <1>3, <1>5
<1>7. window_oldest(ring, window) = Max(S)
  BY DEF window_oldest
<1> HIDE DEF S
<1> QED BY <1>6, <1>7, RequestsAssumption DEF HoldUntilFree, Holds

-----------------------------------------------------------------------------
(* THE DRIVER USES THE REGISTRY AS IT MAY                                   *)

(* What the process holds: TypeOK without the zone, hosts where a handler    *)
(* is about to use one, ...                                                  *)
ProcessType ==
  /\ pc \in {"down", "loop", "seedset", "drain", "claimed", "renew", "unmark",
             "marking", "recording"}
  /\ exiting \in BOOLEAN /\ sent \in BOOLEAN
  /\ cur \in Host \cup {NoHost} /\ order \in Host \cup {NoHost}
  /\ todo \subseteq Host /\ seeding \subseteq Host
  /\ marker \subseteq Host /\ lost \subseteq Host
  /\ pc \in {"claimed", "seedset"} => cur \in Host
  /\ pc \in {"marking", "recording"} => order \in Host

CertLives == cert \in [Host -> {NoCert} \cup (0 .. LIFE)]

(* ... and rings that are in order. *)
RingsType ==
  /\ rtOrders \in Ring(ORDER_MAX, ORDER_WINDOW) /\ Fifo(rtOrders, ORDER_MAX)
  /\ rtFail \in [Host -> Ring(FAIL_MAX, FAIL_WINDOW)]
  /\ \A h \in Host : Fifo(rtFail[h], FAIL_MAX)

DriverInv == ReqTypeOK /\ CountExact /\ ProcessType /\ CertLives /\ RingsType

(* What the windows may be. *)
LEMMA Windows ==
  /\ ORDER_MAX \in Nat \ {0} /\ FAIL_MAX \in Nat \ {0}
  /\ ORDER_WINDOW \in Nat /\ ORDER_WINDOW + 1 <= MAX_HOLD
  /\ FAIL_WINDOW \in Nat /\ FAIL_WINDOW + 1 <= MAX_HOLD
BY RuntimeAssumption, RequestsAssumption

(* A claimed host is given back with a hold the registry takes. *)
LEMMA ReleaseIsSetState ==
  ASSUME ProcessType, pc = "claimed",
         NEW s \in {REQUESTED, ISSUED, FAILED}, NEW hold \in Holds,
         Release(s, hold)
  PROVE  ReqNext
<1>1. cur \in Host /\ s \in Stored
  BY DEF ProcessType, Stored
<1>2. SetState(cur, s, hold)
  BY DEF Release
<1> QED BY <1>1, <1>2 DEF ReqNext

(* What every way to leave a claim behind writes. *)
LEMMA PumpReleases ==
  ASSUME ProcessType, RingsType,
         PumpConfig \/ PumpOrderCap \/ PumpFailCap \/ PumpLaunchFails
  PROVE  /\ pc = "claimed"
         /\ \E s \in {REQUESTED, ISSUED, FAILED}, hold \in Holds :
              Release(s, hold)
<1>1. NoHold \in Holds /\ CONFIG_HOLD \in Holds
  BY RuntimeAssumption DEF Holds
<1>2. CASE PumpConfig
  BY <1>1, <1>2 DEF PumpConfig
<1>3. CASE PumpOrderCap
  <2>1. HoldUntilFree(rtOrders, ORDER_WINDOW) \in Holds
    BY <1>3, Windows, HoldRange DEF PumpOrderCap, rt_order_at_cap, RingsType
  <2> QED BY <1>3, <2>1 DEF PumpOrderCap
<1>4. CASE PumpFailCap
  <2>1. pc = "claimed" /\ rt_fail_at_cap(cur) /\ cur \in Host
    BY <1>4 DEF PumpFailCap, ProcessType
  <2>2. rtFail[cur] \in Ring(FAIL_MAX, FAIL_WINDOW)
    BY <2>1 DEF RingsType
  <2>3. HoldUntilFree(rtFail[cur], FAIL_WINDOW) \in Holds
    BY <2>1, <2>2, Windows, HoldRange DEF rt_fail_at_cap
  <2> QED BY <1>4, <2>3 DEF PumpFailCap
<1>5. CASE PumpLaunchFails
  BY <1>1, <1>5 DEF PumpLaunchFails, MayLaunch
<1> QED BY <1>2, <1>3, <1>4, <1>5

(* Every step is one operation of the registry, or leaves the zone alone. *)
LEMMA RegistryStep ==
  ASSUME ProcessType, RingsType, Next
  PROVE  [ReqNext]_zone
<1>1. NoHold \in Holds /\ {REQUESTED, ISSUED, FAILED} \subseteq Stored
  BY DEF Holds, Stored
<1>2. ASSUME NEW k \in Host, NEW s \in {REQUESTED, ISSUED, FAILED},
             NEW hold \in Holds, SetState(k, s, hold)
      PROVE  ReqNext
  BY <1>1, <1>2 DEF ReqNext
<1>3. ASSUME NEW k \in Host, ConsumerEnsure(k) \/ ConfigIssues(k)
      PROVE  [ReqNext]_zone
  BY <1>3 DEF ConsumerEnsure, ConfigIssues, ReqNext
<1>4. CASE Tick
  BY <1>4 DEF Tick, ReqNext
<1>5. CASE Master
  BY <1>5 DEF Master, Restart, Crash, Reload, ReqNext
<1>6. CASE Exit
  <2>1. CASE order = NoHost
    BY <1>6, <2>1 DEF Exit
  <2>2. CASE order # NoHost
    <3>1. order \in Host /\ SetState(order, REQUESTED, NoHold)
      BY <1>6, <2>2 DEF Exit, ProcessType
    <3> QED BY <1>1, <1>2, <3>1
  <2> QED BY <2>1, <2>2
<1>7. CASE Boot \/ PumpStart
  BY <1>7 DEF Boot, PumpStart
<1>8. CASE Seed
  <2>1. ASSUME NEW k \in Host, SeedEnsure(k) PROVE [ReqNext]_zone
    BY <2>1 DEF SeedEnsure, ReqNext
  <2>2. CASE SeedStop
    BY <2>2 DEF SeedStop
  <2>3. CASE SeedSet
    BY <1>1, <1>2, <2>3 DEF SeedSet, ProcessType
  <2> QED BY <1>8, <2>1, <2>2, <2>3 DEF Seed
<1>9. CASE Pump
  <2>1. ASSUME NEW k \in Host, PumpClaim(k) PROVE ReqNext
    BY <2>1 DEF PumpClaim, ReqNext
  <2>2. ASSUME NEW k \in Host, PumpRenew(k) PROVE [ReqNext]_zone
    BY <1>1, <1>2, <2>2 DEF PumpRenew
  <2>3. ASSUME NEW k \in Host, PumpUnmark(k) PROVE UNCHANGED zone
    BY <2>3 DEF PumpUnmark
  <2>4. CASE PumpDrained \/ PumpReturn \/ PumpLaunch
    BY <2>4 DEF PumpDrained, PumpReturn, PumpLaunch
  <2>5. CASE PumpGc
    BY <2>5 DEF PumpGc, ReqNext
  <2>6. CASE PumpConfig \/ PumpOrderCap \/ PumpFailCap \/ PumpLaunchFails
    BY <2>6, PumpReleases, ReleaseIsSetState
  <2> QED BY <1>9, <2>1, <2>2, <2>3, <2>4, <2>5, <2>6 DEF Pump
<1>10. CASE Completion
  <2>1. CASE OrderMarks
    BY <2>1 DEF OrderMarks
  <2>2. CASE OrderIssued
    BY <1>1, <1>2, <2>2 DEF OrderIssued, ProcessType
  <2> QED BY <1>10, <2>1, <2>2 DEF Completion
<1>11. CASE OrderFlow
  <2>1. CASE OrderSent \/ OrderCommits
    BY <2>1 DEF OrderSent, OrderCommits
  <2>2. ASSUME NEW hold \in {NoHold} \cup RetryAfter, OrderFails(hold)
        PROVE  ReqNext
    <3>1. hold \in Holds
      BY RuntimeAssumption DEF Holds
    <3>2. order \in Host /\ SetState(order, FAILED, hold)
      BY <2>2 DEF OrderFails, InFlight, ProcessType
    <3> QED BY <1>2, <3>1, <3>2
  <2> QED BY <1>11, <2>1, <2>2 DEF OrderFlow
<1> QED BY <1>3, <1>4, <1>5, <1>6, <1>7, <1>8, <1>9, <1>10, <1>11 DEF Next

-----------------------------------------------------------------------------
(* The rings of a process that has done nothing yet. *)
LEMMA FreshRings ==
  ASSUME rtOrders' = NoOrders, rtFail' = NoFails
  PROVE  RingsType'
<1>1. /\ NoOrders \in Ring(ORDER_MAX, ORDER_WINDOW) /\ Fifo(NoOrders, ORDER_MAX)
      /\ EmptyRing(FAIL_MAX, FAIL_WINDOW) \in Ring(FAIL_MAX, FAIL_WINDOW)
      /\ Fifo(EmptyRing(FAIL_MAX, FAIL_WINDOW), FAIL_MAX)
  BY Windows, EmptyRingFacts DEF NoOrders
<1> QED BY <1>1 DEF RingsType, NoFails

(* The rings stay rings: time passes, an order is sent, an order fails, the  *)
(* process dies, or nothing happens to them.                                 *)
LEMMA RingsKept ==
  ASSUME ProcessType, RingsType, Next
  PROVE  RingsType'
<1>1. CASE UNCHANGED <<rtOrders, rtFail>>
  BY <1>1 DEF RingsType
<1>2. CASE Tick
  <2>1. /\ rtOrders' = ring_aged(rtOrders, ORDER_WINDOW)
        /\ rtFail' = [h \in Host |-> ring_aged(rtFail[h], FAIL_WINDOW)]
    BY <1>2 DEF Tick
  <2>2. rtOrders' \in Ring(ORDER_MAX, ORDER_WINDOW) /\ Fifo(rtOrders', ORDER_MAX)
    BY <2>1, Windows, AgedFacts DEF RingsType
  <2>3. ASSUME NEW h \in Host
        PROVE  /\ ring_aged(rtFail[h], FAIL_WINDOW) \in Ring(FAIL_MAX, FAIL_WINDOW)
               /\ Fifo(ring_aged(rtFail[h], FAIL_WINDOW), FAIL_MAX)
    BY Windows, AgedFacts DEF RingsType
  <2> QED BY <2>1, <2>2, <2>3 DEF RingsType
<1>3. CASE Exit \/ Crash \/ Restart
  BY <1>3, FreshRings DEF Exit, Crash, Restart, ProcessGone
<1>4. CASE OrderSent
  <2>1. rtOrders' = ring_push(rtOrders, ORDER_MAX) /\ rtFail' = rtFail
    BY <1>4 DEF OrderSent, rt_order_record
  <2> QED BY <2>1, Windows, PushFacts DEF RingsType
<1>5. ASSUME NEW hold, OrderFails(hold) PROVE RingsType'
  <2>1. order \in Host /\ rtOrders' = rtOrders
    BY <1>5 DEF OrderFails, InFlight, ProcessType
  <2>2. rt_fail_record(order)
    BY <1>5 DEF OrderFails
  <2>3. CASE rtFail' = rtFail
    BY <2>1, <2>3 DEF RingsType
  <2>4. CASE rtFail' # rtFail
    <3> DEFINE r == IF order \in FailTable THEN rtFail[order] ELSE NoFails[order]
    <3>1. rtFail' = [rtFail EXCEPT ![order] = ring_push(r, FAIL_MAX)]
      BY <2>2, <2>4 DEF rt_fail_record
    <3>2. r \in Ring(FAIL_MAX, FAIL_WINDOW) /\ Fifo(r, FAIL_MAX)
      BY <2>1, Windows, EmptyRingFacts DEF RingsType, NoFails
    <3>3. /\ ring_push(r, FAIL_MAX) \in Ring(FAIL_MAX, FAIL_WINDOW)
          /\ Fifo(ring_push(r, FAIL_MAX), FAIL_MAX)
      BY <3>2, Windows, PushFacts
    <3> HIDE DEF r
    <3> QED BY <2>1, <3>1, <3>3 DEF RingsType
  <2> QED BY <2>3, <2>4
<1>6. CASE \E owner \in BOOLEAN : Reload(owner)
  BY <1>1, <1>6 DEF Reload
<1>7. CASE \E h \in Host : ConsumerEnsure(h) \/ ConfigIssues(h)
  BY <1>1, <1>7 DEF ConsumerEnsure, ConfigIssues, process
<1>8. CASE Boot \/ PumpStart \/ Seed
  BY <1>1, <1>8 DEF Boot, PumpStart, Seed, SeedStop, SeedSet, SeedEnsure
<1>9. CASE Pump
  <2>1. CASE PumpConfig \/ PumpOrderCap \/ PumpFailCap \/ PumpLaunchFails
    BY <1>1, <2>1 DEF PumpConfig, PumpOrderCap, PumpFailCap, PumpLaunchFails,
                      Release
  <2>2. CASE \E h \in Host : PumpClaim(h) \/ PumpRenew(h) \/ PumpUnmark(h)
    BY <1>1, <2>2 DEF PumpClaim, PumpRenew, PumpUnmark
  <2>3. CASE PumpDrained \/ PumpLaunch \/ PumpGc \/ PumpReturn
    BY <1>1, <2>3 DEF PumpDrained, PumpLaunch, PumpGc, PumpReturn
  <2> QED BY <1>9, <2>1, <2>2, <2>3 DEF Pump
<1>10. CASE Completion \/ OrderCommits
  BY <1>1, <1>10 DEF Completion, OrderMarks, OrderIssued, OrderCommits
<1> QED BY <1>2, <1>3, <1>4, <1>5, <1>6, <1>7, <1>8, <1>9, <1>10
        DEF Next, Master, OrderFlow

(* A process that is gone holds nothing. *)
LEMMA GoneType ==
  ASSUME ProcessType, ProcessGone, marker' \subseteq Host, lost' \subseteq Host
  PROVE  ProcessType'
BY DEF ProcessType, ProcessGone

(* Hosts that are listed or evicted are hosts. *)
LEMMA ListsAreHosts ==
  ASSUME ReqTypeOK
  PROVE  ListIssued \subseteq Host /\ Evicted \subseteq Host
BY DEF ReqTypeOK, ListIssued, Evicted, Idle

(* Every step keeps what the process holds well-formed. *)
LEMMA ProcessKept ==
  ASSUME ReqTypeOK, ProcessType, Next
  PROVE  ProcessType'
<1>1. ASSUME NEW k \in Host, ConsumerEnsure(k) \/ ConfigIssues(k)
      PROVE  ProcessType'
  BY <1>1 DEF ConsumerEnsure, ConfigIssues, process, disk, history, ProcessType
<1>2. CASE Tick
  BY <1>2 DEF Tick, ProcessType
<1>3. CASE Restart \/ Crash
  <2>1. /\ ProcessGone /\ marker' = marker
        /\ lost' \subseteq lost \cup ({order, cur} \ {NoHost})
    BY <1>3 DEF Restart, Crash, disk
  <2>2. marker' \subseteq Host /\ lost' \subseteq Host
    BY <2>1 DEF ProcessType
  <2> QED BY <2>1, <2>2, GoneType
<1>4. ASSUME NEW owner \in BOOLEAN, Reload(owner) PROVE ProcessType'
  BY <1>4 DEF Reload, disk, history, ProcessType
<1>5. CASE Exit
  <2>1. /\ ProcessGone /\ marker' = marker
        /\ lost' \subseteq lost \cup ({order} \ {NoHost})
    BY <1>5 DEF Exit, disk
  <2>2. marker' \subseteq Host /\ lost' \subseteq Host
    BY <2>1 DEF ProcessType
  <2> QED BY <2>1, <2>2, GoneType
<1>6. CASE Boot \/ PumpStart
  BY <1>6 DEF Boot, PumpStart, Idling, disk, history, ProcessType
<1>7. CASE Seed
  <2>1. ASSUME NEW k \in Host, SeedEnsure(k) PROVE ProcessType'
    <3>1. /\ seeding' \subseteq seeding /\ pc = "loop"
          /\ \/ UNCHANGED <<pc, cur>>
             \/ pc' = "seedset" /\ cur' = k
          /\ UNCHANGED <<exiting, todo, order, sent, marker, lost>>
      BY <2>1 DEF SeedEnsure, disk, history
    <3> QED BY <3>1 DEF ProcessType
  <2>2. CASE SeedSet \/ SeedStop
    BY <2>2 DEF SeedSet, SeedStop, disk, history, ProcessType
  <2> QED BY <1>7, <2>1, <2>2 DEF Seed
<1>8. CASE Pump
  <2>1. ASSUME NEW k \in Host, PumpClaim(k) \/ PumpRenew(k) \/ PumpUnmark(k)
        PROVE  ProcessType'
    BY <2>1 DEF PumpClaim, PumpRenew, PumpUnmark, disk, history, ProcessType
  <2>2. CASE PumpDrained \/ PumpLaunch
    BY <2>2, ListsAreHosts
       DEF PumpDrained, PumpLaunch, MayLaunch, disk, history, ProcessType
  <2>3. CASE PumpGc \/ PumpReturn
    BY <2>3, ListsAreHosts DEF PumpGc, PumpReturn, disk, history, ProcessType
  <2>4. CASE PumpConfig \/ PumpOrderCap \/ PumpFailCap \/ PumpLaunchFails
    <3>1. pc = "claimed" /\ \E s, hold : Release(s, hold)
      BY <2>4 DEF PumpConfig, PumpOrderCap, PumpFailCap, PumpLaunchFails,
                  MayLaunch
    <3>2. /\ pc' = "drain" /\ cur' = NoHost
          /\ lost' \subseteq lost \cup {cur}
          /\ UNCHANGED <<exiting, todo, seeding, order, sent, marker>>
      BY <3>1 DEF Release, disk
    <3> QED BY <3>1, <3>2 DEF ProcessType
  <2> QED BY <1>8, <2>1, <2>2, <2>3, <2>4 DEF Pump
<1>9. CASE OrderMarks \/ OrderSent \/ OrderCommits
  BY <1>9 DEF OrderMarks, OrderSent, OrderCommits, InFlight, disk, history,
              ProcessType
<1>10. CASE OrderIssued \/ \E hold \in {NoHold} \cup RetryAfter : OrderFails(hold)
  <2>1. /\ order \in Host
        /\ pc' \in {"loop", "drain"} /\ order' = NoHost
        /\ lost' \subseteq lost \cup {order}
        /\ UNCHANGED <<exiting, cur, todo, seeding, sent, marker>>
    BY <1>10 DEF OrderIssued, OrderFails, InFlight, AfterOrder, disk, ProcessType
  <2> QED BY <2>1 DEF ProcessType
<1> QED BY <1>1, <1>2, <1>3, <1>4, <1>5, <1>6, <1>7, <1>8, <1>9, <1>10
        DEF Next, Master, Completion, OrderFlow

(* A certificate is fresh, grows older, or stays as it is. *)
LEMMA CertLivesKept ==
  ASSUME ProcessType, CertLives, Next
  PROVE  CertLives'
<1>1. CASE cert' = cert
  BY <1>1 DEF CertLives
<1>2. CASE \E k \in Host : cert' = [cert EXCEPT ![k] = LIFE]
  BY <1>2, RuntimeAssumption DEF CertLives
<1>3. CASE Tick
  <2>1. cert' = [h \in Host |-> IF cert[h] > 0 THEN cert[h] - 1 ELSE cert[h]]
    BY <1>3 DEF Tick
  <2>2. LIFE \in Nat
    BY RuntimeAssumption
  <2>3. ASSUME NEW h \in Host
        PROVE  (IF cert[h] > 0 THEN cert[h] - 1 ELSE cert[h])
                 \in {NoCert} \cup (0 .. LIFE)
    BY <2>2 DEF CertLives, NoCert
  <2> QED BY <2>1, <2>3 DEF CertLives
<1>4. CASE \E h \in Host : ConsumerEnsure(h) \/ ConfigIssues(h)
  BY <1>1, <1>2, <1>4 DEF ConsumerEnsure, ConfigIssues, disk
<1>5. CASE Master \/ Exit \/ Boot \/ PumpStart
  BY <1>1, <1>5 DEF Master, Restart, Crash, Reload, Exit, Boot, PumpStart, disk
<1>6. CASE Seed
  BY <1>1, <1>6 DEF Seed, SeedStop, SeedSet, SeedEnsure, disk
<1>7. CASE Pump
  <2>1. CASE PumpConfig \/ PumpOrderCap \/ PumpFailCap \/ PumpLaunchFails
    BY <1>1, <2>1 DEF PumpConfig, PumpOrderCap, PumpFailCap, PumpLaunchFails,
                      Release, disk
  <2>2. CASE \E h \in Host : PumpClaim(h) \/ PumpRenew(h) \/ PumpUnmark(h)
    BY <1>1, <2>2 DEF PumpClaim, PumpRenew, PumpUnmark, disk
  <2>3. CASE PumpDrained \/ PumpLaunch \/ PumpGc \/ PumpReturn
    BY <1>1, <2>3 DEF PumpDrained, PumpLaunch, PumpGc, PumpReturn, disk
  <2> QED BY <1>7, <2>1, <2>2, <2>3 DEF Pump
<1>8. CASE OrderCommits
  BY <1>2, <1>8 DEF OrderCommits, InFlight, ProcessType
<1>9. CASE Completion \/ OrderSent
  BY <1>1, <1>9 DEF Completion, OrderMarks, OrderIssued, OrderSent, disk
<1>10. CASE \E hold : OrderFails(hold)
  BY <1>1, <1>2, <1>10 DEF OrderFails, StoredAnyway, InFlight, ProcessType
<1> QED BY <1>3, <1>4, <1>5, <1>6, <1>7, <1>8, <1>9, <1>10 DEF Next, OrderFlow

(* The invariant of the driver and the zone it shares. *)
LEMMA DriverInvInit == Init => DriverInv
<1> SUFFICES ASSUME Init PROVE DriverInv
  OBVIOUS
<1>1. ReqTypeOK /\ CountExact
  BY ReqInitInv DEF Init
<1>2. ProcessType /\ CertLives
  BY DEF Init, ProcessType, CertLives
<1>3. RingsType
  <2>1. /\ NoOrders \in Ring(ORDER_MAX, ORDER_WINDOW) /\ Fifo(NoOrders, ORDER_MAX)
        /\ EmptyRing(FAIL_MAX, FAIL_WINDOW) \in Ring(FAIL_MAX, FAIL_WINDOW)
        /\ Fifo(EmptyRing(FAIL_MAX, FAIL_WINDOW), FAIL_MAX)
    BY Windows, EmptyRingFacts DEF NoOrders
  <2> QED BY <2>1 DEF Init, RingsType, NoFails
<1> QED BY <1>1, <1>2, <1>3 DEF DriverInv

(* Every step keeps it, and is a step of the registry's specification. *)
LEMMA DriverInvNext ==
  DriverInv /\ [Next]_vars => DriverInv' /\ [ReqNext]_zone
<1> SUFFICES ASSUME DriverInv, [Next]_vars PROVE DriverInv' /\ [ReqNext]_zone
  OBVIOUS
<1>1. CASE UNCHANGED vars
  BY <1>1 DEF vars, zone, process, disk, history, DriverInv, ReqTypeOK,
              CountExact, ProcessType, CertLives, RingsType
<1>2. CASE Next
  <2>1. [ReqNext]_zone
    BY <1>2, RegistryStep DEF DriverInv
  <2>2. ReqTypeOK' /\ CountExact'
    BY <2>1, ReqTypeStep, CountStep DEF DriverInv
  <2>3. ProcessType' /\ CertLives' /\ RingsType'
    BY <1>2, ProcessKept, CertLivesKept, RingsKept DEF DriverInv
  <2> QED BY <2>1, <2>2, <2>3 DEF DriverInv
<1> QED BY <1>1, <1>2

(* The driver, its consumers, reloads, crashes and restarts together use the *)
(* registry by whole operations only, with holds its type allows             *)
(* (RegistryContract): ngx_autocert_driver.c implements the caller that      *)
(* ngx_autocert_requests.c is written for.                                   *)
THEOREM DriverKeepsContract == Spec => RegistryContract
<1>1. Init => ReqInit
  BY DEF Init
<1> QED BY <1>1, DriverInvInit, DriverInvNext, PTL
        DEF Spec, RegistryContract, ReqSpec

(* The driver's state and the zone's stay well-formed: no handler uses a     *)
(* host it does not hold, and no hold or back-off leaves its range (TypeOK). *)
THEOREM RuntimeTyped == Spec => []TypeOK
<1>1. DriverInv => TypeOK
  BY DEF DriverInv, ProcessType, CertLives, TypeOK
<1> QED BY <1>1, DriverInvInit, DriverInvNext, PTL DEF Spec

(* sh->count is the number of nodes and within the cap, in the whole system  *)
(* of driver, consumers and master (CountExact).                             *)
THEOREM CountStaysExact == Spec => []CountExact
<1>1. DriverInv => CountExact
  BY DEF DriverInv
<1> QED BY <1>1, DriverInvInit, DriverInvNext, PTL DEF Spec

-----------------------------------------------------------------------------
(* THE RINGS ARE THE BUDGETS                                                *)

(* The budgets speak of what left for the CA, the guards of what is in the   *)
(* rings.  They are tied together by a matching: every recent entry of the   *)
(* log, the numbers in S, has a slot of its own in the ring, of its age.     *)
Matched(S, entries, ring, window) ==
  \E g \in [S -> InWindow(ring, window)] :
    /\ \A i \in S : ring.age[g[i]] = entries[i].age
    /\ \A i, j \in S : g[i] = g[j] => i = j

(* So there are no more of them than slots. *)
LEMMA MatchedBound ==
  ASSUME NEW n \in Nat \ {0}, NEW window \in Nat,
         NEW ring \in Ring(n, window), NEW S, NEW entries,
         Matched(S, entries, ring, window)
  PROVE  /\ IsFiniteSet(S) /\ Cardinality(S) <= n
         /\ InWindow(ring, window) = {} => S = {}
<1>1. PICK g \in [S -> InWindow(ring, window)] :
        \A i, j \in S : g[i] = g[j] => i = j
  BY DEF Matched
<1>2. g \in Injection(S, InWindow(ring, window))
  BY <1>1 DEF Injection, IsInjective
<1>3. IsFiniteSet(InWindow(ring, window)) /\ window_count(ring, window) \in 0 .. n
  BY WindowCount
<1>4. IsFiniteSet(S) /\ Cardinality(S) <= Cardinality(InWindow(ring, window))
  BY <1>2, <1>3, FS_Injection
<1>5. Cardinality(S) \in Nat
  BY <1>4, FS_CardinalityType
<1>6. InWindow(ring, window) = {} => S = {}
  BY <1>1
<1> QED BY <1>3, <1>4, <1>5, <1>6 DEF window_count

(* Time passes: entries that are still recent were so before, in the same    *)
(* order, d places further on, and their slots are still counted.            *)
LEMMA MatchedAges ==
  ASSUME NEW n \in Nat \ {0}, NEW window \in Nat,
         NEW ring \in Ring(n, window), Fifo(ring, n),
         NEW S \in SUBSET Int, NEW entries, Matched(S, entries, ring, window),
         NEW R \in SUBSET Int, NEW later, NEW d \in Int,
         \A i \in R : /\ i + d \in S
                      /\ later[i].age = entries[i + d].age + 1
                      /\ later[i].age < window
  PROVE  Matched(R, later, ring_aged(ring, window), window)
<1> DEFINE r == ring_aged(ring, window)
<1>1. PICK g \in [S -> InWindow(ring, window)] :
        /\ \A i \in S : ring.age[g[i]] = entries[i].age
        /\ \A i, j \in S : g[i] = g[j] => i = j
  BY DEF Matched
<1>2. /\ r \in Ring(n, window)
      /\ \A i \in 0 .. n - 1 :
           r.age[i] = IF ring.age[i] < window THEN ring.age[i] + 1 ELSE window
  BY AgedFacts
<1> HIDE DEF r
<1> DEFINE f == [i \in R |-> g[i + d]]
<1>3. ASSUME NEW i \in R
      PROVE  f[i] \in InWindow(r, window) /\ r.age[f[i]] = later[i].age
  <2>1. /\ i + d \in S /\ f[i] = g[i + d]
        /\ g[i + d] \in InWindow(ring, window)
    BY <1>1
  <2>2. /\ g[i + d] \in 0 .. n - 1
        /\ ring.age[g[i + d]] < window
        /\ ring.age[g[i + d]] = entries[i + d].age
    BY <1>1, <2>1 DEF InWindow, Ring
  <2>3. r.age[f[i]] = later[i].age /\ r.age[f[i]] < window
    BY <1>2, <2>1, <2>2
  <2>4. f[i] \in DOMAIN r.age
    BY <1>2, <2>1, <2>2 DEF Ring
  <2> QED BY <2>3, <2>4 DEF InWindow
<1>4. ASSUME NEW i \in R, NEW j \in R, f[i] = f[j] PROVE i = j
  <2>1. i + d \in S /\ j + d \in S /\ g[i + d] = g[j + d]
    BY <1>4
  <2>2. i + d = j + d
    BY <1>1, <2>1
  <2>3. i \in Int /\ j \in Int
    OBVIOUS
  <2> QED BY <2>2, <2>3
<1>5. f \in [R -> InWindow(r, window)]
  BY <1>3
<1> HIDE DEF f
<1>6. Matched(R, later, r, window)
  BY <1>3, <1>4, <1>5 DEF Matched
<1> QED BY <1>6 DEF r

(* Something is recorded in a ring that is not full: the new entry k takes   *)
(* the slot that is written over, which belonged to none.                    *)
LEMMA MatchedPush ==
  ASSUME NEW n \in Nat \ {0}, NEW window \in Nat,
         NEW ring \in Ring(n, window), Fifo(ring, n),
         ~(window_count(ring, window) >= n),
         NEW S, NEW entries, Matched(S, entries, ring, window),
         NEW R, NEW later, NEW k,
         \A i \in R : \/ i = k /\ later[i].age = 0 /\ 0 < window
                      \/ i \in S /\ i # k /\ later[i].age = entries[i].age
  PROVE  Matched(R, later, ring_push(ring, n), window)
<1> DEFINE r == ring_push(ring, n)
<1>1. PICK g \in [S -> InWindow(ring, window)] :
        /\ \A i \in S : ring.age[g[i]] = entries[i].age
        /\ \A i, j \in S : g[i] = g[j] => i = j
  BY DEF Matched
<1>2. /\ ring.head \in 0 .. n - 1
      /\ ring.age \in [0 .. n - 1 -> 0 .. window]
  BY DEF Ring
<1>3. r.age = [ring.age EXCEPT ![ring.head] = 0]
  BY PushFacts
<1>4. ring.head \notin InWindow(ring, window)
  BY HeadIsFree
<1> HIDE DEF r
<1>5. ASSUME NEW i \in InWindow(ring, window)
      PROVE  i \in InWindow(r, window) /\ r.age[i] = ring.age[i] /\ i # ring.head
  BY <1>2, <1>3, <1>4 DEF InWindow
<1>6. r.age[ring.head] = 0 /\ (0 < window => ring.head \in InWindow(r, window))
  BY <1>2, <1>3 DEF InWindow
<1> DEFINE f == [i \in R |-> IF i = k THEN ring.head ELSE g[i]]
<1>7. ASSUME NEW i \in R
      PROVE  f[i] \in InWindow(r, window) /\ r.age[f[i]] = later[i].age
  <2>1. CASE i = k
    BY <1>6, <2>1
  <2>2. CASE i # k
    <3>1. i \in S /\ later[i].age = entries[i].age /\ f[i] = g[i]
      BY <2>2
    <3>2. g[i] \in InWindow(ring, window) /\ ring.age[g[i]] = entries[i].age
      BY <1>1, <3>1
    <3> QED BY <1>5, <3>1, <3>2
  <2> QED BY <2>1, <2>2
<1>8. ASSUME NEW i \in R, NEW j \in R, f[i] = f[j] PROVE i = j
  <2>1. ASSUME NEW m \in R, m # k
        PROVE  m \in S /\ f[m] = g[m] /\ f[m] # ring.head
    BY <1>1, <1>5, <2>1
  <2>2. CASE i = k \/ j = k
    BY <1>8, <2>1, <2>2
  <2>3. CASE i # k /\ j # k
    BY <1>1, <1>8, <2>1, <2>3
  <2> QED BY <2>2, <2>3
<1>9. f \in [R -> InWindow(r, window)]
  BY <1>7
<1> HIDE DEF f
<1>10. Matched(R, later, r, window)
  BY <1>7, <1>8, <1>9 DEF Matched
<1> QED BY <1>10 DEF r

(* An entry that concerns somebody else changes nothing. *)
LEMMA MatchedSame ==
  ASSUME NEW window \in Nat, NEW ring,
         NEW S, NEW entries, Matched(S, entries, ring, window),
         NEW R, NEW later,
         \A i \in R : i \in S /\ later[i].age = entries[i].age
  PROVE  Matched(R, later, ring, window)
<1>1. PICK g \in [S -> InWindow(ring, window)] :
        /\ \A i \in S : ring.age[g[i]] = entries[i].age
        /\ \A i, j \in S : g[i] = g[j] => i = j
  BY DEF Matched
<1> DEFINE f == [i \in R |-> g[i]]
<1>2. f \in [R -> InWindow(ring, window)]
  BY <1>1
<1>3. /\ \A i \in R : ring.age[f[i]] = later[i].age
      /\ \A i, j \in R : f[i] = f[j] => i = j
  BY <1>1
<1> HIDE DEF f
<1> QED BY <1>2, <1>3 DEF Matched

(* Nothing is matched with anything. *)
LEMMA MatchedNone ==
  ASSUME NEW entries, NEW ring, NEW window
  PROVE  Matched({}, entries, ring, window)
<1>1. [i \in {} |-> 0] \in [{} -> InWindow(ring, window)]
  OBVIOUS
<1> QED BY <1>1 DEF Matched

(* The budgets are not inductive: the invariant says why a ring that was not *)
(* full when a host was drained is not full when its order leaves, or fails, *)
(* and that rings and log agree.                                             *)
LogEntry == [host : Host, what : {"sent", "failed"}, age : Nat]

TableFits == IsFiniteSet(Host) /\ FAIL_HOSTS >= Cardinality(Host)

SentMatched ==
  Matched(Recent("sent", Host, ORDER_WINDOW), log, rtOrders, ORDER_WINDOW)

FailedMatched(h) ==
  Matched(Recent("failed", {h}, FAIL_WINDOW), log, rtFail[h], FAIL_WINDOW)

NotFull ==
  /\ order # NoHost /\ ~sent => ~rt_order_at_cap
  /\ order \in Host => ~rt_fail_at_cap(order)

BudgetInv ==
  /\ log \in Seq(LogEntry)
  /\ SentMatched
  /\ TableFits => \A h \in Host : FailedMatched(h)
  /\ NotFull

(* A process that has just started has sent nothing. *)
LEMMA NoBudgetSpent ==
  ASSUME NEW what, NEW H, NEW window, log = <<>>
  PROVE  Recent(what, H, window) = {}
BY DEF Recent

(* The budgets of a process that has just started. *)
LEMMA BudgetInit == Init => BudgetInv
<1> SUFFICES ASSUME Init PROVE BudgetInv
  OBVIOUS
<1>1. log = <<>> /\ order = NoHost /\ NoHost \notin Host
  BY RuntimeAssumption DEF Init
<1>2. log \in Seq(LogEntry)
  BY <1>1
<1>3. SentMatched /\ \A h \in Host : FailedMatched(h)
  BY <1>1, NoBudgetSpent, MatchedNone DEF SentMatched, FailedMatched
<1> QED BY <1>1, <1>2, <1>3 DEF BudgetInv, NotFull

(* A process that dies takes its rings and its log with it. *)
LEMMA BudgetGone ==
  ASSUME ProcessGone
  PROVE  BudgetInv'
<1>1. log' = <<>> /\ order' = NoHost /\ NoHost \notin Host
  BY RuntimeAssumption DEF ProcessGone
<1>2. log' \in Seq(LogEntry)
  BY <1>1
<1>3. /\ Recent("sent", Host, ORDER_WINDOW)' = {}
      /\ \A h \in Host : Recent("failed", {h}, FAIL_WINDOW)' = {}
  BY <1>1 DEF Recent
<1>4. SentMatched' /\ \A h \in Host : FailedMatched(h)'
  BY <1>3, MatchedNone DEF SentMatched, FailedMatched
<1> QED BY <1>1, <1>2, <1>4 DEF BudgetInv, NotFull

(* A step that neither sends nor fails, nor takes the order slot. *)
LEMMA BudgetIdle ==
  ASSUME BudgetInv, UNCHANGED <<log, rtOrders, rtFail>>,
         order' = NoHost \/ UNCHANGED <<order, sent>>
  PROVE  BudgetInv'
<1>1. NoHost \notin Host
  BY RuntimeAssumption
<1> QED BY <1>1 DEF BudgetInv, SentMatched, FailedMatched, Recent, NotFull,
                    rt_order_at_cap, rt_fail_at_cap

(* The order slot is only taken past both guards of the pump. *)
LEMMA BudgetLaunch ==
  ASSUME BudgetInv, PumpLaunch
  PROVE  BudgetInv'
<1>1. /\ UNCHANGED <<log, rtOrders, rtFail>> /\ order' = cur
      /\ ~rt_order_at_cap /\ ~rt_fail_at_cap(cur)
  BY DEF PumpLaunch, MayLaunch, history
<1> QED BY <1>1 DEF BudgetInv, SentMatched, FailedMatched, Recent, NotFull,
                    rt_order_at_cap, rt_fail_at_cap

(* Entries leave the log at the front. *)
LEMMA LogAges ==
  ASSUME log \in Seq(LogEntry), Tick
  PROVE  /\ Expired \in Nat
         /\ log' \in Seq(LogEntry)
         /\ \A i \in DOMAIN log' :
              /\ i \in Int /\ i + Expired \in DOMAIN log
              /\ log'[i].age = log[i + Expired].age + 1
              /\ log'[i].host = log[i + Expired].host
              /\ log'[i].what = log[i + Expired].what
<1> DEFINE L == Len(log)
           d == Expired
<1>1. L \in Nat /\ DOMAIN log = 1 .. L
  OBVIOUS
<1>2. IsFiniteSet(1 .. L) /\ Cardinality(1 .. L) = L
  BY <1>1, FS_Interval
<1>3. d \in 0 .. L
  <2> DEFINE E == {i \in DOMAIN log : log[i].age + 1 >= LongestWindow}
  <2>1. E \in SUBSET (1 .. L)
    BY <1>1
  <2> HIDE DEF E
  <2>2. IsFiniteSet(E) /\ Cardinality(E) <= L
    BY <1>2, <2>1, FS_Subset
  <2>3. Cardinality(E) \in Nat
    BY <2>2, FS_CardinalityType
  <2>4. d = Cardinality(E)
    BY DEF Expired, E
  <2> QED BY <1>1, <2>2, <2>3, <2>4
<1>4. log' = [i \in 1 .. L - d |-> [log[i + d] EXCEPT !.age = @ + 1]]
  BY DEF Tick
<1> HIDE DEF L, d
<1>5. ASSUME NEW i \in 1 .. L - d
      PROVE  /\ i + d \in DOMAIN log
             /\ log[i + d] \in LogEntry
             /\ [log[i + d] EXCEPT !.age = @ + 1] \in LogEntry
             /\ [log[i + d] EXCEPT !.age = @ + 1].age = log[i + d].age + 1
             /\ [log[i + d] EXCEPT !.age = @ + 1].host = log[i + d].host
             /\ [log[i + d] EXCEPT !.age = @ + 1].what = log[i + d].what
  <2>1. i + d \in 1 .. L
    BY <1>1, <1>3
  <2>2. i + d \in DOMAIN log /\ log[i + d] \in LogEntry
    BY <1>1, <2>1
  <2> QED BY <2>2 DEF LogEntry
<1>6. L - d \in Nat
  BY <1>1, <1>3
<1>7. log' \in Seq(LogEntry) /\ DOMAIN log' = 1 .. L - d
  BY <1>4, <1>5, <1>6
<1>8. ASSUME NEW i \in DOMAIN log'
      PROVE  /\ i \in Int /\ i + d \in DOMAIN log
             /\ log'[i].age = log[i + d].age + 1
             /\ log'[i].host = log[i + d].host
             /\ log'[i].what = log[i + d].what
  <2>1. i \in 1 .. L - d /\ i \in Int
    BY <1>6, <1>7
  <2>2. log'[i] = [log[i + d] EXCEPT !.age = @ + 1]
    BY <1>4, <2>1
  <2> QED BY <1>5, <2>1, <2>2
<1> QED BY <1>1, <1>3, <1>7, <1>8 DEF d

(* Time passes for the rings and the log alike. *)
LEMMA BudgetTick ==
  ASSUME ProcessType, RingsType, BudgetInv, Tick
  PROVE  BudgetInv'
<1>1. /\ rtOrders' = ring_aged(rtOrders, ORDER_WINDOW)
      /\ rtFail' = [h \in Host |-> ring_aged(rtFail[h], FAIL_WINDOW)]
      /\ UNCHANGED <<order, sent>>
  BY DEF Tick
<1>2. log \in Seq(LogEntry)
  BY DEF BudgetInv
<1>3. ASSUME NEW what, NEW H, NEW window \in Nat
      PROVE  /\ Recent(what, H, window) \in SUBSET Int
             /\ Recent(what, H, window)' \in SUBSET Int
             /\ \A i \in Recent(what, H, window)' :
                  /\ i + Expired \in Recent(what, H, window)
                  /\ log'[i].age = log[i + Expired].age + 1
                  /\ log'[i].age < window
  <2>1. Recent(what, H, window) \in SUBSET Int
    BY <1>2 DEF Recent
  <2>2. ASSUME NEW i \in Recent(what, H, window)'
        PROVE  /\ i \in Int /\ i + Expired \in Recent(what, H, window)
               /\ log'[i].age = log[i + Expired].age + 1
               /\ log'[i].age < window
    <3>1. /\ i \in DOMAIN log' /\ log'[i].what = what
          /\ log'[i].host \in H /\ log'[i].age < window
      BY <2>2 DEF Recent
    <3>2. /\ i \in Int /\ i + Expired \in DOMAIN log
          /\ log'[i].age = log[i + Expired].age + 1
          /\ log'[i].host = log[i + Expired].host
          /\ log'[i].what = log[i + Expired].what
      BY <1>2, <3>1, LogAges
    <3>3. log[i + Expired].age \in Nat
      <4>1. log[i + Expired] \in LogEntry
        BY <1>2, <3>2
      <4> QED BY <4>1 DEF LogEntry
    <3>4. log[i + Expired].age < window
      BY <3>1, <3>2, <3>3
    <3> QED BY <3>1, <3>2, <3>4 DEF Recent
  <2> QED BY <2>1, <2>2
<1>4. Expired \in Int
  BY <1>2, LogAges
<1>5. SentMatched'
  <2> DEFINE S == Recent("sent", Host, ORDER_WINDOW)
             R == Recent("sent", Host, ORDER_WINDOW)'
  <2>1. /\ S \in SUBSET Int /\ R \in SUBSET Int
        /\ \A i \in R : /\ i + Expired \in S
                        /\ log'[i].age = log[i + Expired].age + 1
                        /\ log'[i].age < ORDER_WINDOW
    BY <1>3, Windows
  <2>2. Matched(S, log, rtOrders, ORDER_WINDOW)
    BY DEF BudgetInv, SentMatched
  <2>3. rtOrders \in Ring(ORDER_MAX, ORDER_WINDOW) /\ Fifo(rtOrders, ORDER_MAX)
    BY DEF RingsType
  <2> HIDE DEF S, R
  <2>4. Matched(R, log', ring_aged(rtOrders, ORDER_WINDOW), ORDER_WINDOW)
    BY <1>4, <2>1, <2>2, <2>3, Windows, MatchedAges
  <2> QED BY <1>1, <2>4 DEF SentMatched, R
<1>6. ASSUME NEW h \in Host, FailedMatched(h) PROVE FailedMatched(h)'
  <2> DEFINE S == Recent("failed", {h}, FAIL_WINDOW)
             R == Recent("failed", {h}, FAIL_WINDOW)'
  <2>1. rtFail'[h] = ring_aged(rtFail[h], FAIL_WINDOW)
    BY <1>1
  <2>2. rtFail[h] \in Ring(FAIL_MAX, FAIL_WINDOW) /\ Fifo(rtFail[h], FAIL_MAX)
    BY DEF RingsType
  <2>3. /\ S \in SUBSET Int /\ R \in SUBSET Int
        /\ \A i \in R : /\ i + Expired \in S
                        /\ log'[i].age = log[i + Expired].age + 1
                        /\ log'[i].age < FAIL_WINDOW
    BY <1>3, Windows
  <2>4. Matched(S, log, rtFail[h], FAIL_WINDOW)
    BY <1>6 DEF FailedMatched
  <2> HIDE DEF S, R
  <2>5. Matched(R, log', ring_aged(rtFail[h], FAIL_WINDOW), FAIL_WINDOW)
    BY <1>4, <2>2, <2>3, <2>4, Windows, MatchedAges
  <2> QED BY <2>1, <2>5 DEF FailedMatched, R
<1>7. NotFull'
  <2>1. ~rt_order_at_cap => ~rt_order_at_cap'
    <3>1. window_count(rtOrders', ORDER_WINDOW)
            <= window_count(rtOrders, ORDER_WINDOW)
      BY <1>1, Windows, AgedFacts DEF RingsType
    <3>2. rtOrders' \in Ring(ORDER_MAX, ORDER_WINDOW)
      BY <1>1, Windows, AgedFacts DEF RingsType
    <3>3. /\ window_count(rtOrders, ORDER_WINDOW) \in Nat
          /\ window_count(rtOrders', ORDER_WINDOW) \in Nat
      BY <3>2, Windows, WindowCount DEF RingsType
    <3> QED BY <3>1, <3>3, Windows DEF rt_order_at_cap
  <2>2. ASSUME NEW h \in Host, ~rt_fail_at_cap(h) PROVE ~rt_fail_at_cap(h)'
    <3>1. rtFail[h] \in Ring(FAIL_MAX, FAIL_WINDOW) /\ Fifo(rtFail[h], FAIL_MAX)
      BY DEF RingsType
    <3>2. rtFail'[h] = ring_aged(rtFail[h], FAIL_WINDOW)
      BY <1>1
    <3>3. /\ rtFail'[h] \in Ring(FAIL_MAX, FAIL_WINDOW)
          /\ window_count(rtFail'[h], FAIL_WINDOW)
               <= window_count(rtFail[h], FAIL_WINDOW)
      BY <3>1, <3>2, Windows, AgedFacts
    <3>4. /\ window_count(rtFail[h], FAIL_WINDOW) \in 0 .. FAIL_MAX
          /\ window_count(rtFail'[h], FAIL_WINDOW) \in 0 .. FAIL_MAX
      BY <3>1, <3>3, Windows, WindowCount
    <3>5. ~(window_count(rtFail[h], FAIL_WINDOW) >= FAIL_MAX)
      BY <2>2 DEF rt_fail_at_cap
    <3>6. ~(window_count(rtFail'[h], FAIL_WINDOW) >= FAIL_MAX)
      BY <3>3, <3>4, <3>5, Windows
    <3> QED BY <3>6 DEF rt_fail_at_cap
  <2> QED BY <1>1, <2>1, <2>2 DEF BudgetInv, NotFull
<1> QED BY <1>2, <1>5, <1>6, <1>7, LogAges DEF BudgetInv

(* Logged puts an entry of the order in flight behind the others. *)
LEMMA LogGrows ==
  ASSUME log \in Seq(LogEntry), order \in Host,
         NEW w \in {"sent", "failed"}, Logged(w)
  PROVE  /\ log' \in Seq(LogEntry)
         /\ \A i \in DOMAIN log' :
              \/ /\ i = Len(log) + 1 /\ log'[i].age = 0
                 /\ log'[i].what = w /\ log'[i].host = order
              \/ i # Len(log) + 1 /\ i \in DOMAIN log /\ log'[i] = log[i]
<1> DEFINE e == [host |-> order, what |-> w, age |-> 0]
<1>1. e \in LogEntry /\ e.host = order /\ e.what = w /\ e.age = 0
  BY DEF LogEntry
<1>2. log' = Append(log, e)
  BY DEF Logged
<1> HIDE DEF e
<1>3. /\ log' \in Seq(LogEntry) /\ DOMAIN log' = 1 .. Len(log) + 1
      /\ Len(log) \in Nat /\ DOMAIN log = 1 .. Len(log)
      /\ log'[Len(log) + 1] = e
      /\ \A i \in 1 .. Len(log) : log'[i] = log[i]
  BY <1>1, <1>2
<1> QED BY <1>1, <1>3

(* What the new entry means for those who look for entries of theirs. *)
LEMMA RecentGrows ==
  ASSUME log \in Seq(LogEntry), order \in Host,
         NEW w \in {"sent", "failed"}, Logged(w),
         NEW what, NEW H, NEW window \in Nat,
         NEW i \in Recent(what, H, window)'
  PROVE  \/ /\ i = Len(log) + 1 /\ log'[i].age = 0 /\ 0 < window
            /\ what = w /\ order \in H
         \/ /\ i \in Recent(what, H, window) /\ i # Len(log) + 1
            /\ log'[i].age = log[i].age
<1>1. /\ i \in DOMAIN log' /\ log'[i].what = what
      /\ log'[i].host \in H /\ log'[i].age < window
  BY DEF Recent
<1>2. \/ /\ i = Len(log) + 1 /\ log'[i].age = 0
         /\ log'[i].what = w /\ log'[i].host = order
      \/ i # Len(log) + 1 /\ i \in DOMAIN log /\ log'[i] = log[i]
  BY <1>1, LogGrows
<1>3. CASE i = Len(log) + 1
  BY <1>1, <1>2, <1>3
<1>4. CASE i # Len(log) + 1
  BY <1>1, <1>2, <1>4 DEF Recent
<1> QED BY <1>3, <1>4

(* The newOrder POST leaves: the ring was not full when the host was         *)
(* drained, nothing was recorded since, and so the slot it takes was free.   *)
LEMMA BudgetSent ==
  ASSUME ProcessType, RingsType, BudgetInv, OrderSent
  PROVE  BudgetInv'
<1>1. /\ order \in Host /\ order # NoHost /\ ~sent /\ sent'
      /\ rtOrders' = ring_push(rtOrders, ORDER_MAX) /\ rtFail' = rtFail
      /\ order' = order /\ Logged("sent")
  BY DEF OrderSent, InFlight, rt_order_record, ProcessType
<1>2. log \in Seq(LogEntry)
  BY DEF BudgetInv
<1>3. log' \in Seq(LogEntry)
  BY <1>1, <1>2, LogGrows
<1>4. SentMatched'
  <2> DEFINE S == Recent("sent", Host, ORDER_WINDOW)
             R == Recent("sent", Host, ORDER_WINDOW)'
             k == Len(log) + 1
  <2>1. \A i \in R : \/ i = k /\ log'[i].age = 0 /\ 0 < ORDER_WINDOW
                     \/ i \in S /\ i # k /\ log'[i].age = log[i].age
    BY <1>1, <1>2, Windows, RecentGrows
  <2>2. Matched(S, log, rtOrders, ORDER_WINDOW)
    BY DEF BudgetInv, SentMatched
  <2>3. rtOrders \in Ring(ORDER_MAX, ORDER_WINDOW) /\ Fifo(rtOrders, ORDER_MAX)
    BY DEF RingsType
  <2>4. ~(window_count(rtOrders, ORDER_WINDOW) >= ORDER_MAX)
    BY <1>1 DEF BudgetInv, NotFull, rt_order_at_cap
  <2> HIDE DEF S, R, k
  <2>5. Matched(R, log', ring_push(rtOrders, ORDER_MAX), ORDER_WINDOW)
    BY <2>1, <2>2, <2>3, <2>4, Windows, MatchedPush
  <2> QED BY <1>1, <2>5 DEF SentMatched, R
<1>5. ASSUME NEW h \in Host, FailedMatched(h) PROVE FailedMatched(h)'
  <2> DEFINE S == Recent("failed", {h}, FAIL_WINDOW)
             R == Recent("failed", {h}, FAIL_WINDOW)'
  <2>1. \A i \in R : i \in S /\ log'[i].age = log[i].age
    BY <1>1, <1>2, Windows, RecentGrows
  <2>2. Matched(S, log, rtFail[h], FAIL_WINDOW)
    BY <1>5 DEF FailedMatched
  <2> HIDE DEF S, R
  <2>3. Matched(R, log', rtFail[h], FAIL_WINDOW)
    BY <2>1, <2>2, Windows, MatchedSame
  <2> QED BY <1>1, <2>3 DEF FailedMatched, R
<1>6. NotFull'
  BY <1>1 DEF BudgetInv, NotFull, rt_fail_at_cap
<1> QED BY <1>3, <1>4, <1>5, <1>6 DEF BudgetInv

(* A host that has no failures in its window gets a slot of the table, if    *)
(* there is one for every host.                                              *)
LEMMA SlotForAll ==
  ASSUME TableFits, NEW h \in Host, h \notin FailTable
  PROVE  Cardinality(FailTable) < FAIL_HOSTS
<1>1. FailTable \in SUBSET Host /\ FailTable # Host
  BY DEF FailTable
<1>2. /\ IsFiniteSet(FailTable)
      /\ Cardinality(FailTable) <= Cardinality(Host)
      /\ Cardinality(FailTable) # Cardinality(Host)
  BY <1>1, FS_Subset DEF TableFits
<1>3. Cardinality(FailTable) \in Nat /\ Cardinality(Host) \in Nat
  BY <1>2, FS_CardinalityType DEF TableFits
<1>4. FAIL_HOSTS \in Nat /\ FAIL_HOSTS >= Cardinality(Host)
  BY RuntimeAssumption DEF TableFits
<1> QED BY <1>2, <1>3, <1>4

(* An order fails: its host's window was not full when it was drained, so    *)
(* the failure takes a slot that was free.                                   *)
LEMMA BudgetFails ==
  ASSUME ProcessType, RingsType, BudgetInv, NEW hold, OrderFails(hold)
  PROVE  BudgetInv'
<1>1. /\ order \in Host /\ order' = NoHost /\ rtOrders' = rtOrders
      /\ Logged("failed") /\ rt_fail_record(order)
  BY DEF OrderFails, InFlight, ProcessType
<1>2. log \in Seq(LogEntry)
  BY DEF BudgetInv
<1>3. log' \in Seq(LogEntry)
  BY <1>1, <1>2, LogGrows
<1>4. SentMatched'
  <2> DEFINE S == Recent("sent", Host, ORDER_WINDOW)
             R == Recent("sent", Host, ORDER_WINDOW)'
  <2>1. \A i \in R : i \in S /\ log'[i].age = log[i].age
    BY <1>1, <1>2, Windows, RecentGrows
  <2>2. Matched(S, log, rtOrders, ORDER_WINDOW)
    BY DEF BudgetInv, SentMatched
  <2> HIDE DEF S, R
  <2>3. Matched(R, log', rtOrders, ORDER_WINDOW)
    BY <2>1, <2>2, Windows, MatchedSame
  <2> QED BY <1>1, <2>3 DEF SentMatched, R
<1>5. ASSUME NEW h \in Host, h # order, FailedMatched(h) PROVE FailedMatched(h)'
  <2> DEFINE S == Recent("failed", {h}, FAIL_WINDOW)
             R == Recent("failed", {h}, FAIL_WINDOW)'
  <2>1. \A i \in R : i \in S /\ log'[i].age = log[i].age
    BY <1>1, <1>2, <1>5, Windows, RecentGrows
  <2>2. Matched(S, log, rtFail[h], FAIL_WINDOW)
    BY <1>5 DEF FailedMatched
  <2>3. rtFail'[h] = rtFail[h]
    BY <1>1, <1>5 DEF rt_fail_record, RingsType
  <2> HIDE DEF S, R
  <2>4. Matched(R, log', rtFail[h], FAIL_WINDOW)
    BY <2>1, <2>2, Windows, MatchedSame
  <2> QED BY <2>3, <2>4 DEF FailedMatched, R
<1>6. ASSUME TableFits, NEW h \in Host, h = order, FailedMatched(h)
      PROVE  FailedMatched(h)'
  <2> DEFINE S == Recent("failed", {h}, FAIL_WINDOW)
             R == Recent("failed", {h}, FAIL_WINDOW)'
             k == Len(log) + 1
             r == IF h \in FailTable THEN rtFail[h] ELSE NoFails[h]
  <2>1. \A i \in R : \/ i = k /\ log'[i].age = 0 /\ 0 < FAIL_WINDOW
                     \/ i \in S /\ i # k /\ log'[i].age = log[i].age
    BY <1>1, <1>2, Windows, RecentGrows
  <2>2. Matched(S, log, rtFail[h], FAIL_WINDOW)
    BY <1>6 DEF FailedMatched
  <2>3. rtFail[h] \in Ring(FAIL_MAX, FAIL_WINDOW) /\ Fifo(rtFail[h], FAIL_MAX)
    BY DEF RingsType
  <2>4. rtFail'[h] = ring_push(r, FAIL_MAX)
    BY <1>1, <1>6, SlotForAll DEF rt_fail_record, RingsType
  <2>5. /\ r \in Ring(FAIL_MAX, FAIL_WINDOW) /\ Fifo(r, FAIL_MAX)
        /\ ~(window_count(r, FAIL_WINDOW) >= FAIL_MAX)
        /\ Matched(S, log, r, FAIL_WINDOW)
    <3>1. CASE h \in FailTable
      BY <1>6, <2>2, <2>3, <3>1 DEF BudgetInv, NotFull, rt_fail_at_cap
    <3>2. CASE h \notin FailTable
      <4>1. r = EmptyRing(FAIL_MAX, FAIL_WINDOW)
        BY <3>2 DEF NoFails
      <4>2. window_count(rtFail[h], FAIL_WINDOW) = 0
        BY <2>3, <3>2, Windows, WindowCount DEF FailTable
      <4>3. InWindow(rtFail[h], FAIL_WINDOW) = {}
        BY <2>3, <4>2, Windows, WindowCount, FS_EmptySet DEF window_count
      <4>4. S = {}
        BY <2>2, <2>3, <4>3, Windows, MatchedBound
      <4>5. Matched(S, log, r, FAIL_WINDOW)
        BY <4>4, MatchedNone
      <4> HIDE DEF S, r
      <4>6. /\ r \in Ring(FAIL_MAX, FAIL_WINDOW) /\ Fifo(r, FAIL_MAX)
            /\ window_count(r, FAIL_WINDOW) = 0
        BY <4>1, Windows, EmptyRingFacts
      <4>7. ~(window_count(r, FAIL_WINDOW) >= FAIL_MAX)
        BY <4>6, Windows
      <4> QED BY <4>5, <4>6, <4>7
    <3> QED BY <3>1, <3>2
  <2> HIDE DEF S, R, k, r
  <2>6. Matched(R, log', ring_push(r, FAIL_MAX), FAIL_WINDOW)
    BY <2>1, <2>5, Windows, MatchedPush
  <2> QED BY <2>4, <2>6 DEF FailedMatched, R
<1>7. NotFull'
  BY <1>1, RuntimeAssumption DEF NotFull
<1>8. TableFits => \A h \in Host : FailedMatched(h)'
  BY <1>5, <1>6 DEF BudgetInv
<1> QED BY <1>3, <1>4, <1>7, <1>8 DEF BudgetInv, TableFits

(* Every step keeps the budgets. *)
LEMMA BudgetNext ==
  ASSUME ProcessType, RingsType, BudgetInv, [Next]_vars
  PROVE  BudgetInv'
<1>1. CASE UNCHANGED vars
  BY <1>1, BudgetIdle DEF vars, process, history
<1>2. CASE \E h \in Host : ConsumerEnsure(h) \/ ConfigIssues(h)
  BY <1>2, BudgetIdle DEF ConsumerEnsure, ConfigIssues, process, history
<1>3. CASE Tick
  BY <1>3, BudgetTick
<1>4. CASE Exit \/ Crash \/ Restart
  BY <1>4, BudgetGone DEF Exit, Crash, Restart
<1>5. CASE \E owner \in BOOLEAN : Reload(owner)
  BY <1>5, BudgetIdle DEF Reload, history
<1>6. CASE Boot \/ PumpStart \/ Seed
  BY <1>6, BudgetIdle
     DEF Boot, PumpStart, Seed, SeedStop, SeedSet, SeedEnsure, history
<1>7. CASE Pump
  <2>1. CASE PumpConfig \/ PumpOrderCap \/ PumpFailCap \/ PumpLaunchFails
    BY <2>1, BudgetIdle
       DEF PumpConfig, PumpOrderCap, PumpFailCap, PumpLaunchFails, Release
  <2>2. CASE \E h \in Host : PumpClaim(h) \/ PumpRenew(h) \/ PumpUnmark(h)
    BY <2>2, BudgetIdle DEF PumpClaim, PumpRenew, PumpUnmark, history
  <2>3. CASE PumpDrained \/ PumpGc \/ PumpReturn
    BY <2>3, BudgetIdle DEF PumpDrained, PumpGc, PumpReturn, history
  <2> QED BY <1>7, <2>1, <2>2, <2>3, BudgetLaunch DEF Pump
<1>8. CASE Completion
  BY <1>8, BudgetIdle DEF Completion, OrderMarks, OrderIssued, history
<1>9. CASE OrderFlow
  <2>1. CASE OrderCommits
    BY <2>1, BudgetIdle DEF OrderCommits, history
  <2> QED BY <1>9, <2>1, BudgetSent, BudgetFails DEF OrderFlow
<1> QED BY <1>1, <1>2, <1>3, <1>4, <1>5, <1>6, <1>7, <1>8, <1>9
        DEF Next, Master

(* Rings and log agree in every behaviour. *)
LEMMA BudgetInvariant == Spec => [](DriverInv /\ BudgetInv)
<1>1. DriverInv /\ BudgetInv /\ [Next]_vars => (DriverInv /\ BudgetInv)'
  BY DriverInvNext, BudgetNext DEF DriverInv
<1> QED BY <1>1, DriverInvInit, BudgetInit, PTL DEF Spec

(* A driver process sends at most ORDER_MAX runtime newOrders within any     *)
(* ORDER_WINDOW, for every size of the ring and the window: the check of     *)
(* rt_order_at_cap when a host is drained still holds when the POST leaves   *)
(* and rt_order_accounted counts it (OrderBudget).                           *)
THEOREM OrdersWithinBudget == Spec => []OrderBudget
<1>1. DriverInv /\ BudgetInv => OrderBudget
  BY Windows, MatchedBound
     DEF DriverInv, RingsType, BudgetInv, SentMatched, OrderBudget
<1> QED BY <1>1, BudgetInvariant, PTL

(* A host fails at most FAIL_MAX times within any FAIL_WINDOW, whatever      *)
(* Retry-After the CA sends, when the table of rt_fail_record has a slot for *)
(* every host (FailBudget).                                                  *)
THEOREM FailuresWithinBudget == Spec => []FailBudget
<1>1. DriverInv /\ BudgetInv => FailBudget
  <2> SUFFICES ASSUME DriverInv, BudgetInv, TableFits, NEW h \in Host
               PROVE  Cardinality(Recent("failed", {h}, FAIL_WINDOW)) <= FAIL_MAX
    BY DEF FailBudget, TableFits
  <2>1. FailedMatched(h) /\ rtFail[h] \in Ring(FAIL_MAX, FAIL_WINDOW)
    BY DEF BudgetInv, DriverInv, RingsType
  <2> QED BY <2>1, Windows, MatchedBound DEF FailedMatched
<1> QED BY <1>1, BudgetInvariant, PTL
=============================================================================
