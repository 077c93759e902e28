------------------------------ MODULE Requests ------------------------------
(***************************************************************************)
(* The runtime-request registry of src/src/ngx_autocert_requests.c: a      *)
(* bounded table of host names in a shared memory zone.  Consumers (other  *)
(* modules, in any worker) call ensure(); the driver on worker 0 calls     *)
(* drain(), set_state() and gc().  Every operation holds the slab mutex    *)
(* from its first look at the tree to its return, so each one is an action.*)
(*                                                                         *)
(* Time is relative.  A node carries how long ago last_seen was (idle) and *)
(* how long it is until next_eligible (wait) instead of the two time_t     *)
(* values: the code only ever compares them with ngx_time().  Both are     *)
(* saturated where the code can no longer tell values apart, which keeps   *)
(* the state finite although time is unbounded.                            *)
(*                                                                         *)
(* ReqNext is the most general caller: any operation, at any time, in any  *)
(* order.  Runtime.tla constrains it to what the driver really does and    *)
(* is shown to implement ReqSpec.                                          *)
(***************************************************************************)
EXTENDS Integers, FiniteSets

CONSTANTS
  Host,          \* the normalised, valid names a consumer may ask for
  REQUESTS_MAX,  \* NGX_AUTOCERT_REQUESTS_MAX: nodes the table may hold
  BACKOFF_BASE,  \* NGX_AUTOCERT_REQ_BACKOFF_BASE
  BACKOFF_MAX,   \* NGX_AUTOCERT_REQ_BACKOFF_MAX
  FAIL_CAP,      \* bound on fail_count: the back-off is at its maximum there
  TTL,           \* autocert_runtime_ttl; 0 switches gc off
  MAX_HOLD       \* longest next_eligible a caller passes, counted from now

ASSUME RequestsAssumption ==
  /\ REQUESTS_MAX \in Nat \ {0}
  /\ BACKOFF_BASE \in Nat \ {0}
  /\ BACKOFF_MAX \in Nat
  /\ BACKOFF_BASE <= BACKOFF_MAX
  /\ FAIL_CAP \in Nat \ {0}
  /\ BACKOFF_BASE * 2^(FAIL_CAP - 1) >= BACKOFF_MAX
  /\ TTL \in Nat
  /\ MAX_HOLD \in Nat

VARIABLES
  stamp,   \* sh->api_version; "none" is an arena without a header
  tree,    \* the rbtree: host -> node, defined on the hosts that have a node
  count    \* sh->count

zone == <<stamp, tree, count>>

-----------------------------------------------------------------------------
(* The states of a node, ngx_autocert_request_state_e. *)
REQUESTED == "requested"
PENDING   == "pending"
ISSUED    == "issued"
FAILED    == "failed"
DENIED    == "denied"
UNKNOWN   == "unknown"   \* "no node": returned, never stored

Stored == {REQUESTED, PENDING, ISSUED, FAILED, DENIED}

(* The layout stamps.  "legacy" is the version-0 header of an older build    *)
(* with an empty tree; "foreign" any other layout, a non-empty version 0     *)
(* included.                                                                 *)
Stamps == {"none", "active", "inactive", "legacy", "foreign"}

(* next_eligible as an argument: NoHold is the literal 0 ("eligible now", or *)
(* "compute the back-off" for FAILED); a number is that long from now.       *)
NoHold == -1
Holds == {NoHold} \cup (0 .. MAX_HOLD)

Longest == IF BACKOFF_MAX > MAX_HOLD THEN BACKOFF_MAX ELSE MAX_HOLD

Node == [state : Stored, idle : 0 .. (TTL + 1), wait : 0 .. Longest,
         fails : 0 .. FAIL_CAP]

(* MUTANT: not clamped. *)
Backoff_Unclamped(fails) == BACKOFF_BASE * 2^(fails - 1)

(* The base doubled fails - 1 times, clamped. *)
Backoff(fails) ==
  LET b == BACKOFF_BASE * 2^(fails - 1)
  IN  IF b \in 0 .. BACKOFF_MAX THEN b ELSE BACKOFF_MAX

Update(h, node) ==
  [k \in DOMAIN tree \cup {h} |-> IF k = h THEN node ELSE tree[k]]

HasNode(h, s) == h \in DOMAIN tree /\ tree[h].state = s

-----------------------------------------------------------------------------
Empty == [h \in {} |-> 0]

ReqInit ==
  /\ stamp \in {"none", "legacy", "foreign"}
  /\ tree = Empty
  /\ count = 0

(* init_body: the master maps the zone for a new cycle, as the owner (an     *)
(* enabled autocert) or for a consumer-only cycle.  A header of the current  *)
(* layout only has its activity bit changed; a foreign one is never touched: *)
(* the owner fails the reload, the consumer stays inert.                     *)
Adoptable == stamp \in {"active", "inactive", "legacy"}

InitZone(owner) ==
  /\ stamp = "none" \/ Adoptable
  /\ stamp' = IF owner THEN "active" ELSE "inactive"
  /\ IF stamp = "none"
     THEN tree' = Empty /\ count' = 0
     ELSE UNCHANGED <<tree, count>>

(* What ensure() returns, before its effect. *)
EnsureResult(h) ==
  CASE stamp # "active"       -> UNKNOWN
    [] stamp = "active" /\ h \in DOMAIN tree -> tree[h].state
    [] stamp = "active" /\ h \notin DOMAIN tree /\ count >= REQUESTS_MAX
                              -> DENIED
    [] OTHER                  -> REQUESTED

Fresh == [state |-> REQUESTED, idle |-> 0, wait |-> 0, fails |-> 0]

(* ensure(): a hit refreshes last_seen, whatever the node's state; a miss    *)
(* inserts while the cap allows.                                             *)
EnsureHit(h) ==
  /\ h \in DOMAIN tree
  /\ tree' = [tree EXCEPT ![h].idle = 0]
  /\ UNCHANGED <<stamp, count>>

EnsureMiss(h) ==
  /\ h \notin DOMAIN tree
  /\ count < REQUESTS_MAX
  /\ tree' = Update(h, Fresh)
  /\ count' = count + 1
  /\ UNCHANGED stamp

Ensure(h) ==
  /\ stamp = "active"
  /\ EnsureHit(h) \/ EnsureMiss(h)

(* drain() with max = 1, the only way the driver calls it.  The walk is in   *)
(* crc32 order, which the model leaves open: any eligible node may be the    *)
(* first.  Claiming does not touch last_seen.                                *)
Eligible(h) ==
  /\ h \in DOMAIN tree
  /\ tree[h].state \in {REQUESTED, FAILED}
  /\ tree[h].wait = 0

Drain(h) ==
  /\ stamp = "active"
  /\ Eligible(h)
  /\ tree' = [tree EXCEPT ![h].state = PENDING]
  /\ UNCHANGED <<stamp, count>>

(* set_state(): an error on a zone that is not active, nothing on an absent  *)
(* node; otherwise the node is rewritten and its idle clock restarted.       *)
Fails(node) == IF node.fails < FAIL_CAP THEN node.fails + 1 ELSE FAIL_CAP

Outcome(node, s, hold) ==
  IF s = FAILED
  THEN [state |-> s, idle |-> 0, fails |-> Fails(node),
        wait |-> IF hold = NoHold THEN Backoff(Fails(node)) ELSE hold]
  ELSE [state |-> s, idle |-> 0, fails |-> node.fails,
        wait |-> IF hold = NoHold THEN 0 ELSE hold]

SetStateOk == stamp = "active"

SetState(h, s, hold) ==
  /\ tree' = IF SetStateOk /\ h \in DOMAIN tree
             THEN [tree EXCEPT ![h] = Outcome(@, s, hold)]
             ELSE tree
  /\ UNCHANGED <<stamp, count>>

(* gc(): every node whose last_seen is more than TTL ago goes, a PENDING one *)
(* included.                                                                 *)
Idle == {h \in DOMAIN tree : tree[h].idle > TTL}

Evicted == IF stamp = "active" /\ TTL > 0 THEN Idle ELSE {}

(* MUTANT: the nodes go, sh->count stays. *)
Gc_KeepsCount ==
  /\ tree' = [h \in DOMAIN tree \ Evicted |-> tree[h]]
  /\ UNCHANGED <<stamp, count>>

Gc ==
  /\ tree' = [h \in DOMAIN tree \ Evicted |-> tree[h]]
  /\ count' = IF count >= Cardinality(Evicted)
              THEN count - Cardinality(Evicted) ELSE 0
  /\ UNCHANGED stamp

(* One unit of time passes. *)
Aged(node) ==
  [node EXCEPT !.idle = IF @ <= TTL THEN @ + 1 ELSE @,
               !.wait = IF @ > 0 THEN @ - 1 ELSE 0]

ReqTick ==
  /\ tree' = [h \in DOMAIN tree |-> Aged(tree[h])]
  /\ UNCHANGED <<stamp, count>>

(* nginx is stopped and started: the next master maps a zero-filled arena. *)
FreshArena ==
  /\ stamp' = "none"
  /\ tree' = Empty
  /\ count' = 0

ReqNext ==
  \/ \E owner \in BOOLEAN : InitZone(owner)
  \/ \E h \in Host : Ensure(h) \/ Drain(h)
  \/ \E h \in Host, s \in Stored, hold \in Holds : SetState(h, s, hold)
  \/ Gc
  \/ ReqTick
  \/ FreshArena

ReqSpec == ReqInit /\ [][ReqNext]_zone

-----------------------------------------------------------------------------
(* TYPE INVARIANT of the zone. *)
ReqTypeOK ==
  /\ stamp \in Stamps
  /\ DOMAIN tree \subseteq Host
  /\ \A h \in DOMAIN tree : tree[h] \in Node
  /\ count \in Nat

(* The cap is a real bound: sh->count is the number of nodes in the tree and *)
(* never passes NGX_AUTOCERT_REQUESTS_MAX, whatever ensure(), gc(), reloads  *)
(* and restarts do in whatever order.  A count that drifted up would deny    *)
(* hosts for ever, one that drifted down would let the table outgrow its     *)
(* arena.                                                                    *)
CountExact ==
  /\ IsFiniteSet(DOMAIN tree)
  /\ count = Cardinality(DOMAIN tree)
  /\ count <= REQUESTS_MAX
=============================================================================
