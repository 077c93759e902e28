------------------------------ MODULE OrderProofs ------------------------------
(***************************************************************************)
(* The flow of an order, for any number of orders, any kinds of them, any  *)
(* limits and any faults: exactly one thing carries a live order on,       *)
(* nothing points to a freed one, its answers are up while the CA looks    *)
(* and gone afterwards, and its driver is told exactly once.               *)
(***************************************************************************)
EXTENDS Order, FiniteSetTheorems, TLAPS

-----------------------------------------------------------------------------
(* TYPES                                                                    *)

States == {"none", "running", "killed"} \cup Dead
Ends == {"ok", "failed", "dropped", "died"}

EventType ==
  [k : Registration \cup {"directory", "post", "renonce", "orphan_timer"}
         \cup FlowTimers \cup HookTimers,
   o : 0 .. MaxOrders]

OrderType ==
  [id : Orders, mode : {"http", "alpn", "dns"}, rsa : BOOLEAN,
   runtime : BOOLEAN, done : BOOLEAN, set : BOOLEAN, dns_set : BOOLEAN,
   hook : {"none", "add", "remove"}, is_add : BOOLEAN,
   cleanup : BOOLEAN, after_authz : BOOLEAN, timed_out : BOOLEAN,
   mask : BOOLEAN, finish_rc : {"none", "ok", "failed"},
   poll_tries : 0 .. POLL_MAX + 1, order_poll_tries : 0 .. POLL_MAX + 1,
   finalize_retried : BOOLEAN, download_retried : BOOLEAN,
   cert_key : 0 .. MaxOrders]

PostType ==
  [k : {"none", "newOrder", "authz", "respond", "poll", "finalize",
        "orderPoll", "download"},
   o : Nat, retried : BOOLEAN, fresh : BOOLEAN]

AccountType ==
  [st : {"none", "registering", "ready"}, retried : BOOLEAN,
   nonce : {"none", "spent", "fresh"}, post : PostType]

KgType ==
  [busy : BOOLEAN, order : 0 .. MaxOrders, by : 0 .. MaxOrders,
   key : {"none", "ok", "failed"}]

(* The state as a handler passes it on. *)
StateType ==
  [ord : {NoOrder} \cup OrderType, pend : SUBSET EventType,
   acct : AccountType, kg : KgType, child : [Hooks -> States],
   masked : BOOLEAN, orphans : SUBSET Hooks, tokens : SUBSET Orders,
   alpn : 0 .. MaxOrders, cert : 0 .. MaxOrders,
   ended : [Orders -> {"unused"} \cup Ends], calls : [Orders -> Nat],
   frame : 0 .. MaxOrders, added : SUBSET Orders, tried : SUBSET Orders]

-----------------------------------------------------------------------------
(* THE INDUCTIVE INVARIANT, over a state c that a handler passes on         *)

FlowKinds == {"directory", "post", "renonce"} \cup FlowTimers \cup HookTimers

(* The events that belong to an order. *)
Flow(c) == {e \in c.pend : e.k \in FlowKinds}

(* The account has one registration under way or none, and a POST only when  *)
(* it is registered.                                                         *)
AccountInv(c) ==
  /\ \A e \in c.pend : e.k \in Registration =>
       /\ e.o = 0 /\ c.acct.st = "registering"
       /\ \A f \in c.pend : f.k \in Registration => f = e
  /\ \A e \in c.pend : e.k = "orphan_timer" => e.o = 0
  /\ c.acct.st # "ready" => c.acct.post = NoPost

(* The slot of the key thread. *)
KeyInv(c) == c.kg.order # 0 => c.kg.busy /\ c.kg.by = c.kg.order

(* Orders but the one that runs: an answer in shared memory is that of an    *)
(* order whose worker died; an order not yet started has nothing.            *)
OthersInv(c) ==
  \A o \in Orders : o # c.ord.id =>
    /\ c.ended[o] # "died" => o \notin c.tokens /\ c.alpn # o
    /\ c.ended[o] = "unused" =>
         c.child[<<o, "add">>] = "none" /\ c.child[<<o, "remove">>] = "none"
    /\ c.ended[o] \in {"ok", "failed"} /\ c.child[<<o, "add">>] # "none" =>
         o \in c.tried

(* The hooks of every order. *)
ChildInv(c) ==
  \A o \in Orders :
    /\ c.child[<<o, "remove">>] # "none" =>
         c.child[<<o, "add">>] \in {"none", "reaped"}
    /\ c.child[<<o, "add">>] = "exit0" => o \in c.added

FrameInv(c) ==
  c.frame # 0 => c.frame = c.ord.id \/ c.ended[c.frame] # "unused"

(* A cardinality, apart from the rest. *)
OrphanInv(c) == IsFiniteSet(c.orphans) /\ Cardinality(c.orphans) <= ORPHAN_MAX

World(c) ==
  /\ c \in StateType
  /\ AccountInv(c) /\ KeyInv(c) /\ OthersInv(c) /\ ChildInv(c) /\ FrameInv(c)
  /\ OrphanInv(c)

(* The order that runs, whatever it waits for. *)
AnswerInv(c) ==
  LET o == c.ord.id
  IN  /\ o \in c.tokens <=> c.ord.set /\ c.ord.mode = "http"
      /\ c.alpn = o <=> c.ord.set /\ c.ord.mode = "alpn"
      /\ c.ord.set => c.ord.mode # "dns"
      /\ c.ord.dns_set => c.ord.mode = "dns"

HookInv(c) ==
  LET add == c.child[<<c.ord.id, "add">>]
      remove == c.child[<<c.ord.id, "remove">>]
  IN  /\ add # "none" => c.ord.dns_set \/ c.ord.id \in c.tried
      /\ c.ord.hook = "add" => remove = "none"
      /\ c.ord.hook # "add" => add \in {"none", "reaped"}

OrderInv(c) ==
  /\ c.ord \in OrderType
  /\ c.acct.st = "ready"
  /\ AnswerInv(c) /\ HookInv(c)
  /\ c.ord.cert_key \in {0, c.ord.id}

(* The order is in the hands of a handler: nothing else will carry it on. *)
Alone(c) ==
  /\ World(c) /\ OrderInv(c)
  /\ c.ended[c.ord.id] = "unused"
  /\ Flow(c) = {} /\ c.kg.order = 0 /\ c.acct.post = NoPost
  /\ c.ord.hook = "none"

(* It has not begun to end. *)
Fresh(c) == ~c.ord.done /\ ~c.ord.cleanup /\ ~c.ord.after_authz

Held(c) == Alone(c) /\ Fresh(c)

(* It may still be polled for. *)
Trying(c) == c.ord.poll_tries <= POLL_MAX /\ c.ord.order_poll_tries <= POLL_MAX

Clean(c) == ~c.ord.set /\ ~c.ord.dns_set

Unhooked(c) ==
  c.child[<<c.ord.id, "add">>] = "none" /\ c.child[<<c.ord.id, "remove">>] = "none"

Published(c) ==
  IF c.ord.mode = "dns" THEN c.ord.dns_set /\ c.ord.id \in c.added
  ELSE c.ord.set

(* What has been published when a step of the flow is waited for. *)
Early == {"directory", "newOrder", "authz"}
Looking == {"respond", "poll", "poll_timer"}
Late == {"finalize", "orderPoll", "download", "order_timer"}

Stage(c, step) ==
  /\ step \in Early => Clean(c) /\ Unhooked(c)
  /\ step \in Looking => Published(c)
  /\ step = "delay_timer" => c.ord.mode = "dns" /\ Published(c)
  /\ step \in Late => Clean(c)

(* The order waits for the one event k, ... *)
Waits(c, k) ==
  /\ k \in {"directory", "post", "renonce"} \cup FlowTimers
  /\ Flow(c) = {Event(k, c.ord.id)}
  /\ c.kg.order = 0 /\ c.ord.hook = "none"
  /\ Fresh(c) /\ Trying(c)
  /\ IF k \in {"post", "renonce"}
     THEN /\ c.acct.post.o = c.ord.id
          /\ c.acct.post.k # "none" /\ Stage(c, c.acct.post.k)
          /\ k = "post" /\ c.acct.post.retried => c.acct.post.fresh
     ELSE c.acct.post = NoPost /\ Stage(c, k)

(* ... for its hook, ... *)
WaitsHook(c) ==
  /\ Event("hook_timer", c.ord.id) \in Flow(c)
  /\ Flow(c) \subseteq {Event(k, c.ord.id) : k \in HookTimers}
  /\ c.kg.order = 0 /\ c.acct.post = NoPost
  /\ ~c.ord.set /\ c.ord.dns_set
  /\ \/ /\ c.ord.hook = "add" /\ c.ord.is_add
        /\ Fresh(c) /\ Trying(c)
     \/ /\ c.ord.hook = "remove" /\ ~c.ord.is_add /\ c.ord.id \in c.tried
        /\ \/ /\ c.ord.after_authz /\ ~c.ord.cleanup
              /\ ~c.ord.done /\ Trying(c)
           \/ /\ c.ord.cleanup /\ ~c.ord.after_authz
              /\ c.ord.done /\ c.ord.finish_rc = "failed"

(* ... or for its key. *)
WaitsKey(c) ==
  /\ Flow(c) = {} /\ c.kg.order = c.ord.id /\ c.acct.post = NoPost
  /\ c.ord.hook = "none" /\ Clean(c)
  /\ Fresh(c) /\ Trying(c)

Running(c) ==
  /\ OrderInv(c)
  /\ c.ended[c.ord.id] = "unused"
  /\ (\E k : Waits(c, k)) \/ WaitsHook(c) \/ WaitsKey(c)

(* No order. *)
Free(c) ==
  c.ord = NoOrder /\ Flow(c) = {} /\ c.kg.order = 0 /\ c.acct.post = NoPost

FlowInv(c) == World(c) /\ (Running(c) \/ Free(c))

-----------------------------------------------------------------------------
(* FACTS ABOUT THE PIECES OF HANDLERS                                       *)

(* What c and v have in common but for their orders. *)
SameRest(c, v) ==
  /\ v.pend = c.pend /\ v.acct = c.acct /\ v.kg = c.kg /\ v.child = c.child
  /\ v.masked = c.masked /\ v.orphans = c.orphans /\ v.tokens = c.tokens
  /\ v.alpn = c.alpn /\ v.cert = c.cert /\ v.ended = c.ended
  /\ v.calls = c.calls /\ v.frame = c.frame /\ v.added = c.added
  /\ v.tried = c.tried

(* ... but for their events. *)
SameButPend(c, v) ==
  /\ v.ord = c.ord /\ v.acct = c.acct /\ v.kg = c.kg /\ v.child = c.child
  /\ v.masked = c.masked /\ v.orphans = c.orphans /\ v.tokens = c.tokens
  /\ v.alpn = c.alpn /\ v.cert = c.cert /\ v.ended = c.ended
  /\ v.calls = c.calls /\ v.frame = c.frame /\ v.added = c.added
  /\ v.tried = c.tried

(* A handler that returns leaves what it passes on. *)
LEMMA Returned ==
  ASSUME NEW r \in StateType, Return(r)
  PROVE  Now' = r
BY DEF StateType, Return, Now

(* The order of a state is replaced by another one. *)
LEMMA PutOrd ==
  ASSUME NEW c \in StateType, NEW q \in {NoOrder} \cup OrderType
  PROVE  LET v == [c EXCEPT !.ord = q]
         IN  v \in StateType /\ v.ord = q /\ SameRest(c, v)
BY DEF StateType, SameRest

(* So are its events. *)
LEMMA PutPend ==
  ASSUME NEW c \in StateType, NEW P \in SUBSET EventType
  PROVE  LET v == [c EXCEPT !.pend = P]
         IN  v \in StateType /\ v.pend = P /\ SameButPend(c, v)
BY DEF StateType, SameButPend

(* Timer adds one event of the order, DelTimers takes kinds of events away. *)
LEMMA TimerFacts ==
  ASSUME NEW c \in StateType, c.ord \in OrderType,
         NEW k \in FlowTimers \cup HookTimers
  PROVE  LET v == Timer(c, k)
         IN  /\ v \in StateType /\ SameButPend(c, v)
             /\ v.pend = c.pend \cup {Event(k, c.ord.id)}
<1>1. c.pend \cup {Event(k, c.ord.id)} \in SUBSET EventType
  BY DEF StateType, EventType, Event, OrderType, Orders
<1> QED BY <1>1, PutPend DEF Timer

(* DelTimers cancels the timers of the kinds ks, as order_del_timers does,   *)
(* and nothing else.                                                         *)
LEMMA DelTimersFacts ==
  ASSUME NEW c \in StateType, NEW ks
  PROVE  LET v == DelTimers(c, ks)
         IN  /\ v \in StateType /\ SameButPend(c, v)
             /\ v.pend = {e \in c.pend : e.k \notin ks}
<1>1. {e \in c.pend : e.k \notin ks} \in SUBSET EventType
  BY DEF StateType
<1> QED BY <1>1, PutPend DEF DelTimers

(* What unpublishing leaves of the answers, given that the flags tell which  *)
(* there are.                                                                *)
LEMMA UnpublishFacts ==
  ASSUME NEW c \in StateType, c.ord \in OrderType, AnswerInv(c)
  PROVE  LET v == unpublish(c)
         IN  /\ v \in StateType
             /\ v.ord = [c.ord EXCEPT !.set = FALSE, !.dns_set = FALSE]
             /\ v.tokens = c.tokens \ {c.ord.id}
             /\ v.alpn = (IF c.alpn = c.ord.id THEN 0 ELSE c.alpn)
             /\ v.pend = c.pend /\ v.acct = c.acct /\ v.kg = c.kg
             /\ v.child = c.child /\ v.masked = c.masked
             /\ v.orphans = c.orphans /\ v.cert = c.cert /\ v.ended = c.ended
             /\ v.calls = c.calls /\ v.frame = c.frame /\ v.added = c.added
             /\ v.tried = c.tried
<1> DEFINE q == [c.ord EXCEPT !.set = FALSE]
           u == [c.ord EXCEPT !.set = FALSE, !.dns_set = FALSE]
           z == [c.ord EXCEPT !.dns_set = FALSE]
           d == IF ~c.ord.set THEN c
                ELSE IF c.ord.mode = "http" THEN challenge_remove(c)
                ELSE alpn_remove(c)
           T == c.tokens \ {c.ord.id}
<1>1. /\ q \in OrderType /\ u \in OrderType /\ z \in OrderType
      /\ u = [q EXCEPT !.dns_set = FALSE] /\ (~c.ord.set => u = z)
  BY DEF OrderType
<1>2. T \in SUBSET Orders /\ 0 \in 0 .. MaxOrders
  BY OrderAssumption DEF StateType
<1>3. unpublish(c) = [d EXCEPT !.ord = [d.ord EXCEPT !.dns_set = FALSE]]
  BY DEF unpublish
<1> HIDE DEF q, u, z, T
<1>4. CASE ~c.ord.set
  <2>1. unpublish(c) = [c EXCEPT !.ord = u]
    BY <1>1, <1>3, <1>4 DEF z
  <2>2. T = c.tokens /\ c.alpn # c.ord.id
    BY <1>4 DEF T, AnswerInv
  <2> QED BY <1>1, <2>1, <2>2, PutOrd DEF SameRest, T, u
<1>5. CASE c.ord.set /\ c.ord.mode = "http"
  <2>1. d = [c EXCEPT !.tokens = T, !.ord = q]
    BY <1>5 DEF challenge_remove, q, T
  <2>2. unpublish(c) = [c EXCEPT !.tokens = T, !.ord = u]
    <3> HIDE DEF d
    <3> QED BY <1>1, <1>3, <2>1 DEF StateType
  <2>3. c.alpn # c.ord.id
    BY <1>5 DEF AnswerInv
  <2> HIDE DEF d
  <2> QED BY <1>1, <1>2, <2>2, <2>3 DEF StateType, T, u
<1>6. CASE c.ord.set /\ c.ord.mode = "alpn"
  <2>1. d = [c EXCEPT !.alpn = 0, !.ord = q]
    BY <1>6 DEF alpn_remove, q
  <2>2. unpublish(c) = [c EXCEPT !.alpn = 0, !.ord = u]
    <3> HIDE DEF d
    <3> QED BY <1>1, <1>3, <2>1 DEF StateType
  <2>3. c.alpn = c.ord.id /\ T = c.tokens
    BY <1>6 DEF AnswerInv, T
  <2> HIDE DEF d
  <2> QED BY <1>1, <1>2, <2>2, <2>3 DEF StateType, T, u
<1> QED BY <1>4, <1>5, <1>6 DEF AnswerInv, OrderType

(* A hook is started: its child runs, it is polled, it has a deadline. *)
LEMMA HookFacts ==
  ASSUME NEW c \in StateType, c.ord \in OrderType, NEW h \in {"add", "remove"}
  PROVE  LET v == dns_hook(c, h)
         IN  /\ v \in StateType
             /\ v.ord = [c.ord EXCEPT !.mask = c.masked, !.hook = h,
                                      !.is_add = (h = "add"),
                                      !.timed_out = FALSE]
             /\ v.pend = c.pend \cup {Event("hook_timer", c.ord.id),
                                      Event("deadline_timer", c.ord.id)}
             /\ v.child = [c.child EXCEPT ![<<c.ord.id, h>>] = "running"]
             /\ v.acct = c.acct /\ v.kg = c.kg
             /\ v.orphans = c.orphans /\ v.tokens = c.tokens
             /\ v.alpn = c.alpn /\ v.cert = c.cert /\ v.ended = c.ended
             /\ v.calls = c.calls /\ v.frame = c.frame /\ v.added = c.added
             /\ v.tried = c.tried
<1> DEFINE q == [c.ord EXCEPT !.mask = c.masked, !.hook = h,
                              !.is_add = (h = "add"), !.timed_out = FALSE]
           K == [c.child EXCEPT ![<<c.ord.id, h>>] = "running"]
           M == platform = "posix"
           d == [dns_hook_spawn(c, h) EXCEPT !.ord.hook = h,
                                             !.ord.is_add = (h = "add"),
                                             !.ord.timed_out = FALSE]
           b == [c EXCEPT !.child = K, !.ord = q, !.masked = M]
<1>1. q \in OrderType /\ q.id = c.ord.id
  BY DEF OrderType, StateType
<1>2. K \in [Hooks -> States]
  BY DEF StateType, States
<1>3. d = b
  BY DEF dns_hook_spawn, StateType, OrderType
<1>4. dns_hook(c, h) = Timer(Timer(b, "hook_timer"), "deadline_timer")
  BY <1>3 DEF dns_hook
<1> HIDE DEF q, K, M, d
<1>5. /\ b \in StateType /\ b.ord = q /\ b.child = K /\ b.pend = c.pend
      /\ b.acct = c.acct /\ b.kg = c.kg
      /\ b.orphans = c.orphans /\ b.tokens = c.tokens
      /\ b.alpn = c.alpn /\ b.cert = c.cert /\ b.ended = c.ended
      /\ b.calls = c.calls /\ b.frame = c.frame /\ b.added = c.added
      /\ b.tried = c.tried
  <2>1. M \in BOOLEAN
    BY DEF M
  <2> QED BY <1>1, <1>2, <2>1 DEF StateType
<1> HIDE DEF b
<1> DEFINE t == Timer(b, "hook_timer")
<1>6. /\ t \in StateType /\ SameButPend(b, t)
      /\ t.pend = c.pend \cup {Event("hook_timer", c.ord.id)}
  BY <1>1, <1>5, TimerFacts DEF HookTimers
<1> HIDE DEF t
<1> DEFINE v == Timer(t, "deadline_timer")
<1>7. /\ v \in StateType /\ SameButPend(t, v)
      /\ v.pend = t.pend \cup {Event("deadline_timer", c.ord.id)}
  BY <1>1, <1>5, <1>6, TimerFacts DEF HookTimers, SameButPend
<1>8. dns_hook(c, h) = v
  BY <1>4 DEF t
<1> HIDE DEF v
<1> QED BY <1>5, <1>6, <1>7, <1>8 DEF SameButPend, q, K

(* A hook that is left behind: its child may be killed or reaped, and the    *)
(* table of orphans is never overdrawn.                                      *)
LEMMA OrphanFacts ==
  ASSUME NEW c \in StateType, c.ord \in OrderType, OrphanInv(c)
  PROVE  LET v == orphan_hook(c)
         IN  /\ v \in StateType /\ OrphanInv(v)
             /\ v.ord = [c.ord EXCEPT !.hook = "none"]
             /\ v.pend \in {c.pend, c.pend \cup {Event("orphan_timer", 0)}}
             /\ c.ord.hook = "none" => v.child = c.child
             /\ \A x \in Hooks : x # <<c.ord.id, c.ord.hook>> =>
                  v.child[x] = c.child[x]
             /\ v.child[<<c.ord.id, "add">>] \in
                  {c.child[<<c.ord.id, "add">>], "killed", "reaped"}
             /\ v.acct = c.acct /\ v.kg = c.kg
             /\ v.tokens = c.tokens
             /\ v.alpn = c.alpn /\ v.cert = c.cert /\ v.ended = c.ended
             /\ v.calls = c.calls /\ v.frame = c.frame /\ v.added = c.added
             /\ v.tried = c.tried
<1> DEFINE p == <<c.ord.id, c.ord.hook>>
           q == [c.ord EXCEPT !.hook = "none"]
           K == [c.child EXCEPT ![p] = Killed(@)]
           k == [c EXCEPT !.child[p] = Killed(@), !.ord.hook = "none"]
           k1 == [c EXCEPT !.child = K, !.ord = q]
           E == Event("orphan_timer", 0)
<1>1. q \in OrderType
  BY DEF OrderType
<1>2. c.child \in [Hooks -> States] /\ K \in [Hooks -> States]
  BY DEF StateType, States, Killed, Dead
<1>3. CASE c.ord.hook = "none"
  <2>1. orphan_hook(c) = c /\ q = c.ord
    BY <1>3 DEF orphan_hook, OrderType
  <2> QED BY <2>1, <1>3 DEF StateType
<1>4. CASE c.ord.hook # "none"
  <2>1. p \in Hooks
    BY <1>4 DEF OrderType, Hooks
  <2>2. \A x \in Hooks : x # p => K[x] = c.child[x]
    BY <1>2
  <2>3. K[p] \in {c.child[p], "killed"}
    BY <1>2, <2>1 DEF Killed
  <2>4. k = k1
    OBVIOUS
  <2>5. CASE platform = "win32"
    <3> DEFINE J == [K EXCEPT ![p] = "reaped"]
    <3>1. orphan_hook(c) = [k1 EXCEPT !.child[p] = "reaped"]
      BY <1>4, <2>4, <2>5 DEF orphan_hook
    <3>2. J \in [Hooks -> States] /\ \A x \in Hooks : x # p => J[x] = c.child[x]
      BY <1>2, <2>2 DEF States, Dead
    <3>3. J[<<c.ord.id, "add">>] \in
            {c.child[<<c.ord.id, "add">>], "killed", "reaped"}
      BY <1>2, <2>1, <2>2 DEF Hooks, OrderType
    <3> HIDE DEF q, K, p, k
    <3>4. orphan_hook(c) = [c EXCEPT !.child = J, !.ord = q]
      BY <3>1 DEF StateType
    <3> HIDE DEF J
    <3> QED BY <1>1, <1>4, <3>2, <3>3, <3>4 DEF StateType, q, p, OrphanInv
  <2>6. CASE platform # "win32" /\ Cardinality(c.orphans) < ORPHAN_MAX
    <3> DEFINE O == c.orphans \cup {p}
               P == c.pend \cup {E}
    <3>1. orphan_hook(c) = [k1 EXCEPT !.orphans = @ \cup {p},
                                      !.pend = @ \cup {E}]
      BY <1>4, <2>4, <2>6 DEF orphan_hook
    <3>2. P \in SUBSET EventType
      BY OrderAssumption DEF StateType, EventType, Event
    <3>3. O \in SUBSET Hooks
      BY <2>1 DEF StateType
    <3>4. IsFiniteSet(O) /\ Cardinality(O) <= ORPHAN_MAX
      <4>1. IsFiniteSet(c.orphans) /\ Cardinality(c.orphans) \in Nat
        BY FS_CardinalityType DEF OrphanInv
      <4>2. /\ IsFiniteSet(O)
            /\ Cardinality(O) = IF p \in c.orphans THEN Cardinality(c.orphans)
                                ELSE Cardinality(c.orphans) + 1
        BY <4>1, FS_AddElement
      <4>3. ORPHAN_MAX \in Nat
        BY OrderAssumption
      <4> QED BY <2>6, <4>1, <4>2, <4>3
    <3>5. K[<<c.ord.id, "add">>] \in
            {c.child[<<c.ord.id, "add">>], "killed", "reaped"}
      BY <2>1, <2>2, <2>3 DEF Hooks, OrderType
    <3> HIDE DEF q, K, p, k, E
    <3>6. orphan_hook(c) = [c EXCEPT !.child = K, !.ord = q, !.orphans = O,
                                     !.pend = P]
      BY <3>1 DEF StateType
    <3> HIDE DEF O
    <3>7. P = c.pend \cup {Event("orphan_timer", 0)}
      BY DEF E
    <3> HIDE DEF P
    <3> QED BY <1>1, <1>2, <1>4, <2>2, <3>2, <3>3, <3>4, <3>5, <3>6, <3>7
        DEF StateType, q, p, OrphanInv
  <2>7. CASE platform # "win32" /\ ~(Cardinality(c.orphans) < ORPHAN_MAX)
    <3> DEFINE J == [K EXCEPT ![p] = IF @ \in Dead THEN "reaped" ELSE @]
    <3>1. orphan_hook(c) =
            [k1 EXCEPT !.child[p] = IF @ \in Dead THEN "reaped" ELSE @]
      BY <1>4, <2>4, <2>7 DEF orphan_hook
    <3>2. J \in [Hooks -> States] /\ \A x \in Hooks : x # p => J[x] = c.child[x]
      BY <1>2, <2>2 DEF States, Dead
    <3>3. J[<<c.ord.id, "add">>] \in
            {c.child[<<c.ord.id, "add">>], "killed", "reaped"}
      BY <1>2, <2>1, <2>2, <2>3 DEF Hooks, OrderType
    <3> HIDE DEF q, K, p, k
    <3>4. orphan_hook(c) = [c EXCEPT !.child = J, !.ord = q]
      BY <3>1 DEF StateType
    <3> HIDE DEF J
    <3> QED BY <1>1, <1>4, <3>2, <3>3, <3>4 DEF StateType, q, p, OrphanInv
  <2> QED BY <2>5, <2>6, <2>7
<1> QED BY <1>3, <1>4

(* The key thread forgets the order. *)
LEMMA AbandonFacts ==
  ASSUME NEW c \in StateType, c.ord \in OrderType, KeyInv(c),
         c.kg.order \in {0, c.ord.id}
  PROVE  LET v == keygen_abandon(c)
         IN  /\ v \in StateType /\ v.kg.order = 0
             /\ v.ord = c.ord /\ v.pend = c.pend /\ v.acct = c.acct
             /\ v.child = c.child /\ v.orphans = c.orphans
             /\ v.tokens = c.tokens
             /\ v.alpn = c.alpn /\ v.cert = c.cert /\ v.ended = c.ended
             /\ v.calls = c.calls /\ v.frame = c.frame /\ v.added = c.added
             /\ v.tried = c.tried
<1> DEFINE g == [c.kg EXCEPT !.order = 0]
<1>1. g \in KgType /\ g.order = 0
  BY OrderAssumption DEF StateType, KgType
<1> HIDE DEF g
<1>2. CASE c.kg.busy /\ c.kg.order = c.ord.id
  <2>1. keygen_abandon(c) = [c EXCEPT !.kg = g]
    BY <1>2 DEF keygen_abandon, g
  <2> QED BY <1>1, <2>1 DEF StateType
<1>3. CASE ~(c.kg.busy /\ c.kg.order = c.ord.id)
  BY <1>3 DEF keygen_abandon, KeyInv, OrderType, Orders
<1> QED BY <1>2, <1>3

(* The conditions under which an order may be freed: requests are no longer  *)
(* under way for it.                                                         *)
Freeable(c) ==
  /\ c \in StateType /\ c.ord \in OrderType
  /\ AnswerInv(c) /\ OrphanInv(c) /\ KeyInv(c)
  /\ c.kg.order \in {0, c.ord.id}
  /\ \A e \in c.pend : e.k \notin {"directory", "post", "renonce"}

(* What is left when the order has been freed. *)
LEMMA FreeFacts ==
  ASSUME NEW c, Freeable(c)
  PROVE  LET v == order_free(c)
         IN  /\ v \in StateType /\ OrphanInv(v)
             /\ v.ord = NoOrder /\ Flow(v) = {} /\ v.kg.order = 0
             /\ v.pend \subseteq c.pend \cup {Event("orphan_timer", 0)}
             /\ c.ord.hook = "none" => v.child = c.child
             /\ \A x \in Hooks : x # <<c.ord.id, c.ord.hook>> =>
                  v.child[x] = c.child[x]
             /\ v.child[<<c.ord.id, "add">>] \in
                  {c.child[<<c.ord.id, "add">>], "killed", "reaped"}
             /\ v.tokens = c.tokens \ {c.ord.id}
             /\ v.alpn = (IF c.alpn = c.ord.id THEN 0 ELSE c.alpn)
             /\ v.acct = c.acct /\ v.cert = c.cert /\ v.ended = c.ended
             /\ v.calls = c.calls /\ v.frame = c.frame /\ v.added = c.added
             /\ v.tried = c.tried
<1> DEFINE a == orphan_hook(c)
<1>1. /\ a \in StateType /\ OrphanInv(a)
      /\ a.ord = [c.ord EXCEPT !.hook = "none"]
      /\ a.pend \in {c.pend, c.pend \cup {Event("orphan_timer", 0)}}
      /\ c.ord.hook = "none" => a.child = c.child
      /\ \A x \in Hooks : x # <<c.ord.id, c.ord.hook>> =>
           a.child[x] = c.child[x]
      /\ a.child[<<c.ord.id, "add">>] \in
           {c.child[<<c.ord.id, "add">>], "killed", "reaped"}
      /\ a.acct = c.acct /\ a.kg = c.kg /\ a.tokens = c.tokens
      /\ a.alpn = c.alpn /\ a.cert = c.cert /\ a.ended = c.ended
      /\ a.calls = c.calls /\ a.frame = c.frame /\ a.added = c.added
      /\ a.tried = c.tried
  BY OrphanFacts DEF Freeable
<1> HIDE DEF a
<1> DEFINE b == DelTimers(a, HookTimers)
<1>2. /\ b \in StateType /\ SameButPend(a, b)
      /\ b.pend = {e \in a.pend : e.k \notin HookTimers}
  BY <1>1, DelTimersFacts
<1> HIDE DEF b
<1>3. /\ b.ord \in OrderType /\ b.ord.id = c.ord.id /\ AnswerInv(b)
      /\ b.kg = c.kg /\ KeyInv(b)
  BY <1>1, <1>2 DEF Freeable, SameButPend, OrderType, AnswerInv, KeyInv
<1> DEFINE d == unpublish(b)
<1>4. /\ d \in StateType
      /\ d.ord = [b.ord EXCEPT !.set = FALSE, !.dns_set = FALSE]
      /\ d.tokens = b.tokens \ {b.ord.id}
      /\ d.alpn = (IF b.alpn = b.ord.id THEN 0 ELSE b.alpn)
      /\ d.pend = b.pend /\ d.acct = b.acct /\ d.kg = b.kg
      /\ d.child = b.child /\ d.orphans = b.orphans /\ d.cert = b.cert
      /\ d.ended = b.ended /\ d.calls = b.calls /\ d.frame = b.frame
      /\ d.added = b.added /\ d.tried = b.tried
  BY <1>2, <1>3, UnpublishFacts
<1> HIDE DEF d
<1> DEFINE f == DelTimers(d, FlowTimers)
<1>5. /\ f \in StateType /\ SameButPend(d, f)
      /\ f.pend = {e \in d.pend : e.k \notin FlowTimers}
  BY <1>4, DelTimersFacts
<1> HIDE DEF f
<1>6. /\ f.ord \in OrderType /\ f.ord.id = c.ord.id /\ f.kg = c.kg /\ KeyInv(f)
  <2>1. d.ord \in OrderType /\ d.ord.id = c.ord.id
    BY <1>3, <1>4 DEF OrderType
  <2>2. f.ord = d.ord /\ f.kg = b.kg
    BY <1>4, <1>5 DEF SameButPend
  <2> QED BY <1>3, <2>1, <2>2 DEF KeyInv
<1> DEFINE g == keygen_abandon(f)
<1>7. /\ g \in StateType /\ g.kg.order = 0
      /\ g.pend = f.pend /\ g.acct = f.acct
      /\ g.child = f.child /\ g.orphans = f.orphans /\ g.tokens = f.tokens
      /\ g.alpn = f.alpn /\ g.cert = f.cert /\ g.ended = f.ended
      /\ g.calls = f.calls /\ g.frame = f.frame /\ g.added = f.added
      /\ g.tried = f.tried
  BY <1>5, <1>6, AbandonFacts DEF Freeable
<1>8. order_free(c) = [g EXCEPT !.ord = NoOrder]
  BY DEF order_free, a, b, d, f
<1> HIDE DEF g
<1> DEFINE v == [g EXCEPT !.ord = NoOrder]
<1>9. v \in StateType /\ v.ord = NoOrder /\ SameRest(g, v)
  BY <1>7, PutOrd
<1> HIDE DEF v
<1>10. v.pend = {e \in a.pend : e.k \notin HookTimers /\ e.k \notin FlowTimers}
  BY <1>2, <1>4, <1>5, <1>7, <1>9 DEF SameRest
<1>11. Flow(v) = {}
  BY <1>1, <1>10 DEF Flow, FlowKinds, FlowTimers, HookTimers, Event, Freeable
<1>12. OrphanInv(v)
  BY <1>1, <1>2, <1>4, <1>5, <1>7, <1>9 DEF SameRest, SameButPend, OrphanInv
<1>13. v.pend \subseteq c.pend \cup {Event("orphan_timer", 0)}
  BY <1>1, <1>10
<1>14. /\ v.child = a.child /\ v.tokens = c.tokens \ {c.ord.id}
       /\ v.alpn = (IF c.alpn = c.ord.id THEN 0 ELSE c.alpn)
       /\ v.acct = c.acct /\ v.cert = c.cert /\ v.ended = c.ended
       /\ v.calls = c.calls /\ v.frame = c.frame /\ v.added = c.added
       /\ v.tried = c.tried /\ v.kg.order = 0
  BY <1>1, <1>2, <1>3, <1>4, <1>5, <1>7, <1>9 DEF SameRest, SameButPend
<1>15. order_free(c) = v
  BY <1>8 DEF v
<1> HIDE DEF order_free
<1> QED BY <1>1, <1>9, <1>11, <1>12, <1>13, <1>14, <1>15

-----------------------------------------------------------------------------
(* WHAT A HANDLER LEAVES                                                    *)

(* To the driver nothing has happened, ... *)
Quiet(c, v) ==
  /\ v.ord.id = c.ord.id /\ v.ended = c.ended /\ v.calls = c.calls
  /\ v.cert = c.cert

(* The certificates the end of order o may leave where there was old: after  *)
(* a failure, the new one is there if only the last fsync failed.            *)
Left(rc, o, old) == IF rc = "ok" THEN {o} ELSE {old, o}

(* ... or the order has ended and the driver was told; if it was told of     *)
(* success, the certificate is that of the order.                            *)
Ending(c, v) ==
  /\ c.ord.id \in Orders /\ v.ord = NoOrder
  /\ \E rc \in {"ok", "failed"} :
       /\ v.ended = [c.ended EXCEPT ![c.ord.id] = rc]
       /\ v.calls = [c.calls EXCEPT ![c.ord.id] = @ + 1]
       /\ v.cert \in Left(rc, c.ord.id, c.cert)

(* A handler that began with c has kept the invariant. *)
Keeps(c) ==
  /\ FlowInv(Now')
  /\ Quiet(c, Now') \/ Ending(c, Now')
  /\ UNCHANGED <<platform, keyfile, counted, uaf>>

(* It has if what it returns has. *)
LEMMA ReturnKeeps ==
  ASSUME NEW c, NEW r, Return(r), FlowInv(r), Quiet(c, r) \/ Ending(c, r)
  PROVE  Keeps(c)
<1>1. Now' = r
  BY Returned DEF FlowInv, World
<1> QED BY <1>1 DEF Keeps, Return

(* Handlers compose. *)
LEMMA KeepsOn ==
  ASSUME NEW c, NEW d, Quiet(c, d), Keeps(d)
  PROVE  Keeps(c)
BY DEF Quiet, Ending, Keeps

(* An order that ends.  For a successful end c has its certificate. *)
LEMMA CompleteKeeps ==
  ASSUME NEW c, Alone(c), ~c.ord.dns_set,
         NEW rc \in {"ok", "failed"}, NEW b, b.ord.id = c.ord.id,
         b.ended = c.ended, b.calls = c.calls,
         c.cert \in Left(rc, c.ord.id, b.cert),
         Complete(c, rc)
  PROVE  Keeps(b)
<1> USE DEF Alone
<1> DEFINE E == [c.ended EXCEPT ![c.ord.id] = rc]
           C == [c.calls EXCEPT ![c.ord.id] = @ + 1]
           d == [c EXCEPT !.ended = E, !.calls = C]
           v == order_free(d)
<1>1. Return(v)
  BY DEF Complete
<1>2. /\ c \in StateType /\ c.ord \in OrderType /\ c.ord.id \in Orders
      /\ c.ended \in [Orders -> {"unused"} \cup Ends]
      /\ c.calls \in [Orders -> Nat] /\ c.child \in [Hooks -> States]
  BY DEF World, OrderInv, OrderType, StateType
<1>3. /\ E \in [Orders -> {"unused"} \cup Ends] /\ C \in [Orders -> Nat]
      /\ \A o \in Orders : o # c.ord.id => E[o] = c.ended[o]
      /\ E[c.ord.id] = rc
  BY <1>2 DEF Ends
<1> HIDE DEF E, C
<1>4. /\ d \in StateType /\ d.ended = E /\ d.calls = C
      /\ d.ord = c.ord /\ d.pend = c.pend /\ d.acct = c.acct /\ d.kg = c.kg
      /\ d.child = c.child /\ d.orphans = c.orphans
      /\ d.tokens = c.tokens /\ d.alpn = c.alpn /\ d.cert = c.cert
      /\ d.frame = c.frame /\ d.added = c.added /\ d.tried = c.tried
  BY <1>2, <1>3 DEF StateType
<1> HIDE DEF d
<1>5. Freeable(d)
  BY <1>2, <1>4 DEF Freeable, World, OrderInv, AnswerInv, OrphanInv, KeyInv,
                    Flow, FlowKinds
<1>6. /\ v \in StateType /\ OrphanInv(v)
      /\ v.ord = NoOrder /\ Flow(v) = {} /\ v.kg.order = 0
      /\ v.pend \subseteq c.pend \cup {Event("orphan_timer", 0)}
      /\ v.child = c.child
      /\ v.tokens = c.tokens \ {c.ord.id}
      /\ v.alpn = (IF c.alpn = c.ord.id THEN 0 ELSE c.alpn)
      /\ v.acct = c.acct /\ v.cert = c.cert /\ v.ended = E
      /\ v.calls = C /\ v.frame = c.frame /\ v.added = c.added
      /\ v.tried = c.tried
  <2>1. /\ v \in StateType /\ OrphanInv(v)
        /\ v.ord = NoOrder /\ Flow(v) = {} /\ v.kg.order = 0
        /\ v.pend \subseteq d.pend \cup {Event("orphan_timer", 0)}
        /\ d.ord.hook = "none" => v.child = d.child
        /\ v.tokens = d.tokens \ {d.ord.id}
        /\ v.alpn = (IF d.alpn = d.ord.id THEN 0 ELSE d.alpn)
        /\ v.acct = d.acct /\ v.cert = d.cert /\ v.ended = d.ended
        /\ v.calls = d.calls /\ v.frame = d.frame /\ v.added = d.added
        /\ v.tried = d.tried
    BY <1>5, FreeFacts
  <2> HIDE DEF v
  <2> QED BY <1>4, <2>1
<1> HIDE DEF v
<1>7. AccountInv(v)
  BY <1>6 DEF World, AccountInv, Event, Registration
<1>8. OthersInv(v)
  <2> SUFFICES ASSUME NEW o \in Orders
               PROVE /\ v.ended[o] # "died" => o \notin v.tokens /\ v.alpn # o
                     /\ v.ended[o] = "unused" =>
                          /\ v.child[<<o, "add">>] = "none"
                          /\ v.child[<<o, "remove">>] = "none"
                     /\ v.ended[o] \in {"ok", "failed"}
                          /\ v.child[<<o, "add">>] # "none" => o \in v.tried
    BY DEF OthersInv
  <2>1. CASE o = c.ord.id
    BY <1>2, <1>3, <1>6, <2>1 DEF OrderInv, HookInv, Orders
  <2>2. CASE o # c.ord.id
    BY <1>3, <1>6, <2>2 DEF World, OthersInv, Orders
  <2> QED BY <2>1, <2>2
<1>9. ChildInv(v)
  BY <1>6 DEF World, ChildInv
<1>10. FrameInv(v)
  BY <1>2, <1>3, <1>6 DEF World, FrameInv, StateType, Orders
<1>11. FlowInv(v)
  BY <1>6, <1>7, <1>8, <1>9, <1>10 DEF FlowInv, World, KeyInv, Free
<1>12. Ending(b, v)
  BY <1>2, <1>6 DEF Ending, E, C
<1> QED BY <1>1, <1>11, <1>12, ReturnKeeps

(* The order is changed in what its events and answers do not depend on. *)
LEMMA OrdAlone ==
  ASSUME NEW c, Alone(c), NEW q \in OrderType, q.id = c.ord.id,
         q.mode = c.ord.mode, q.set = c.ord.set, q.dns_set = c.ord.dns_set,
         q.hook = "none", q.cert_key \in {0, c.ord.id}
  PROVE  LET v == [c EXCEPT !.ord = q]
         IN  Alone(v) /\ v.ord = q /\ SameRest(c, v) /\ Quiet(c, v)
<1> DEFINE v == [c EXCEPT !.ord = q]
<1>1. v \in StateType /\ v.ord = q /\ SameRest(c, v)
  BY PutOrd DEF Alone, World
<1> HIDE DEF v
<1>2. World(v)
  BY <1>1 DEF Alone, World, SameRest, AccountInv, KeyInv, OthersInv, ChildInv,
              FrameInv, OrphanInv
<1>3. AnswerInv(v) /\ HookInv(v) /\ OrderInv(v)
  BY <1>1 DEF Alone, OrderInv, AnswerInv, HookInv, SameRest
<1>4. Alone(v) /\ Quiet(c, v)
  BY <1>1, <1>2, <1>3 DEF Alone, Flow, SameRest, Quiet
<1> QED BY <1>1, <1>4 DEF v

(* The remove hook is called for. *)
LEMMA RemovingAlone ==
  ASSUME NEW c, Alone(c)
  PROVE  LET v == Removing(c)
         IN  /\ Alone(v) /\ v.ord = c.ord /\ v.ord.id \in v.tried
             /\ v.child = c.child /\ v.added = c.added /\ Quiet(c, v)
<1> DEFINE T == c.tried \cup {c.ord.id}
           v == [c EXCEPT !.tried = T]
<1>1. Removing(c) = v
  BY DEF Removing
<1>2. T \in SUBSET Orders /\ c.tried \subseteq T /\ c.ord.id \in T
  BY DEF Alone, World, OrderInv, StateType, OrderType
<1> HIDE DEF T
<1>3. /\ v \in StateType /\ v.tried = T
      /\ v.ord = c.ord /\ v.pend = c.pend /\ v.acct = c.acct /\ v.kg = c.kg
      /\ v.child = c.child /\ v.orphans = c.orphans
      /\ v.tokens = c.tokens /\ v.alpn = c.alpn /\ v.cert = c.cert
      /\ v.ended = c.ended /\ v.calls = c.calls
      /\ v.frame = c.frame /\ v.added = c.added
  BY <1>2 DEF Alone, World, StateType
<1> HIDE DEF v
<1>4. World(v)
  BY <1>2, <1>3 DEF Alone, World, AccountInv, KeyInv, OthersInv, ChildInv,
                    FrameInv, OrphanInv
<1>5. OrderInv(v)
  BY <1>2, <1>3 DEF Alone, OrderInv, AnswerInv, HookInv
<1> QED BY <1>1, <1>2, <1>3, <1>4, <1>5 DEF Alone, Flow, Quiet

(* The answers are taken back. *)
LEMMA UnpublishAlone ==
  ASSUME NEW c, Alone(c),
         c.child[<<c.ord.id, "add">>] # "none" => c.ord.id \in c.tried
  PROVE  LET v == unpublish(c)
         IN  /\ Alone(v) /\ Clean(v) /\ Quiet(c, v)
             /\ v.ord = [c.ord EXCEPT !.set = FALSE, !.dns_set = FALSE]
             /\ v.child = c.child
<1> DEFINE v == unpublish(c)
           q == [c.ord EXCEPT !.set = FALSE, !.dns_set = FALSE]
<1>1. /\ v \in StateType
      /\ v.ord = [c.ord EXCEPT !.set = FALSE, !.dns_set = FALSE]
      /\ v.tokens = c.tokens \ {c.ord.id}
      /\ v.alpn = (IF c.alpn = c.ord.id THEN 0 ELSE c.alpn)
      /\ v.pend = c.pend /\ v.acct = c.acct /\ v.kg = c.kg
      /\ v.child = c.child /\ v.orphans = c.orphans /\ v.cert = c.cert
      /\ v.ended = c.ended /\ v.calls = c.calls /\ v.frame = c.frame
      /\ v.added = c.added /\ v.tried = c.tried
  BY UnpublishFacts DEF Alone, World, OrderInv
<1>2. /\ q \in OrderType /\ q.id = c.ord.id /\ ~q.set /\ ~q.dns_set
      /\ q.hook = c.ord.hook /\ q.cert_key = c.ord.cert_key
      /\ c.ord.id \in Orders
  BY DEF Alone, OrderInv, OrderType
<1> HIDE DEF v, q
<1>3. v.ord = q
  BY <1>1 DEF q
<1>4. World(v)
  BY <1>1, <1>2, <1>3 DEF Alone, World, AccountInv, KeyInv, OthersInv,
                          ChildInv, FrameInv, OrphanInv, Orders
<1>5. OrderInv(v)
  BY <1>1, <1>2, <1>3 DEF Alone, OrderInv, AnswerInv, HookInv, Orders
<1>6. Alone(v) /\ Clean(v) /\ Quiet(c, v)
  BY <1>1, <1>2, <1>3, <1>4, <1>5 DEF Alone, Flow, Quiet, Clean
<1> QED BY <1>1, <1>6 DEF v

(* What a hook may be started for. *)
HookReason(c, h) ==
  /\ c.ord.dns_set
  /\ \/ h = "add" /\ Fresh(c) /\ Trying(c) /\ Unhooked(c)
     \/ /\ h = "remove" /\ c.ord.id \in c.tried
        /\ \/ c.ord.after_authz /\ ~c.ord.cleanup /\ ~c.ord.done /\ Trying(c)
           \/ /\ c.ord.cleanup /\ ~c.ord.after_authz
              /\ c.ord.done /\ c.ord.finish_rc = "failed"

(* The order waits for its hook. *)
LEMMA HookLeaves ==
  ASSUME NEW c, Alone(c), NEW h \in {"add", "remove"}, HookReason(c, h)
  PROVE  FlowInv(dns_hook(c, h)) /\ Quiet(c, dns_hook(c, h))
<1> DEFINE v == dns_hook(c, h)
           q == [c.ord EXCEPT !.mask = c.masked, !.hook = h,
                              !.is_add = (h = "add"), !.timed_out = FALSE]
           i == c.ord.id
<1>1. /\ c \in StateType /\ c.ord \in OrderType /\ i \in Orders
      /\ c.child \in [Hooks -> States] /\ ~c.ord.set /\ c.ord.mode = "dns"
  BY DEF Alone, World, OrderInv, AnswerInv, OrderType, StateType, HookReason
<1>2. /\ v \in StateType /\ v.ord = q
      /\ v.pend = c.pend \cup {Event("hook_timer", i),
                               Event("deadline_timer", i)}
      /\ v.child = [c.child EXCEPT ![<<i, h>>] = "running"]
      /\ v.acct = c.acct /\ v.kg = c.kg
      /\ v.orphans = c.orphans /\ v.tokens = c.tokens
      /\ v.alpn = c.alpn /\ v.cert = c.cert /\ v.ended = c.ended
      /\ v.calls = c.calls /\ v.frame = c.frame /\ v.added = c.added
      /\ v.tried = c.tried
  BY <1>1, HookFacts
<1>3. /\ q \in OrderType /\ q.id = i /\ q.hook = h /\ q.is_add = (h = "add")
      /\ q.set = c.ord.set /\ q.dns_set = c.ord.dns_set
      /\ q.mode = c.ord.mode /\ q.done = c.ord.done
      /\ q.cleanup = c.ord.cleanup /\ q.after_authz = c.ord.after_authz
      /\ q.finish_rc = c.ord.finish_rc /\ q.cert_key = c.ord.cert_key
      /\ q.poll_tries = c.ord.poll_tries
      /\ q.order_poll_tries = c.ord.order_poll_tries
  BY <1>1 DEF OrderType, StateType
<1> HIDE DEF v, q, i
<1>4. /\ \A x \in Hooks : x # <<i, h>> => v.child[x] = c.child[x]
      /\ v.child[<<i, h>>] = "running"
  BY <1>1, <1>2 DEF Hooks
<1>5. ChildInv(v) /\ HookInv(v)
  <2>1. \A o \in Orders : <<o, "add">> \in Hooks /\ <<o, "remove">> \in Hooks
    BY DEF Hooks
  <2>2. ChildInv(c) /\ HookInv(c) /\ c.ord.hook = "none" /\ c.ord.id = i
    BY DEF Alone, World, OrderInv, i
  <2>3. CASE h = "add"
    BY <1>1, <1>2, <1>3, <1>4, <2>1, <2>2, <2>3
       DEF ChildInv, HookInv, HookReason, Unhooked
  <2>4. CASE h = "remove"
    BY <1>1, <1>2, <1>3, <1>4, <2>1, <2>2, <2>4
       DEF ChildInv, HookInv, HookReason
  <2> QED BY <2>3, <2>4
<1>6. AccountInv(v)
  BY <1>2 DEF Alone, World, AccountInv, Event, Registration
<1>7. OthersInv(v)
  <2>1. OthersInv(c) /\ c.ord.id = i
    BY DEF Alone, World, i
  <2>2. \A o \in Orders : o # i =>
          /\ v.child[<<o, "add">>] = c.child[<<o, "add">>]
          /\ v.child[<<o, "remove">>] = c.child[<<o, "remove">>]
    BY <1>4 DEF Hooks
  <2> QED BY <1>2, <1>3, <2>1, <2>2 DEF OthersInv
<1>8. World(v)
  BY <1>2, <1>3, <1>5, <1>6, <1>7
     DEF Alone, World, KeyInv, FrameInv, OrphanInv, i
<1>9. OrderInv(v)
  BY <1>2, <1>3, <1>5 DEF Alone, OrderInv, AnswerInv, i
<1>10. Flow(v) = {Event("hook_timer", i), Event("deadline_timer", i)}
  BY <1>2 DEF Alone, Flow, FlowKinds, HookTimers, Event
<1>11. WaitsHook(v)
  <2>1. /\ Event("hook_timer", v.ord.id) \in Flow(v)
        /\ Flow(v) \subseteq {Event(k, v.ord.id) : k \in HookTimers}
    BY <1>2, <1>3, <1>10 DEF HookTimers
  <2>2. /\ v.kg.order = 0 /\ v.acct.post = NoPost
        /\ ~v.ord.set /\ v.ord.dns_set
    BY <1>1, <1>2, <1>3 DEF Alone, HookReason
  <2>3. CASE h = "add"
    BY <1>2, <1>3, <2>1, <2>2, <2>3
       DEF WaitsHook, HookReason, Fresh, Trying, i
  <2>4. CASE h = "remove"
    BY <1>2, <1>3, <2>1, <2>2, <2>4
       DEF WaitsHook, HookReason, Trying, i
  <2> QED BY <2>3, <2>4
<1>12. FlowInv(v) /\ Quiet(c, v)
  BY <1>2, <1>3, <1>8, <1>9, <1>11 DEF FlowInv, Running, Alone, Quiet, i
<1> QED BY <1>12 DEF v

(* b is the state a handler began with: to the driver nothing has happened   *)
(* since, but that the certificate was stored if the end is to be a success, *)
(* and may have been if not.                                                 *)
Before(b, c, rc) ==
  /\ b.ord.id = c.ord.id /\ b.ended = c.ended /\ b.calls = c.calls
  /\ c.cert \in Left(rc, c.ord.id, b.cert)

(* finish ends an order that is held; one that stored its certificate has no *)
(* record left.                                                              *)
LEMMA FinishKeeps ==
  ASSUME NEW c, Held(c), NEW rc \in {"ok", "failed"}, NEW b, Before(b, c, rc),
         rc = "ok" \/ c.cert # b.cert => ~c.ord.dns_set,
         finish(c, rc)
  PROVE  Keeps(b)
<1> DEFINE q == [c.ord EXCEPT !.done = TRUE]
           a == [c EXCEPT !.ord = q]
           d == DelTimers(a, FlowTimers)
<1>1. /\ q \in OrderType /\ q.id = c.ord.id /\ q.mode = c.ord.mode
      /\ q.set = c.ord.set /\ q.dns_set = c.ord.dns_set /\ q.hook = "none"
      /\ q.cert_key \in {0, c.ord.id} /\ q.done
      /\ ~q.cleanup /\ ~q.after_authz
  BY DEF Held, Fresh, Alone, OrderInv, OrderType
<1> HIDE DEF q
<1>2. Alone(a) /\ a.ord = q /\ SameRest(c, a) /\ Quiet(c, a)
  BY <1>1, OrdAlone DEF Held
<1>3. \/ d.ord.dns_set
           /\ Return(dns_hook([Removing(d) EXCEPT !.ord.cleanup = TRUE,
                                                  !.ord.finish_rc = rc],
                              "remove"))
      \/ d.ord.dns_set /\ Complete(unpublish(Removing(d)), rc)
      \/ ~d.ord.dns_set /\ Complete(unpublish(d), rc)
  BY DEF finish, Held, Fresh, q
<1> HIDE DEF a
<1>4. Alone(d) /\ d.ord = q /\ Quiet(c, d)
  <2>1. /\ d \in StateType /\ SameButPend(a, d)
        /\ d.pend = {e \in a.pend : e.k \notin FlowTimers}
    BY <1>2, DelTimersFacts DEF Alone, World
  <2> HIDE DEF d
  <2>2. Flow(d) = {}
    BY <1>2, <2>1 DEF Alone, Flow
  <2>3. World(d)
    BY <1>2, <2>1 DEF Alone, World, SameButPend, AccountInv, KeyInv, OthersInv,
                      ChildInv, FrameInv, OrphanInv
  <2>4. OrderInv(d)
    BY <1>2, <2>1 DEF Alone, SameButPend, OrderInv, AnswerInv, HookInv
  <2> QED BY <1>2, <2>1, <2>2, <2>3, <2>4 DEF Alone, SameButPend, Quiet
<1> HIDE DEF d
<1>5. Before(b, d, rc)
  BY <1>4 DEF Before, Quiet
<1> DEFINE m == Removing(d)
<1>6. /\ Alone(m) /\ m.ord = q /\ m.ord.id \in m.tried /\ Before(b, m, rc)
      /\ Quiet(d, m)
  BY <1>4, <1>5, RemovingAlone DEF Before, Quiet
<1> HIDE DEF m
<1>7. CASE d.ord.dns_set
             /\ Return(dns_hook([m EXCEPT !.ord.cleanup = TRUE,
                                          !.ord.finish_rc = rc], "remove"))
  <2> DEFINE u == [q EXCEPT !.cleanup = TRUE, !.finish_rc = rc]
             n == [m EXCEPT !.ord = u]
  <2>1. rc = "failed" /\ m.cert = b.cert
    BY <1>1, <1>4, <1>6, <1>7 DEF Quiet
  <2>2. /\ u \in OrderType /\ u.id = q.id /\ u.mode = q.mode /\ u.set = q.set
        /\ u.dns_set = q.dns_set /\ u.hook = "none" /\ u.cert_key = q.cert_key
        /\ u.cleanup /\ u.finish_rc = rc /\ u.done /\ ~u.after_authz
    BY <1>1 DEF OrderType
  <2>3. [m EXCEPT !.ord.cleanup = TRUE, !.ord.finish_rc = rc] = n
    BY <1>6 DEF Alone, World, StateType
  <2> HIDE DEF u
  <2>4. Alone(n) /\ n.ord = u /\ SameRest(m, n) /\ Quiet(m, n)
    BY <1>1, <1>6, <2>2, OrdAlone
  <2>5. Return(dns_hook(n, "remove"))
    BY <1>7, <2>3
  <2> HIDE DEF n
  <2>6. HookReason(n, "remove")
    BY <1>4, <1>6, <1>7, <2>1, <2>2, <2>4 DEF HookReason, SameRest
  <2>7. FlowInv(dns_hook(n, "remove")) /\ Quiet(n, dns_hook(n, "remove"))
    BY <2>4, <2>6, HookLeaves
  <2>8. Quiet(b, dns_hook(n, "remove"))
    BY <1>6, <2>1, <2>4, <2>7 DEF Quiet, Before
  <2> QED BY <2>5, <2>7, <2>8, ReturnKeeps
<1>8. CASE Complete(unpublish(m), rc)
  <2>1. Alone(unpublish(m)) /\ Clean(unpublish(m)) /\ Quiet(m, unpublish(m))
    BY <1>6, UnpublishAlone
  <2> DEFINE u == unpublish(m)
  <2> HIDE DEF u
  <2>2. Alone(u) /\ ~u.ord.dns_set /\ Before(b, u, rc) /\ Complete(u, rc)
    BY <1>6, <1>8, <2>1 DEF u, Clean, Quiet, Before
  <2> QED BY <2>2, CompleteKeeps DEF Before
<1>9. CASE ~d.ord.dns_set /\ Complete(unpublish(d), rc)
  <2>1. d.child[<<d.ord.id, "add">>] # "none" => d.ord.id \in d.tried
    BY <1>4, <1>9 DEF Alone, OrderInv, HookInv
  <2>2. Alone(unpublish(d)) /\ Clean(unpublish(d)) /\ Quiet(d, unpublish(d))
    BY <1>4, <2>1, UnpublishAlone
  <2> DEFINE u == unpublish(d)
  <2> HIDE DEF u
  <2>3. Alone(u) /\ ~u.ord.dns_set /\ Before(b, u, rc) /\ Complete(u, rc)
    BY <1>5, <1>9, <2>2 DEF u, Clean, Quiet, Before
  <2> QED BY <2>3, CompleteKeeps DEF Before
<1> QED BY <1>3, <1>7, <1>8, <1>9 DEF m

(* The usual end: an error. *)
LEMMA FailKeeps ==
  ASSUME NEW c, Held(c), finish(c, "failed")
  PROVE  Keeps(c)
BY FinishKeeps DEF Before, Left

-----------------------------------------------------------------------------
(* THE STEPS OF THE FLOW                                                    *)

Posts == {"newOrder", "authz", "respond", "poll", "finalize", "orderPoll",
          "download"}

(* An accepted POST takes the slot of the account. *)
LEMMA AccountPostFacts ==
  ASSUME NEW a \in AccountType, NEW k \in Posts, NEW o \in Orders
  PROVE  LET x == account_post(a, k, o)
         IN  /\ x \in AccountType /\ x.st = a.st
             /\ x.post.k = k /\ x.post.o = o /\ ~x.post.retried
<1> DEFINE p == [NoPost EXCEPT !.k = k, !.o = o]
           r == [p EXCEPT !.fresh = (a.nonce = "fresh")]
<1>1. p \in PostType /\ p.k = k /\ p.o = o /\ ~p.retried
  <2>1. NoPost \in PostType /\ ~NoPost.retried
    BY DEF NoPost, PostType
  <2>2. o \in Nat
    BY OrderAssumption DEF Orders
  <2> QED BY <2>1, <2>2 DEF PostType, Posts
<1>2. r \in PostType /\ r.k = k /\ r.o = o /\ ~r.retried
  BY <1>1 DEF PostType
<1>3. account_post(a, k, o) = [a EXCEPT !.post = r, !.nonce = "spent"]
  BY DEF account_post, send_post, AccountType
<1> HIDE DEF r, p
<1> QED BY <1>2, <1>3 DEF AccountType

(* The order waits for one event more than it did, which was none. *)
LEMMA Arms ==
  ASSUME NEW c, Held(c), Trying(c), NEW v \in StateType,
         NEW k \in {"directory", "post", "renonce"} \cup FlowTimers,
         v.pend = c.pend \cup {Event(k, c.ord.id)},
         v.acct.st = "ready",
         IF k \in {"post", "renonce"}
         THEN /\ v.acct.post.o = c.ord.id
              /\ v.acct.post.k # "none" /\ Stage(c, v.acct.post.k)
              /\ ~v.acct.post.retried
         ELSE v.acct = c.acct /\ Stage(c, k),
         v.ord = c.ord, v.kg = c.kg, v.child = c.child,
         v.orphans = c.orphans, v.tokens = c.tokens, v.alpn = c.alpn,
         v.cert = c.cert, v.ended = c.ended, v.calls = c.calls,
         v.frame \in {c.frame, c.ord.id}, v.added = c.added, v.tried = c.tried
  PROVE  FlowInv(v) /\ Quiet(c, v)
<1>1. AccountInv(v)
  BY DEF Held, Alone, World, AccountInv, OrderInv, Event, Registration, FlowTimers
<1>2. World(v)
  BY <1>1 DEF Held, Alone, World, KeyInv, OthersInv, ChildInv, FrameInv,
              OrphanInv
<1>3. OrderInv(v)
  BY DEF Held, Alone, OrderInv, AnswerInv, HookInv
<1>4. Flow(v) = {Event(k, v.ord.id)}
  BY DEF Held, Alone, Flow, FlowKinds, Event
<1>5. \A s : Stage(c, s) => Stage(v, s)
  BY DEF Stage, Clean, Unhooked, Published
<1>6. Waits(v, k)
  BY <1>4, <1>5 DEF Waits, Held, Alone, Fresh, Trying
<1> QED BY <1>2, <1>3, <1>6 DEF FlowInv, Running, Held, Alone, Quiet

(* A step of the flow that waits for a timer. *)
LEMMA TimerKeeps ==
  ASSUME NEW c, Held(c), Trying(c), NEW k \in FlowTimers, Stage(c, k),
         Return(Timer(c, k))
  PROVE  Keeps(c)
<1> DEFINE v == Timer(c, k)
<1>1. /\ v \in StateType /\ SameButPend(c, v)
      /\ v.pend = c.pend \cup {Event(k, c.ord.id)}
  BY TimerFacts DEF Held, Alone, World, OrderInv
<1> HIDE DEF v
<1>2. FlowInv(v) /\ Quiet(c, v)
  BY <1>1, Arms DEF SameButPend, FlowTimers, Held, Alone, OrderInv
<1> QED BY <1>2, ReturnKeeps DEF v

(* A step of the flow that sends its POST, or fails. *)
LEMMA PostKeeps ==
  ASSUME NEW c, Held(c), Trying(c), NEW k \in Posts, Stage(c, k), post(c, k)
  PROVE  Keeps(c)
<1> DEFINE x == account_post(c.acct, k, c.ord.id)
           P == c.pend \cup {Event("post", c.ord.id)}
           v == [c EXCEPT !.acct = x, !.pend = P]
<1>1. /\ c \in StateType /\ c.ord \in OrderType /\ c.ord.id \in Orders
      /\ c.acct \in AccountType /\ c.acct.st = "ready"
  BY DEF Held, Alone, World, OrderInv, OrderType, StateType
<1>2. /\ x \in AccountType /\ x.st = "ready"
      /\ x.post.k = k /\ x.post.o = c.ord.id /\ ~x.post.retried
  BY <1>1, AccountPostFacts
<1>3. P \in SUBSET EventType
  BY <1>1 DEF StateType, EventType, Event, Orders
<1>4. Return(v) \/ finish(c, "failed")
  BY DEF post
<1> HIDE DEF x, P
<1>5. /\ v \in StateType /\ v.acct = x /\ v.pend = P
      /\ v.ord = c.ord /\ v.kg = c.kg /\ v.child = c.child
      /\ v.orphans = c.orphans /\ v.tokens = c.tokens /\ v.alpn = c.alpn
      /\ v.cert = c.cert /\ v.ended = c.ended /\ v.calls = c.calls
      /\ v.frame = c.frame /\ v.added = c.added /\ v.tried = c.tried
  BY <1>1, <1>2, <1>3 DEF StateType
<1> HIDE DEF v
<1>6. FlowInv(v) /\ Quiet(c, v)
  BY <1>2, <1>5, Arms DEF P, Posts
<1> QED BY <1>4, <1>6, ReturnKeeps, FailKeeps

(* The order is changed as OrdAlone says, and not ended. *)
SameFlags(c, q) ==
  /\ q \in OrderType /\ q.id = c.ord.id /\ q.mode = c.ord.mode
  /\ q.set = c.ord.set /\ q.dns_set = c.ord.dns_set
  /\ q.hook = "none" /\ q.cert_key \in {0, c.ord.id}
  /\ ~q.done /\ ~q.cleanup /\ ~q.after_authz

(* A handler that changes the order so still holds it: no event of the flow  *)
(* is pending, and nothing the driver of the orders can see has moved.       *)
LEMMA OrdHeld ==
  ASSUME NEW c, Held(c), NEW q, SameFlags(c, q)
  PROVE  LET v == [c EXCEPT !.ord = q]
         IN  Held(v) /\ v.ord = q /\ SameRest(c, v) /\ Quiet(c, v)
<1> DEFINE v == [c EXCEPT !.ord = q]
<1>1. Alone(v) /\ v.ord = q /\ SameRest(c, v) /\ Quiet(c, v)
  BY OrdAlone DEF Held, SameFlags
<1> HIDE DEF v
<1>2. Held(v)
  BY <1>1 DEF Held, Fresh, SameFlags
<1> QED BY <1>1, <1>2 DEF v

(* The key of the order is set, or cleared. *)
LEMMA KeyHeld ==
  ASSUME NEW c, Held(c), NEW n \in {0, c.ord.id}
  PROVE  LET v == [c EXCEPT !.ord.cert_key = n]
         IN  /\ Held(v) /\ SameRest(c, v) /\ Quiet(c, v)
             /\ Trying(c) => Trying(v)
             /\ Clean(c) => Clean(v)
             /\ v.ord.rsa = c.ord.rsa
<1> DEFINE q == [c.ord EXCEPT !.cert_key = n]
           v == [c EXCEPT !.ord = q]
<1>1. /\ SameFlags(c, q) /\ q.poll_tries = c.ord.poll_tries
      /\ q.order_poll_tries = c.ord.order_poll_tries /\ q.rsa = c.ord.rsa
  BY OrderAssumption
     DEF Held, Fresh, Alone, OrderInv, OrderType, SameFlags, Orders
<1> HIDE DEF q
<1>2. Held(v) /\ v.ord = q /\ SameRest(c, v) /\ Quiet(c, v)
  BY <1>1, OrdHeld
<1>3. [c EXCEPT !.ord.cert_key = n] = v
  BY DEF q
<1> HIDE DEF v
<1> QED BY <1>1, <1>2, <1>3 DEF Trying, Clean, SameFlags

(* finalize_csr and keygen_inline. *)
LEMMA InlineKeeps ==
  ASSUME NEW c, Held(c), Trying(c), Clean(c), keygen_inline(c)
  PROVE  Keeps(c)
<1> DEFINE v == [c EXCEPT !.ord.cert_key = c.ord.id]
<1>1. finalize_csr(v) \/ finish(c, "failed")
  BY DEF keygen_inline
<1>2. Held(v) /\ Quiet(c, v) /\ Trying(v) /\ Clean(v)
  BY KeyHeld
<1> HIDE DEF v
<1>3. ASSUME finalize_csr(v) PROVE Keeps(v)
  BY <1>2, <1>3, PostKeeps DEF finalize_csr, Posts, Stage, Early, Looking
<1> QED BY <1>1, <1>2, <1>3, KeepsOn, FailKeeps

(* The key is made here or by the thread. *)
LEMMA KeygenKeeps ==
  ASSUME NEW c, Held(c), Trying(c), Clean(c), keygen_post(c)
  PROVE  Keeps(c)
<1> DEFINE g == [KgIdle EXCEPT !.busy = TRUE, !.order = c.ord.id,
                               !.by = c.ord.id]
           v == [c EXCEPT !.kg = g]
<1>1. keygen_inline(c) \/ finish(c, "failed") \/ Return(v)
  BY DEF keygen_post
<1>2. /\ c \in StateType /\ c.ord.id \in Orders
      /\ g \in KgType /\ g.order = c.ord.id /\ g.busy /\ g.by = c.ord.id
  <2>1. c \in StateType /\ c.ord.id \in Orders
    BY DEF Held, Alone, World, OrderInv, OrderType
  <2>2. c.ord.id \in 0 .. MaxOrders
    BY <2>1, OrderAssumption DEF Orders
  <2>3. KgIdle \in KgType
    BY OrderAssumption DEF KgIdle, KgType
  <2> QED BY <2>1, <2>2, <2>3 DEF KgType
<1> HIDE DEF g
<1>3. /\ v \in StateType /\ v.kg = g /\ v.pend = c.pend /\ v.acct = c.acct
      /\ v.ord = c.ord /\ v.child = c.child
      /\ v.orphans = c.orphans /\ v.tokens = c.tokens /\ v.alpn = c.alpn
      /\ v.cert = c.cert /\ v.ended = c.ended /\ v.calls = c.calls
      /\ v.frame = c.frame /\ v.added = c.added /\ v.tried = c.tried
  BY <1>2 DEF StateType
<1> HIDE DEF v
<1>4. World(v)
  BY <1>2, <1>3 DEF Held, Alone, World, AccountInv, KeyInv, OthersInv,
                    ChildInv, FrameInv, OrphanInv
<1>5. OrderInv(v)
  BY <1>3 DEF Held, Alone, OrderInv, AnswerInv, HookInv
<1>6. WaitsKey(v)
  BY <1>2, <1>3 DEF WaitsKey, Held, Alone, Flow, Fresh, Trying, Clean
<1>7. FlowInv(v) /\ Quiet(c, v)
  BY <1>3, <1>4, <1>5, <1>6 DEF FlowInv, Running, Held, Alone, Quiet
<1> QED BY <1>1, <1>7, InlineKeeps, FailKeeps, ReturnKeeps

(* order_finalize, once the answer is taken back. *)
LEMMA FinalizeKeeps ==
  ASSUME NEW c, Held(c), Trying(c), Clean(c), finalize(c)
  PROVE  Keeps(c)
<1> DEFINE v == [c EXCEPT !.ord.cert_key = 0]
<1>1. keygen_post(v) \/ keygen_inline(v)
  BY DEF finalize
<1>2. Held(v) /\ Quiet(c, v) /\ Trying(v) /\ Clean(v)
  BY KeyHeld
<1> HIDE DEF v
<1>3. Keeps(v)
  BY <1>1, <1>2, KeygenKeeps, InlineKeeps
<1> QED BY <1>2, <1>3, KeepsOn

(* The answer of an order for http-01 is put into shared memory. *)
LEMMA ChallengeSet ==
  ASSUME NEW c, Held(c), c.ord.mode = "http"
  PROVE  LET v == challenge_set(c)
         IN  /\ Held(v) /\ v.ord.set /\ v.ord.mode = "http" /\ Quiet(c, v)
             /\ Trying(c) => Trying(v)
<1> DEFINE q == [c.ord EXCEPT !.set = TRUE]
           T == c.tokens \cup {c.ord.id}
           v == [c EXCEPT !.tokens = T, !.ord = q]
<1>1. challenge_set(c) = v
  BY DEF challenge_set
<1>2. /\ c \in StateType /\ c.ord \in OrderType /\ c.ord.id \in Orders
  BY DEF Held, Alone, World, OrderInv, OrderType
<1>3. /\ q \in OrderType /\ q.id = c.ord.id /\ q.mode = c.ord.mode /\ q.set
      /\ q.dns_set = c.ord.dns_set /\ q.hook = c.ord.hook
      /\ q.cert_key = c.ord.cert_key /\ q.done = c.ord.done
      /\ q.cleanup = c.ord.cleanup /\ q.after_authz = c.ord.after_authz
      /\ q.poll_tries = c.ord.poll_tries
      /\ q.order_poll_tries = c.ord.order_poll_tries
  BY <1>2 DEF OrderType
<1>4. /\ T \in SUBSET Orders /\ c.ord.id \in T
      /\ \A o : o # c.ord.id => (o \in T <=> o \in c.tokens)
  BY <1>2 DEF StateType
<1> HIDE DEF q, T
<1>5. /\ v \in StateType /\ v.tokens = T /\ v.ord = q
      /\ v.pend = c.pend /\ v.acct = c.acct /\ v.kg = c.kg
      /\ v.child = c.child /\ v.orphans = c.orphans /\ v.alpn = c.alpn
      /\ v.cert = c.cert /\ v.ended = c.ended /\ v.calls = c.calls
      /\ v.frame = c.frame /\ v.added = c.added /\ v.tried = c.tried
  BY <1>2, <1>3, <1>4 DEF StateType
<1> HIDE DEF v
<1>6. World(v)
  BY <1>3, <1>4, <1>5 DEF Held, Alone, World, AccountInv, KeyInv, OthersInv,
                          ChildInv, FrameInv, OrphanInv
<1>7. OrderInv(v)
  BY <1>3, <1>4, <1>5 DEF Held, Alone, OrderInv, AnswerInv, HookInv
<1> QED BY <1>1, <1>3, <1>5, <1>6, <1>7 DEF Held, Alone, Fresh, Flow, Quiet, Trying

(* That of an order for tls-alpn-01 likewise. *)
LEMMA AlpnSet ==
  ASSUME NEW c, Held(c), c.ord.mode = "alpn"
  PROVE  LET v == alpn_set(c)
         IN  /\ Held(v) /\ v.ord.set /\ v.ord.mode = "alpn" /\ Quiet(c, v)
             /\ Trying(c) => Trying(v)
<1> DEFINE q == [c.ord EXCEPT !.set = TRUE]
           v == [c EXCEPT !.alpn = c.ord.id, !.ord = q]
<1>1. alpn_set(c) = v
  BY DEF alpn_set
<1>2. /\ c \in StateType /\ c.ord \in OrderType /\ c.ord.id \in Orders
      /\ c.ord.id \in 0 .. MaxOrders
  BY OrderAssumption DEF Held, Alone, World, OrderInv, OrderType, Orders
<1>3. /\ q \in OrderType /\ q.id = c.ord.id /\ q.mode = c.ord.mode /\ q.set
      /\ q.dns_set = c.ord.dns_set /\ q.hook = c.ord.hook
      /\ q.cert_key = c.ord.cert_key /\ q.done = c.ord.done
      /\ q.cleanup = c.ord.cleanup /\ q.after_authz = c.ord.after_authz
      /\ q.poll_tries = c.ord.poll_tries
      /\ q.order_poll_tries = c.ord.order_poll_tries
  BY <1>2 DEF OrderType
<1> HIDE DEF q
<1>4. /\ v \in StateType /\ v.alpn = c.ord.id /\ v.ord = q
      /\ v.pend = c.pend /\ v.acct = c.acct /\ v.kg = c.kg
      /\ v.child = c.child /\ v.orphans = c.orphans /\ v.tokens = c.tokens
      /\ v.cert = c.cert /\ v.ended = c.ended /\ v.calls = c.calls
      /\ v.frame = c.frame /\ v.added = c.added /\ v.tried = c.tried
  BY <1>2, <1>3 DEF StateType
<1> HIDE DEF v
<1>5. World(v)
  BY <1>3, <1>4 DEF Held, Alone, World, AccountInv, KeyInv, OthersInv,
                    ChildInv, FrameInv, OrphanInv
<1>6. OrderInv(v)
  BY <1>3, <1>4 DEF Held, Alone, OrderInv, AnswerInv, HookInv
<1> QED BY <1>1, <1>3, <1>4, <1>5, <1>6 DEF Held, Alone, Fresh, Flow, Quiet, Trying

(* The flag of an order for dns-01 is set before its add hook is started,    *)
(* and cleared once a remove hook was called for.                            *)
LEMMA DnsFlag ==
  ASSUME NEW c, Alone(c), c.ord.mode = "dns", NEW s \in BOOLEAN,
         ~s => c.ord.id \in c.tried
  PROVE  LET v == [c EXCEPT !.ord.dns_set = s]
         IN  /\ Alone(v) /\ v.ord.dns_set = s /\ v.ord.mode = "dns"
             /\ Quiet(c, v) /\ SameRest(c, v)
             /\ v.ord = [c.ord EXCEPT !.dns_set = s]
             /\ Fresh(c) => Fresh(v)
             /\ Trying(c) => Trying(v)
<1> DEFINE q == [c.ord EXCEPT !.dns_set = s]
           v == [c EXCEPT !.ord = q]
<1>1. [c EXCEPT !.ord.dns_set = s] = v
  OBVIOUS
<1>2. /\ q \in OrderType /\ q.id = c.ord.id /\ q.mode = c.ord.mode
      /\ q.dns_set = s /\ q.hook = c.ord.hook /\ q.set = c.ord.set
      /\ q.cert_key = c.ord.cert_key /\ q.done = c.ord.done
      /\ q.cleanup = c.ord.cleanup /\ q.after_authz = c.ord.after_authz
      /\ q.poll_tries = c.ord.poll_tries
      /\ q.order_poll_tries = c.ord.order_poll_tries
  BY DEF Alone, OrderInv, OrderType
<1>3. q = [c.ord EXCEPT !.dns_set = s]
  OBVIOUS
<1> HIDE DEF q
<1>4. v \in StateType /\ v.ord = q /\ SameRest(c, v)
  BY <1>2, PutOrd DEF Alone, World
<1> HIDE DEF v
<1>5. World(v)
  BY <1>2, <1>4 DEF Alone, World, SameRest, AccountInv, KeyInv, OthersInv,
                    ChildInv, FrameInv, OrphanInv
<1>6. OrderInv(v)
  BY <1>2, <1>4 DEF Alone, OrderInv, AnswerInv, HookInv, SameRest
<1>7. Alone(v) /\ Quiet(c, v)
  BY <1>2, <1>4, <1>5, <1>6 DEF Alone, Flow, Quiet, SameRest
<1> QED BY <1>1, <1>2, <1>3, <1>4, <1>7 DEF Fresh, Trying

(* The answer is published, or the add hook started. *)
LEMMA PublishKeeps ==
  ASSUME NEW c, Held(c), Trying(c), Clean(c), Unhooked(c), publish(c)
  PROVE  Keeps(c)
<1>1. c.ord.mode \in {"http", "alpn", "dns"}
  BY DEF Held, Alone, OrderInv, OrderType
<1>2. CASE c.ord.mode = "dns"
  <2> DEFINE d == [c EXCEPT !.ord.dns_set = TRUE]
  <2>1. Return(dns_hook(d, "add")) \/ finish(d, "failed")
    BY <1>2 DEF publish
  <2>2. /\ Alone(d) /\ d.ord.dns_set /\ Quiet(c, d) /\ SameRest(c, d)
        /\ Fresh(d) /\ Trying(d)
    BY <1>2, DnsFlag DEF Held
  <2> HIDE DEF d
  <2>3. HookReason(d, "add")
    BY <2>2 DEF HookReason, Unhooked, SameRest, Quiet
  <2>4. FlowInv(dns_hook(d, "add")) /\ Quiet(d, dns_hook(d, "add"))
    BY <2>2, <2>3, HookLeaves
  <2>5. Keeps(d)
    BY <2>1, <2>2, <2>4, ReturnKeeps, FailKeeps DEF Held
  <2> QED BY <2>2, <2>5, KeepsOn
<1>3. CASE c.ord.mode = "http"
  <2> DEFINE d == challenge_set(c)
  <2>1. post(d, "respond")
    BY <1>3 DEF publish
  <2>2. Held(d) /\ d.ord.set /\ d.ord.mode = "http" /\ Quiet(c, d) /\ Trying(d)
    BY <1>3, ChallengeSet
  <2> HIDE DEF d
  <2>3. Stage(d, "respond")
    BY <2>2 DEF Stage, Early, Late, Published
  <2>4. Keeps(d)
    BY <2>1, <2>2, <2>3, PostKeeps DEF Posts
  <2> QED BY <2>2, <2>4, KeepsOn
<1>4. CASE c.ord.mode = "alpn"
  <2> DEFINE d == alpn_set(c)
  <2>1. post(d, "respond")
    BY <1>4 DEF publish
  <2>2. Held(d) /\ d.ord.set /\ d.ord.mode = "alpn" /\ Quiet(c, d) /\ Trying(d)
    BY <1>4, AlpnSet
  <2> HIDE DEF d
  <2>3. Stage(d, "respond")
    BY <2>2 DEF Stage, Early, Late, Published
  <2>4. Keeps(d)
    BY <2>1, <2>2, <2>3, PostKeeps DEF Posts
  <2> QED BY <2>2, <2>4, KeepsOn
<1> QED BY <1>1, <1>2, <1>3, <1>4

(* The CA has validated the name: the answer goes before the order goes on.  *)
LEMMA AuthorizedKeeps ==
  ASSUME NEW c, Held(c), Trying(c), Published(c), authorized(c)
  PROVE  Keeps(c)
<1>1. CASE c.ord.dns_set
  <2> DEFINE m == Removing(c)
  <2>1. /\ Alone(m) /\ m.ord = c.ord /\ m.ord.id \in m.tried /\ Quiet(c, m)
    BY RemovingAlone DEF Held
  <2>2. \/ Return(dns_hook([m EXCEPT !.ord.after_authz = TRUE], "remove"))
        \/ finalize([m EXCEPT !.ord.dns_set = FALSE])
    BY <1>1 DEF authorized
  <2> HIDE DEF m
  <2>3. m.ord.mode = "dns"
    BY <1>1, <2>1 DEF Alone, OrderInv, AnswerInv
  <2>4. CASE Return(dns_hook([m EXCEPT !.ord.after_authz = TRUE], "remove"))
    <3> DEFINE q == [m.ord EXCEPT !.after_authz = TRUE]
               d == [m EXCEPT !.ord = q]
    <3>1. /\ q \in OrderType /\ q.id = m.ord.id /\ q.mode = m.ord.mode
          /\ q.set = m.ord.set /\ q.dns_set = m.ord.dns_set
          /\ q.hook = "none" /\ q.cert_key \in {0, m.ord.id}
          /\ q.after_authz /\ q.cleanup = m.ord.cleanup
          /\ q.done = m.ord.done /\ q.poll_tries = m.ord.poll_tries
          /\ q.order_poll_tries = m.ord.order_poll_tries
      BY <2>1 DEF Alone, OrderInv, OrderType
    <3> HIDE DEF q
    <3>2. Alone(d) /\ d.ord = q /\ SameRest(m, d) /\ Quiet(m, d)
      BY <2>1, <3>1, OrdAlone
    <3>3. Return(dns_hook(d, "remove"))
      BY <2>4 DEF q
    <3> HIDE DEF d
    <3>4. HookReason(d, "remove")
      BY <1>1, <2>1, <3>1, <3>2
         DEF HookReason, Held, Fresh, Trying, SameRest
    <3>5. FlowInv(dns_hook(d, "remove")) /\ Quiet(d, dns_hook(d, "remove"))
      BY <3>2, <3>4, HookLeaves
    <3>6. Keeps(d)
      BY <3>3, <3>5, ReturnKeeps
    <3> QED BY <2>1, <3>2, <3>6, KeepsOn
  <2>5. CASE finalize([m EXCEPT !.ord.dns_set = FALSE])
    <3> DEFINE d == [m EXCEPT !.ord.dns_set = FALSE]
    <3>1. /\ Alone(d) /\ d.ord.dns_set = FALSE /\ d.ord.mode = "dns"
          /\ Quiet(m, d) /\ Fresh(d) /\ Trying(d)
      BY <2>1, <2>3, DnsFlag DEF Held, Fresh, Trying
    <3> HIDE DEF d
    <3>2. Held(d) /\ Clean(d) /\ finalize(d)
      BY <2>5, <3>1 DEF Held, Clean, Alone, OrderInv, AnswerInv, d
    <3>3. Keeps(d)
      BY <3>1, <3>2, FinalizeKeeps
    <3> QED BY <2>1, <3>1, <3>3, KeepsOn
  <2> QED BY <2>2, <2>4, <2>5
<1>2. CASE ~c.ord.dns_set
  <2> DEFINE d == unpublish(c)
  <2>1. finalize(d)
    BY <1>2 DEF authorized
  <2>2. /\ Alone(d) /\ Clean(d) /\ Quiet(c, d)
        /\ d.ord = [c.ord EXCEPT !.set = FALSE, !.dns_set = FALSE]
    BY <1>2, UnpublishAlone DEF Held, Alone, OrderInv, HookInv
  <2> HIDE DEF d
  <2>3. Fresh(d) /\ Trying(d)
    BY <2>2 DEF Held, Alone, OrderInv, OrderType, Fresh, Trying
  <2>4. Keeps(d)
    BY <2>1, <2>2, <2>3, FinalizeKeeps DEF Held
  <2> QED BY <2>2, <2>4, KeepsOn
<1> QED BY <1>1, <1>2

(* The hook of the order has ended and was waited for. *)
HookOver(c, rc) ==
  /\ World(c) /\ OrderInv(c) /\ c.ended[c.ord.id] = "unused"
  /\ \A e \in Flow(c) : e.k \in HookTimers
  /\ c.kg.order = 0 /\ c.acct.post = NoPost
  /\ c.ord.hook # "none" /\ c.child[<<c.ord.id, c.ord.hook>>] = "reaped"
  /\ ~c.ord.set /\ c.ord.dns_set
  /\ \/ /\ c.ord.hook = "add" /\ c.ord.is_add
        /\ Fresh(c) /\ Trying(c)
        /\ rc = "ok" => c.ord.id \in c.added
     \/ /\ c.ord.hook = "remove" /\ ~c.ord.is_add /\ c.ord.id \in c.tried
        /\ \/ c.ord.after_authz /\ ~c.ord.cleanup /\ ~c.ord.done /\ Trying(c)
           \/ /\ c.ord.cleanup /\ ~c.ord.after_authz
              /\ c.ord.done /\ c.ord.finish_rc = "failed"

(* The order goes on with what its hook was started for. *)
LEMMA HookDoneKeeps ==
  ASSUME NEW c, NEW rc \in {"ok", "failed"}, HookOver(c, rc), hook_done(c, rc)
  PROVE  Keeps(c)
<1> DEFINE q == [c.ord EXCEPT !.hook = "none"]
           a == [c EXCEPT !.ord = q]
           d == DelTimers(a, HookTimers)
<1>1. /\ q \in OrderType /\ q.id = c.ord.id /\ q.mode = c.ord.mode
      /\ q.set = c.ord.set /\ q.dns_set = c.ord.dns_set /\ q.hook = "none"
      /\ q.cert_key = c.ord.cert_key /\ q.done = c.ord.done
      /\ q.cleanup = c.ord.cleanup /\ q.after_authz = c.ord.after_authz
      /\ q.is_add = c.ord.is_add /\ q.finish_rc = c.ord.finish_rc
      /\ q.poll_tries = c.ord.poll_tries
      /\ q.order_poll_tries = c.ord.order_poll_tries
  BY DEF HookOver, OrderInv, OrderType
<1> DEFINE r == [d EXCEPT !.ord.dns_set = FALSE]
<1>2. IF d.ord.is_add
      THEN IF rc # "ok" THEN finish(d, "failed")
           ELSE Return(Timer(d, "delay_timer"))
      ELSE IF d.ord.after_authz
        THEN finalize([r EXCEPT !.ord.after_authz = FALSE])
      ELSE IF d.ord.cleanup
        THEN Complete([r EXCEPT !.ord.cleanup = FALSE], d.ord.finish_rc)
      ELSE Return(r)
  BY DEF hook_done
<1> HIDE DEF q
<1>3. a \in StateType /\ a.ord = q /\ SameRest(c, a)
  BY <1>1, PutOrd DEF HookOver, World
<1> HIDE DEF a
<1>4. /\ d \in StateType /\ SameButPend(a, d)
      /\ d.pend = {e \in a.pend : e.k \notin HookTimers}
  BY <1>3, DelTimersFacts
<1> HIDE DEF d
<1>5. /\ d.ord = q /\ d.pend = {e \in c.pend : e.k \notin HookTimers}
      /\ d.acct = c.acct /\ d.kg = c.kg /\ d.child = c.child
      /\ d.orphans = c.orphans /\ d.tokens = c.tokens /\ d.alpn = c.alpn
      /\ d.cert = c.cert /\ d.ended = c.ended /\ d.calls = c.calls
      /\ d.frame = c.frame /\ d.added = c.added /\ d.tried = c.tried
  BY <1>3, <1>4 DEF SameRest, SameButPend
<1>6. World(d)
  BY <1>1, <1>4, <1>5 DEF HookOver, World, AccountInv, KeyInv, OthersInv,
                          ChildInv, FrameInv, OrphanInv
<1>7. HookInv(d)
  <2>1. /\ d.child = c.child /\ d.ord.id = c.ord.id /\ d.ord.hook = "none"
        /\ d.ord.dns_set
    BY <1>1, <1>5 DEF HookOver
  <2>2. CASE c.ord.hook = "add"
    BY <2>1, <2>2 DEF HookOver, HookInv
  <2>3. CASE c.ord.hook # "add"
    BY <2>1, <2>3 DEF HookOver, OrderInv, HookInv
  <2> QED BY <2>2, <2>3
<1>8. Alone(d) /\ Quiet(c, d)
  <2>1. Flow(d) = {}
    BY <1>5 DEF HookOver, Flow
  <2> QED BY <1>1, <1>5, <1>6, <1>7, <2>1
      DEF Alone, Quiet, HookOver, OrderInv, AnswerInv
<1>9. d.ord.mode = "dns"
  BY <1>1, <1>5 DEF HookOver, OrderInv, AnswerInv
<1>10. CASE d.ord.is_add
  <2>1. Held(d) /\ Trying(d)
    BY <1>1, <1>5, <1>8, <1>10 DEF HookOver, Held, Fresh, Trying
  <2>2. CASE rc # "ok"
    <3>1. Keeps(d)
      BY <1>2, <1>10, <2>1, <2>2, FailKeeps
    <3> QED BY <1>8, <3>1, KeepsOn
  <2>3. CASE rc = "ok"
    <3>1. Stage(d, "delay_timer")
      BY <1>1, <1>5, <1>9, <1>10, <2>3
         DEF HookOver, Stage, Early, Looking, Late, Published
    <3>2. Keeps(d)
      BY <1>2, <1>10, <2>1, <2>3, <3>1, TimerKeeps DEF FlowTimers
    <3> QED BY <1>8, <3>2, KeepsOn
  <2> QED BY <2>2, <2>3
<1>11. CASE ~d.ord.is_add
  <2>1. d.ord.id \in d.tried
    BY <1>1, <1>5, <1>11 DEF HookOver
  <2> HIDE DEF r
  <2>2. /\ Alone(r) /\ r.ord.dns_set = FALSE /\ r.ord.mode = "dns"
        /\ Quiet(d, r) /\ r.ord = [d.ord EXCEPT !.dns_set = FALSE]
    BY <1>8, <1>9, <2>1, DnsFlag DEF r
  <2>3. /\ r.ord.after_authz = d.ord.after_authz
        /\ r.ord.cleanup = d.ord.cleanup /\ r.ord.done = d.ord.done
        /\ r.ord.set = d.ord.set
        /\ Trying(d) => Trying(r)
    BY <1>8, <2>2 DEF Alone, OrderInv, OrderType, Trying
  <2>4. Alone(r) /\ ~r.ord.dns_set
    BY <2>2
  <2>5. CASE d.ord.after_authz
    <3> DEFINE u == [r.ord EXCEPT !.after_authz = FALSE]
               f == [r EXCEPT !.ord = u]
    <3>1. /\ u \in OrderType /\ u.id = r.ord.id /\ u.mode = r.ord.mode
          /\ u.set = r.ord.set /\ u.dns_set = r.ord.dns_set
          /\ u.hook = "none" /\ u.cert_key \in {0, r.ord.id}
          /\ ~u.after_authz /\ u.cleanup = r.ord.cleanup
          /\ u.done = r.ord.done /\ u.poll_tries = r.ord.poll_tries
          /\ u.order_poll_tries = r.ord.order_poll_tries
      BY <2>2 DEF Alone, OrderInv, OrderType
    <3>2. finalize(f)
      BY <1>2, <1>11, <2>5
    <3> HIDE DEF u
    <3>3. Alone(f) /\ f.ord = u /\ Quiet(r, f)
      BY <2>4, <3>1, OrdAlone
    <3> HIDE DEF f
    <3>4. ~d.ord.cleanup /\ ~d.ord.done /\ ~d.ord.set /\ Trying(d)
      BY <1>1, <1>5, <1>11, <2>5 DEF HookOver, Trying
    <3>5. Held(f) /\ Trying(f) /\ Clean(f)
      BY <2>4, <2>3, <3>1, <3>3, <3>4 DEF Held, Fresh, Trying, Clean
    <3>6. Keeps(f)
      BY <3>2, <3>5, FinalizeKeeps
    <3> QED BY <1>8, <2>2, <3>3, <3>6, KeepsOn
  <2>6. CASE ~d.ord.after_authz
    <3> DEFINE u == [r.ord EXCEPT !.cleanup = FALSE]
               f == [r EXCEPT !.ord = u]
    <3>1. d.ord.cleanup /\ d.ord.finish_rc = "failed"
      BY <1>1, <1>5, <1>11, <2>6 DEF HookOver
    <3>2. /\ u \in OrderType /\ u.id = r.ord.id /\ u.mode = r.ord.mode
          /\ u.set = r.ord.set /\ u.dns_set = r.ord.dns_set
          /\ u.hook = "none" /\ u.cert_key \in {0, r.ord.id}
      BY <2>2 DEF Alone, OrderInv, OrderType
    <3>3. Complete(f, "failed")
      BY <1>2, <1>11, <2>6, <3>1
    <3> HIDE DEF u
    <3>4. Alone(f) /\ f.ord = u /\ Quiet(r, f)
      BY <2>4, <3>2, OrdAlone
    <3> HIDE DEF f
    <3>5. Keeps(f)
      BY <2>4, <3>2, <3>3, <3>4, CompleteKeeps DEF Left
    <3> QED BY <1>8, <2>2, <3>4, <3>5, KeepsOn
  <2> QED BY <2>5, <2>6
<1> QED BY <1>10, <1>11, <1>8

(* The one retry of finalize is remembered. *)
LEMMA RetriedHeld ==
  ASSUME NEW c, Held(c)
  PROVE  LET v == [c EXCEPT !.ord.finalize_retried = TRUE]
         IN  /\ Held(v) /\ Quiet(c, v)
             /\ Trying(c) => Trying(v)
             /\ Clean(c) => Clean(v)
<1> DEFINE q == [c.ord EXCEPT !.finalize_retried = TRUE]
           v == [c EXCEPT !.ord = q]
<1>1. /\ SameFlags(c, q) /\ q.poll_tries = c.ord.poll_tries
      /\ q.order_poll_tries = c.ord.order_poll_tries
  BY DEF Held, Fresh, Alone, OrderInv, OrderType, SameFlags
<1>2. [c EXCEPT !.ord.finalize_retried = TRUE] = v
  OBVIOUS
<1> HIDE DEF q
<1>3. Held(v) /\ v.ord = q /\ SameRest(c, v) /\ Quiet(c, v)
  BY <1>1, OrdHeld
<1> HIDE DEF v
<1> QED BY <1>1, <1>2, <1>3 DEF Trying, Clean, SameFlags

(* So is the one retry of the download, which polls afresh. *)
LEMMA AgainHeld ==
  ASSUME NEW c, Held(c)
  PROVE  LET v == [c EXCEPT !.ord.download_retried = TRUE,
                            !.ord.order_poll_tries = 0]
         IN  /\ Held(v) /\ Quiet(c, v)
             /\ Trying(c) => Trying(v)
             /\ Clean(c) => Clean(v)
<1> DEFINE q == [c.ord EXCEPT !.download_retried = TRUE, !.order_poll_tries = 0]
           v == [c EXCEPT !.ord = q]
<1>1. /\ SameFlags(c, q) /\ q.poll_tries = c.ord.poll_tries
      /\ q.order_poll_tries = 0
  <2>1. 0 \in 0 .. POLL_MAX + 1
    BY OrderAssumption
  <2> QED BY <2>1
      DEF Held, Fresh, Alone, OrderInv, OrderType, SameFlags
<1>2. [c EXCEPT !.ord.download_retried = TRUE, !.ord.order_poll_tries = 0] = v
  BY DEF Held, Alone, World, StateType
<1> HIDE DEF q
<1>3. Held(v) /\ v.ord = q /\ SameRest(c, v) /\ Quiet(c, v)
  BY <1>1, OrdHeld
<1> HIDE DEF v
<1>4. Trying(c) => Trying(v)
  <2>1. 0 <= POLL_MAX
    BY OrderAssumption
  <2> QED BY <1>1, <1>3, <2>1 DEF Trying
<1> QED BY <1>1, <1>2, <1>3, <1>4 DEF Clean, SameFlags

(* The certificate is stored. *)
LEMMA StoredHeld ==
  ASSUME NEW c, Held(c)
  PROVE  LET v == Stored(c)
         IN  /\ Held(v) /\ v.ord = c.ord
             /\ \A rc \in {"ok", "failed"} : Before(c, v, rc)
<1> DEFINE v == [c EXCEPT !.cert = c.ord.id]
<1>1. c \in StateType /\ c.ord.id \in 0 .. MaxOrders
  BY OrderAssumption DEF Held, Alone, World, OrderInv, OrderType, Orders
<1>2. /\ v \in StateType /\ v.cert = c.ord.id
      /\ v.ord = c.ord /\ v.pend = c.pend /\ v.acct = c.acct /\ v.kg = c.kg
      /\ v.child = c.child /\ v.orphans = c.orphans
      /\ v.tokens = c.tokens /\ v.alpn = c.alpn
      /\ v.ended = c.ended /\ v.calls = c.calls
      /\ v.frame = c.frame /\ v.added = c.added /\ v.tried = c.tried
  BY <1>1 DEF StateType
<1> HIDE DEF v
<1>3. World(v)
  BY <1>2 DEF Held, Alone, World, AccountInv, KeyInv, OthersInv, ChildInv,
              FrameInv, OrphanInv
<1>4. OrderInv(v)
  BY <1>2 DEF Held, Alone, OrderInv, AnswerInv, HookInv
<1>5. Held(v) /\ v.ord = c.ord
  BY <1>2, <1>3, <1>4 DEF Held, Alone, Fresh, Flow
<1>6. \A rc \in {"ok", "failed"} : Before(c, v, rc)
  BY <1>2 DEF Before, Left
<1> QED BY <1>5, <1>6 DEF v, Stored

(* Whatever the CA answers, or if it does not, the handler of the POST keeps *)
(* the invariant.                                                            *)
LEMMA HandlerKeeps ==
  ASSUME NEW c, Held(c), Trying(c), NEW k \in Posts, Stage(c, k),
         NEW ans \in Answers(k), handler(c, k, ans)
  PROVE  Keeps(c)
<1>1. CASE k = "newOrder"
  <2>1. post(c, "authz") \/ finish(c, "failed")
    BY <1>1 DEF handler, new_order_done
  <2>2. Stage(c, "authz")
    BY <1>1 DEF Stage, Early, Looking, Late
  <2> QED BY <2>1, <2>2, PostKeeps, FailKeeps DEF Posts
<1>2. CASE k = "authz"
  <2>1. finalize(c) \/ publish(c) \/ finish(c, "failed")
    BY <1>2 DEF handler, authz_done, Answers
  <2>2. Clean(c) /\ Unhooked(c)
    BY <1>2 DEF Stage, Early
  <2> QED BY <2>1, <2>2, FinalizeKeeps, PublishKeeps, FailKeeps
<1>3. CASE k = "respond"
  <2>1. Return(Timer(c, "poll_timer")) \/ finish(c, "failed")
    BY <1>3 DEF handler, respond_done
  <2>2. Stage(c, "poll_timer")
    BY <1>3 DEF Stage, Early, Looking, Late
  <2> QED BY <2>1, <2>2, TimerKeeps, FailKeeps DEF FlowTimers
<1>4. CASE k = "poll"
  <2>1. authorized(c) \/ Return(Timer(c, "poll_timer")) \/ finish(c, "failed")
    BY <1>4 DEF handler, poll_done, Answers
  <2>2. Stage(c, "poll_timer") /\ Published(c)
    BY <1>4 DEF Stage, Early, Looking, Late
  <2> QED BY <2>1, <2>2, AuthorizedKeeps, TimerKeeps, FailKeeps DEF FlowTimers
<1>5. CASE k = "finalize"
  <2>1. Return(Timer(c, "order_timer")) \/ finish(c, "failed")
    BY <1>5 DEF handler, finalize_done
  <2>2. Stage(c, "order_timer")
    BY <1>5 DEF Stage, Early, Looking, Late
  <2> QED BY <2>1, <2>2, TimerKeeps, FailKeeps DEF FlowTimers
<1>6. CASE k = "orderPoll"
  <2> DEFINE d == [c EXCEPT !.ord.finalize_retried = TRUE]
  <2>1. \/ post(c, "download") \/ finalize(d)
        \/ Return(Timer(c, "order_timer")) \/ finish(c, "failed")
    BY <1>6 DEF handler, poll_order_done, Answers
  <2>2. Stage(c, "order_timer") /\ Stage(c, "download") /\ Clean(c)
    BY <1>6 DEF Stage, Early, Looking, Late
  <2>3. Held(d) /\ Quiet(c, d) /\ Trying(d) /\ Clean(d)
    BY <2>2, RetriedHeld
  <2> HIDE DEF d
  <2>4. finalize(d) => Keeps(d)
    BY <2>3, FinalizeKeeps
  <2>5. finalize(d) => Keeps(c)
    BY <2>3, <2>4, KeepsOn
  <2> QED BY <2>1, <2>2, <2>5, PostKeeps, TimerKeeps, FailKeeps
          DEF FlowTimers, Posts
<1>7. CASE k = "download"
  <2> DEFINE s == Stored(c)
             d == [c EXCEPT !.ord.download_retried = TRUE,
                            !.ord.order_poll_tries = 0]
  <2>1. \/ finish(s, "ok") \/ finish(s, "failed")
        \/ Return(Timer(d, "order_timer")) \/ finish(c, "failed")
    BY <1>7 DEF handler, download_done, Answers
  <2>2. Clean(c)
    BY <1>7 DEF Stage, Late
  <2>3. /\ Held(s) /\ ~s.ord.dns_set
        /\ Before(c, s, "ok") /\ Before(c, s, "failed")
    BY <2>2, StoredHeld DEF Clean
  <2>4. Held(d) /\ Quiet(c, d) /\ Trying(d) /\ Clean(d)
    BY <2>2, AgainHeld
  <2> HIDE DEF s, d
  <2>5. finish(s, "ok") \/ finish(s, "failed") => Keeps(c)
    BY <2>3, FinishKeeps
  <2>6. Stage(d, "order_timer")
    BY <2>4 DEF Stage, Early, Looking, Late
  <2>7. Return(Timer(d, "order_timer")) => Keeps(d)
    BY <2>4, <2>6, TimerKeeps DEF FlowTimers
  <2>8. Return(Timer(d, "order_timer")) => Keeps(c)
    BY <2>4, <2>7, KeepsOn
  <2> QED BY <2>1, <2>5, <2>8, FailKeeps
<1> QED BY <1>1, <1>2, <1>3, <1>4, <1>5, <1>6, <1>7 DEF Posts

-----------------------------------------------------------------------------
(* EVENTS                                                                   *)

(* The variables, seen as a handler finds them. *)
LEMMA NowFields ==
  /\ Now.ord = ord /\ Now.pend = pend /\ Now.acct = acct /\ Now.kg = kg
  /\ Now.child = child /\ Now.masked = masked /\ Now.orphans = orphans
  /\ Now.tokens = tokens /\ Now.alpn = alpn /\ Now.cert = cert
  /\ Now.ended = ended /\ Now.calls = calls /\ Now.frame = frame
  /\ Now.added = added /\ Now.tried = tried
BY DEF Now

(* An event of the flow is the one its order waits for. *)
LEMMA WhichWaits ==
  ASSUME NEW n, FlowInv(n), NEW e \in n.pend, e.k \in FlowKinds
  PROVE  /\ Running(n) /\ e.o = n.ord.id
         /\ e.k \in HookTimers => WaitsHook(n)
         /\ e.k \notin HookTimers =>
              Waits(n, e.k) /\ Flow(n) = {e} /\ e = Event(e.k, n.ord.id)
<1>1. e \in Flow(n)
  BY DEF Flow
<1>2. Running(n)
  BY <1>1 DEF FlowInv, Free
<1>3. ASSUME NEW k, Waits(n, k)
      PROVE  k = e.k /\ e = Event(k, n.ord.id) /\ e.o = n.ord.id
               /\ e.k \notin HookTimers /\ Flow(n) = {e}
  <2>1. e = Event(k, n.ord.id) /\ Flow(n) = {e}
    BY <1>1, <1>3 DEF Waits
  <2>2. e.k = k /\ e.o = n.ord.id
    BY <2>1 DEF Event
  <2> QED BY <1>3, <2>1, <2>2 DEF Waits, HookTimers, FlowTimers
<1>4. ASSUME WaitsHook(n)
      PROVE  e.k \in HookTimers /\ e.o = n.ord.id
  BY <1>1, <1>4 DEF WaitsHook, Event
<1>5. ~WaitsKey(n)
  BY <1>1 DEF WaitsKey
<1>6. CASE \E k : Waits(n, k)
  BY <1>2, <1>3, <1>6
<1>7. CASE WaitsHook(n)
  BY <1>2, <1>4, <1>7
<1> QED BY <1>2, <1>5, <1>6, <1>7 DEF Running

(* The loop takes the event: the order is in the hands of its handler. *)
LEMMA Takes ==
  ASSUME NEW n, FlowInv(n), NEW e \in n.pend,
         e.k \in {"directory", "post", "renonce"} \cup FlowTimers,
         NEW a \in AccountType, a.st = n.acct.st, a.post = NoPost,
         NEW c \in StateType,
         c.pend = n.pend \ {e}, c.acct = a,
         c.ord = n.ord, c.kg = n.kg, c.child = n.child,
         c.orphans = n.orphans, c.tokens = n.tokens, c.alpn = n.alpn,
         c.cert = n.cert, c.ended = n.ended, c.calls = n.calls,
         c.frame = n.frame, c.added = n.added, c.tried = n.tried
  PROVE  /\ Held(c) /\ Trying(c) /\ Quiet(n, c) /\ Waits(n, e.k)
         /\ e.o = n.ord.id
         /\ \A s : Stage(n, s) => Stage(c, s)
<1>1. e.k \in FlowKinds /\ e.k \notin HookTimers
  BY DEF FlowKinds, HookTimers, FlowTimers
<1>2. /\ Running(n) /\ e.o = n.ord.id /\ Waits(n, e.k) /\ Flow(n) = {e}
  BY <1>1, WhichWaits
<1>3. World(n) /\ OrderInv(n)
  BY <1>2 DEF FlowInv, Running
<1>4. World(c)
  BY <1>3 DEF World, AccountInv, KeyInv, OthersInv, ChildInv, FrameInv,
              OrphanInv
<1>5. OrderInv(c)
  BY <1>3 DEF OrderInv, AnswerInv, HookInv
<1>6. Flow(c) = {}
  BY <1>2 DEF Flow
<1>7. Held(c) /\ Trying(c)
  BY <1>2, <1>4, <1>5, <1>6 DEF Running, Waits, Held, Alone, Fresh, Trying
<1>8. \A s : Stage(n, s) => Stage(c, s)
  BY DEF Stage, Clean, Unhooked, Published
<1> QED BY <1>2, <1>7, <1>8 DEF Quiet

(* The same for an event that is not the answer of a POST. *)
LEMMA TakenHeld ==
  ASSUME FlowInv(Now), NEW e \in pend, e.k \in {"directory"} \cup FlowTimers
  PROVE  LET c == Taken(e)
         IN  /\ Held(c) /\ Trying(c) /\ Quiet(Now, c) /\ Stage(c, e.k)
             /\ e.o = c.ord.id /\ c.ord = ord /\ c.acct = acct
<1> DEFINE n == Now
           c == [n EXCEPT !.pend = n.pend \ {e}]
<1>1. n.pend = pend /\ n.ord = ord /\ n.acct = acct /\ FlowInv(n)
  BY NowFields
<1>2. Taken(e) = c
  BY DEF Taken
<1> HIDE DEF n
<1>3. n \in StateType /\ n.pend \in SUBSET EventType /\ n.acct \in AccountType
  BY <1>1 DEF FlowInv, World, StateType
<1>4. c \in StateType /\ c.pend = n.pend \ {e} /\ SameButPend(n, c)
  BY <1>3, PutPend
<1> HIDE DEF c
<1>5. Waits(n, e.k) /\ e.k \notin {"post", "renonce"}
  BY <1>1, WhichWaits DEF FlowKinds, FlowTimers, HookTimers
<1>6. n.acct.post = NoPost /\ Stage(n, e.k)
  BY <1>5 DEF Waits
<1>7. /\ Held(c) /\ Trying(c) /\ Quiet(n, c) /\ e.o = n.ord.id
      /\ \A s : Stage(n, s) => Stage(c, s)
  BY <1>1, <1>3, <1>4, <1>6, Takes DEF SameButPend
<1> QED BY <1>1, <1>2, <1>4, <1>6, <1>7 DEF SameButPend, n

(* The answer of a POST, or its failure: the slot is free when the handler   *)
(* is called.                                                                *)
LEMMA DeliveredHeld ==
  ASSUME FlowInv(Now), NEW e \in pend, e.k \in {"post", "renonce"},
         NEW a \in AccountType, a.st = acct.st, a.post = NoPost
  PROVE  LET c == [Taken(e) EXCEPT !.acct = a]
         IN  /\ Held(c) /\ Trying(c) /\ Quiet(Now, c)
             /\ acct.post.k \in Posts /\ Stage(c, acct.post.k)
<1> DEFINE n == Now
           P == n.pend \ {e}
           c == [n EXCEPT !.pend = P, !.acct = a]
<1>1. n.pend = pend /\ n.acct = acct /\ FlowInv(n)
  BY NowFields
<1>2. n \in StateType /\ P \in SUBSET EventType
  BY <1>1 DEF FlowInv, World, StateType, n
<1>3. [Taken(e) EXCEPT !.acct = a] = c
  BY DEF Taken
<1> HIDE DEF n, P
<1>4. /\ c \in StateType /\ c.pend = P /\ c.acct = a
      /\ c.ord = n.ord /\ c.kg = n.kg /\ c.child = n.child
      /\ c.orphans = n.orphans /\ c.tokens = n.tokens /\ c.alpn = n.alpn
      /\ c.cert = n.cert /\ c.ended = n.ended /\ c.calls = n.calls
      /\ c.frame = n.frame /\ c.added = n.added /\ c.tried = n.tried
  BY <1>2 DEF StateType
<1> HIDE DEF c
<1>5. /\ Held(c) /\ Trying(c) /\ Quiet(n, c) /\ Waits(n, e.k)
      /\ \A s : Stage(n, s) => Stage(c, s)
  BY <1>1, <1>4, Takes DEF P
<1>6. n.acct.post.k # "none" /\ Stage(n, n.acct.post.k)
  BY <1>5 DEF Waits
<1>7. n.acct.post.k \in Posts
  BY <1>2, <1>6 DEF StateType, AccountType, PostType, Posts
<1> QED BY <1>1, <1>3, <1>5, <1>6, <1>7 DEF n

-----------------------------------------------------------------------------
(* THE ACTIONS OF THE EVENT LOOP                                            *)

(* directory_done: the newOrder POST is sent and its call not yet over. *)
LEMMA DirectoryStep ==
  ASSUME FlowInv(Now), DirectoryDone
  PROVE  Keeps(Now)
<1>1. PICK e \in pend :
        /\ e.k = "directory"
        /\ \/ /\ frame = 0 /\ CanPost(acct)
              /\ Return([Taken(e) EXCEPT
                           !.acct = account_post(@, "newOrder", e.o),
                           !.pend = @ \cup {Event("post", e.o)},
                           !.frame = e.o])
           \/ finish(Taken(e), "failed")
  BY DEF DirectoryDone
<1> DEFINE c == Taken(e)
           x == account_post(c.acct, "newOrder", c.ord.id)
           P == c.pend \cup {Event("post", c.ord.id)}
           v == [c EXCEPT !.acct = x, !.pend = P, !.frame = c.ord.id]
<1>2. /\ Held(c) /\ Trying(c) /\ Quiet(Now, c) /\ Stage(c, "directory")
      /\ e.o = c.ord.id
  BY <1>1, TakenHeld
<1>3. Return(v) \/ finish(c, "failed")
  BY <1>1, <1>2
<1> HIDE DEF c
<1>4. /\ c \in StateType /\ c.ord \in OrderType /\ c.ord.id \in Orders
      /\ c.acct \in AccountType /\ c.acct.st = "ready"
      /\ c.ord.id \in 0 .. MaxOrders
  BY <1>2, OrderAssumption
     DEF Held, Alone, World, OrderInv, OrderType, StateType, Orders
<1>5. /\ x \in AccountType /\ x.st = "ready"
      /\ x.post.k = "newOrder" /\ x.post.o = c.ord.id /\ ~x.post.retried
  <2>1. "newOrder" \in Posts
    BY DEF Posts
  <2> QED BY <1>4, <2>1, AccountPostFacts
<1>6. P \in SUBSET EventType
  BY <1>4 DEF StateType, EventType, Event, Orders
<1> HIDE DEF x, P
<1>7. /\ v \in StateType /\ v.acct = x /\ v.pend = P /\ v.frame = c.ord.id
      /\ v.ord = c.ord /\ v.kg = c.kg /\ v.child = c.child
      /\ v.orphans = c.orphans /\ v.tokens = c.tokens /\ v.alpn = c.alpn
      /\ v.cert = c.cert /\ v.ended = c.ended /\ v.calls = c.calls
      /\ v.added = c.added /\ v.tried = c.tried
  BY <1>4, <1>5, <1>6 DEF StateType
<1> HIDE DEF v
<1>8. Stage(c, "newOrder")
  BY <1>2 DEF Stage, Early, Looking, Late
<1>9. FlowInv(v) /\ Quiet(c, v)
  BY <1>2, <1>5, <1>7, <1>8, Arms DEF P
<1>10. Keeps(c)
  BY <1>2, <1>3, <1>9, ReturnKeeps, FailKeeps
<1> QED BY <1>2, <1>10, KeepsOn

(* The slot of the account is released with the answer. *)
LEMMA DeliveredFacts ==
  ASSUME NEW a \in AccountType, NEW n \in {a.nonce, "fresh"}
  PROVE  /\ delivered(a) \in AccountType /\ delivered(a).st = a.st
         /\ delivered(a).post = NoPost
         /\ delivered(set_nonce(a, n)) \in AccountType
         /\ delivered(set_nonce(a, n)).st = a.st
         /\ delivered(set_nonce(a, n)).post = NoPost
<1>1. NoPost \in PostType
  BY DEF NoPost, PostType
<1> QED BY <1>1 DEF AccountType, delivered, set_nonce

(* post_done: the answer of the CA. *)
LEMMA PostDoneStep ==
  ASSUME FlowInv(Now), PostDone
  PROVE  Keeps(Now)
<1>1. PICK e \in pend, n \in {acct.nonce, "fresh"} :
        /\ e.k = "post"
        /\ \E ans \in IF frame = 0 THEN Answers(acct.post.k) ELSE {"bad"} :
             handler([Taken(e) EXCEPT !.acct = delivered(set_nonce(@, n))],
                     acct.post.k, ans)
  BY DEF PostDone
<1> DEFINE a == delivered(set_nonce(acct, n))
           c == [Taken(e) EXCEPT !.acct = a]
<1>2. acct \in AccountType
  BY NowFields DEF FlowInv, World, StateType
<1>3. a \in AccountType /\ a.st = acct.st /\ a.post = NoPost
  BY <1>2, DeliveredFacts
<1>4. [Taken(e) EXCEPT !.acct = delivered(set_nonce(@, n))] = c
  <2>1. Taken(e).acct = acct
    BY DEF Taken, Now
  <2> HIDE DEF Taken
  <2> QED BY <2>1
<1> HIDE DEF a
<1>5. /\ Held(c) /\ Trying(c) /\ Quiet(Now, c)
      /\ acct.post.k \in Posts /\ Stage(c, acct.post.k)
  BY <1>1, <1>3, DeliveredHeld
<1>6. PICK ans \in IF frame = 0 THEN Answers(acct.post.k) ELSE {"bad"} :
        handler(c, acct.post.k, ans)
  BY <1>1, <1>4
<1> HIDE DEF c
<1>7. \A k \in Posts : "bad" \in Answers(k)
  BY DEF Posts, Answers
<1>8. ans \in Answers(acct.post.k)
  BY <1>5, <1>6, <1>7
<1>9. Keeps(c)
  BY <1>5, <1>6, <1>8, HandlerKeeps
<1> QED BY <1>5, <1>9, KeepsOn

(* post_fail: the POST could not be sent again. *)
LEMMA PostFailStep ==
  ASSUME FlowInv(Now), PostFail
  PROVE  Keeps(Now)
<1>1. PICK e \in pend :
        /\ e.k \in {"post", "renonce"}
        /\ handler([Taken(e) EXCEPT !.acct = delivered(@)], acct.post.k,
                   Lost(acct.post.k))
  BY DEF PostFail
<1> DEFINE a == delivered(acct)
           c == [Taken(e) EXCEPT !.acct = a]
<1>2. acct \in AccountType
  BY NowFields DEF FlowInv, World, StateType
<1>3. a \in AccountType /\ a.st = acct.st /\ a.post = NoPost
  BY <1>2, DeliveredFacts
<1>4. [Taken(e) EXCEPT !.acct = delivered(@)] = c
  <2>1. Taken(e).acct = acct
    BY DEF Taken, Now
  <2> HIDE DEF Taken
  <2> QED BY <2>1
<1> HIDE DEF a
<1>5. /\ Held(c) /\ Trying(c) /\ Quiet(Now, c)
      /\ acct.post.k \in Posts /\ Stage(c, acct.post.k)
  BY <1>1, <1>3, DeliveredHeld
<1>6. handler(c, acct.post.k, Lost(acct.post.k))
  BY <1>1, <1>4
<1> HIDE DEF c
<1>7. \A k \in Posts : Lost(k) \in Answers(k)
  BY DEF Posts, Answers, Lost
<1>8. Keeps(c)
  BY <1>5, <1>6, <1>7, HandlerKeeps
<1> QED BY <1>5, <1>8, KeepsOn

(* poll_timer: one try more, up to the limit. *)
LEMMA PollStep ==
  ASSUME FlowInv(Now), PollTimer
  PROVE  Keeps(Now)
<1>1. PICK e \in pend :
        /\ e.k = "poll_timer"
        /\ LET c == [Taken(e) EXCEPT !.ord.poll_tries = @ + 1]
           IN  IF c.ord.poll_tries > POLL_MAX THEN finish(c, "failed")
               ELSE post(c, "poll")
  BY DEF PollTimer, Due
<1> DEFINE t == Taken(e)
           q == [t.ord EXCEPT !.poll_tries = @ + 1]
           c == [t EXCEPT !.ord = q]
<1>2. Held(t) /\ Trying(t) /\ Quiet(Now, t) /\ Stage(t, "poll_timer")
  BY <1>1, TakenHeld DEF FlowTimers
<1>3. IF c.ord.poll_tries > POLL_MAX THEN finish(c, "failed") ELSE post(c, "poll")
  BY <1>1
<1> HIDE DEF t
<1>4. t.ord \in OrderType /\ t.ord.poll_tries + 1 \in 0 .. POLL_MAX + 1
  BY <1>2, OrderAssumption DEF Held, Alone, OrderInv, OrderType, Trying
<1>5. SameFlags(t, q) /\ q.order_poll_tries = t.ord.order_poll_tries
  BY <1>2, <1>4 DEF Held, Fresh, Alone, OrderInv, OrderType, SameFlags
<1> HIDE DEF q
<1>6. Held(c) /\ c.ord = q /\ SameRest(t, c) /\ Quiet(t, c)
  BY <1>2, <1>5, OrdHeld
<1> HIDE DEF c
<1>7. Stage(c, "poll")
  BY <1>2, <1>5, <1>6
     DEF Stage, Early, Looking, Late, Published, SameRest, SameFlags
<1>8. ~(c.ord.poll_tries > POLL_MAX) => Trying(c)
  BY <1>2, <1>5, <1>6, OrderAssumption DEF Trying, SameFlags, OrderType
<1>9. Keeps(c)
  BY <1>3, <1>6, <1>7, <1>8, PostKeeps, FailKeeps DEF Posts
<1> QED BY <1>2, <1>6, <1>9, KeepsOn

(* poll_order_timer likewise. *)
LEMMA OrderTimerStep ==
  ASSUME FlowInv(Now), OrderTimer
  PROVE  Keeps(Now)
<1>1. PICK e \in pend :
        /\ e.k = "order_timer"
        /\ LET c == [Taken(e) EXCEPT !.ord.order_poll_tries = @ + 1]
           IN  IF c.ord.order_poll_tries > POLL_MAX THEN finish(c, "failed")
               ELSE post(c, "orderPoll")
  BY DEF OrderTimer, Due
<1> DEFINE t == Taken(e)
           q == [t.ord EXCEPT !.order_poll_tries = @ + 1]
           c == [t EXCEPT !.ord = q]
<1>2. Held(t) /\ Trying(t) /\ Quiet(Now, t) /\ Stage(t, "order_timer")
  BY <1>1, TakenHeld DEF FlowTimers
<1>3. IF c.ord.order_poll_tries > POLL_MAX THEN finish(c, "failed")
      ELSE post(c, "orderPoll")
  BY <1>1
<1> HIDE DEF t
<1>4. t.ord \in OrderType /\ t.ord.order_poll_tries + 1 \in 0 .. POLL_MAX + 1
  BY <1>2, OrderAssumption DEF Held, Alone, OrderInv, OrderType, Trying
<1>5. SameFlags(t, q) /\ q.poll_tries = t.ord.poll_tries
  BY <1>2, <1>4 DEF Held, Fresh, Alone, OrderInv, OrderType, SameFlags
<1> HIDE DEF q
<1>6. Held(c) /\ c.ord = q /\ SameRest(t, c) /\ Quiet(t, c)
  BY <1>2, <1>5, OrdHeld
<1> HIDE DEF c
<1>7. Stage(c, "orderPoll")
  BY <1>2, <1>5, <1>6
     DEF Stage, Early, Looking, Late, Clean, SameRest, SameFlags
<1>8. ~(c.ord.order_poll_tries > POLL_MAX) => Trying(c)
  BY <1>2, <1>5, <1>6, OrderAssumption DEF Trying, SameFlags, OrderType
<1>9. Keeps(c)
  BY <1>3, <1>6, <1>7, <1>8, PostKeeps, FailKeeps DEF Posts
<1> QED BY <1>2, <1>6, <1>9, KeepsOn

(* dns_delay_timer: the CA is asked to look, the record being there. *)
LEMMA DelayStep ==
  ASSUME FlowInv(Now), DelayTimer
  PROVE  Keeps(Now)
<1>1. PICK e \in pend : e.k = "delay_timer" /\ post(Taken(e), "respond")
  BY DEF DelayTimer, Due
<1> DEFINE c == Taken(e)
<1>2. Held(c) /\ Trying(c) /\ Quiet(Now, c) /\ Stage(c, "delay_timer")
  BY <1>1, TakenHeld DEF FlowTimers
<1> HIDE DEF c
<1>3. Stage(c, "respond")
  BY <1>2 DEF Stage, Early, Looking, Late
<1>4. Keeps(c)
  BY <1>1, <1>2, <1>3, PostKeeps DEF c, Posts
<1> QED BY <1>2, <1>4, KeepsOn

(* What goes on without a handler of the flow: hook children end and are     *)
(* reaped, the key thread ends, the deadline of a hook passes.  A child is   *)
(* neither started nor forgotten, and a reaped one stays so.                 *)
ChildMoves(n, v) ==
  /\ \A p \in Hooks : v.child[p] = "none" <=> n.child[p] = "none"
  /\ \A p \in Hooks : n.child[p] = "reaped" => v.child[p] = "reaped"
  /\ \A o \in Orders : v.child[<<o, "add">>] = "exit0" => o \in v.added
  /\ n.added \subseteq v.added

(* Whatever hook children, the reaper and the key thread do while no handler *)
(* runs leaves the flow waiting for the same one thing; only a hook's        *)
(* deadline_timer may be gone, and no order begins or ends.                  *)
LEMMA Outside ==
  ASSUME NEW n, FlowInv(n), NEW v \in StateType, ChildMoves(n, v),
         v.pend \subseteq n.pend,
         \A e \in Flow(n) : e.k # "deadline_timer" => e \in v.pend,
         v.kg.order = n.kg.order, KeyInv(v), OrphanInv(v),
         v.frame \in {n.frame, 0},
         v.ord = n.ord, v.acct = n.acct,
         v.tokens = n.tokens, v.alpn = n.alpn, v.cert = n.cert,
         v.ended = n.ended, v.calls = n.calls, v.tried = n.tried
  PROVE  FlowInv(v) /\ Quiet(n, v)
<1>0. World(n) /\ n \in StateType
  BY DEF FlowInv, World
<1>1. AccountInv(v)
  BY <1>0 DEF World, AccountInv
<1>2. \A o \in Orders : <<o, "add">> \in Hooks /\ <<o, "remove">> \in Hooks
  BY DEF Hooks
<1>3. OthersInv(v)
  BY <1>0, <1>2 DEF World, OthersInv, ChildMoves
<1>4. ChildInv(v)
  BY <1>0, <1>2 DEF World, ChildInv, ChildMoves
<1>5. World(v)
  BY <1>0, <1>1, <1>3, <1>4 DEF World, FrameInv
<1>6. ASSUME Free(n) PROVE Free(v)
  BY <1>6 DEF Free, Flow
<1>7. ASSUME Running(n) PROVE Running(v)
  <2>1. OrderInv(n) /\ n.ord.id \in Orders
    BY <1>7 DEF Running, OrderInv, OrderType
  <2>2. OrderInv(v)
    <3>1. HookInv(v)
      BY <1>2, <2>1 DEF OrderInv, HookInv, ChildMoves
    <3>2. AnswerInv(v)
      BY <2>1 DEF OrderInv, AnswerInv
    <3> QED BY <2>1, <3>1, <3>2 DEF OrderInv
  <2>3. ASSUME NEW s, Stage(n, s) PROVE Stage(v, s)
    BY <1>2, <2>1, <2>3 DEF Stage, Clean, Unhooked, Published, ChildMoves
  <2>4. ASSUME NEW k, Waits(n, k) PROVE Waits(v, k)
    <3>1. k # "deadline_timer"
      BY <2>4 DEF Waits, FlowTimers
    <3>2. Flow(v) = {Event(k, v.ord.id)}
      BY <2>4, <3>1 DEF Waits, Flow, Event
    <3> QED BY <2>3, <2>4, <3>2 DEF Waits, Fresh, Trying
  <2>5. ASSUME WaitsHook(n) PROVE WaitsHook(v)
    <3>1. Event("hook_timer", v.ord.id) \in Flow(v)
      BY <2>5 DEF WaitsHook, Flow, Event
    <3>2. Flow(v) \subseteq {Event(k, v.ord.id) : k \in HookTimers}
      BY <2>5 DEF WaitsHook, Flow
    <3> QED BY <2>5, <3>1, <3>2 DEF WaitsHook, Fresh, Trying
  <2>6. ASSUME WaitsKey(n) PROVE WaitsKey(v)
    BY <2>6 DEF WaitsKey, Flow, Fresh, Trying, Clean
  <2> QED BY <1>7, <2>2, <2>4, <2>5, <2>6 DEF Running
<1> QED BY <1>5, <1>6, <1>7 DEF FlowInv, Quiet

(* dns_hook_timer: the hook was waited for. *)
LEMMA HookStep ==
  ASSUME FlowInv(Now), HookTimer
  PROVE  Keeps(Now)
<1> DEFINE p == <<ord.id, ord.hook>>
           M == IF platform = "posix" THEN ord.mask ELSE masked
           ok == /\ child[p] = "exit0"
                 /\ platform = "win32" => ~ord.timed_out
           rc == IF ok THEN "ok" ELSE "failed"
<1>1. PICK e \in pend :
        /\ e.k = "hook_timer" /\ child[p] \in Dead
        /\ hook_done([Taken(e) EXCEPT
                        !.child[p] = "reaped",
                        !.masked = IF platform = "posix" THEN ord.mask ELSE @],
                     rc)
  BY DEF HookTimer, Due
<1> DEFINE n == Now
           P == n.pend \ {e}
           K == [n.child EXCEPT ![p] = "reaped"]
           c == [n EXCEPT !.pend = P, !.child = K, !.masked = M]
<1>2. hook_done(c, rc)
  BY <1>1 DEF Taken, Now
<1>3. /\ n.pend = pend /\ n.ord = ord /\ n.child = child /\ n.masked = masked
      /\ FlowInv(n)
  BY NowFields
<1> HIDE DEF n
<1>4. Running(n) /\ WaitsHook(n)
  BY <1>1, <1>3, WhichWaits DEF FlowKinds, HookTimers
<1>5. World(n) /\ n \in StateType /\ OrderInv(n)
  BY <1>3, <1>4 DEF FlowInv, World, Running
<1>6. /\ n.ord \in OrderType /\ n.ord.id \in Orders /\ ord.mask \in BOOLEAN
      /\ n.ord.hook \in {"add", "remove"} /\ p \in Hooks
      /\ p = <<n.ord.id, n.ord.hook>>
  BY <1>3, <1>4, <1>5 DEF OrderInv, OrderType, WaitsHook, Hooks
<1>7. /\ n.child \in [Hooks -> States] /\ n.masked \in BOOLEAN
      /\ n.pend \in SUBSET EventType
  BY <1>5 DEF StateType
<1>8. P \in SUBSET EventType /\ M \in BOOLEAN
  BY <1>3, <1>6, <1>7
<1>9. /\ K \in [Hooks -> States] /\ K[p] = "reaped"
      /\ \A x \in Hooks : x # p => K[x] = n.child[x]
  BY <1>6, <1>7 DEF States, Dead
<1> HIDE DEF p, M, P, K
<1>10. /\ c \in StateType /\ c.pend = P /\ c.child = K
       /\ c.ord = n.ord /\ c.kg = n.kg /\ c.acct = n.acct
       /\ c.orphans = n.orphans /\ c.tokens = n.tokens /\ c.alpn = n.alpn
       /\ c.cert = n.cert /\ c.ended = n.ended /\ c.calls = n.calls
       /\ c.frame = n.frame /\ c.added = n.added /\ c.tried = n.tried
  BY <1>5, <1>8, <1>9 DEF StateType
<1> HIDE DEF c
<1>11. n.child[p] \in Dead /\ n.child[p] # "none"
  BY <1>1, <1>3 DEF Dead
<1>12. ChildMoves(n, c)
  <2>1. \A x \in Hooks : c.child[x] = "none" <=> n.child[x] = "none"
    BY <1>9, <1>10, <1>11
  <2>2. \A x \in Hooks : n.child[x] = "reaped" => c.child[x] = "reaped"
    BY <1>9, <1>10
  <2>3. \A o \in Orders : c.child[<<o, "add">>] = "exit0" => o \in c.added
    <3>1. \A o \in Orders : <<o, "add">> \in Hooks
      BY DEF Hooks
    <3> QED BY <1>5, <1>9, <1>10, <3>1 DEF World, ChildInv
  <2> QED BY <1>10, <2>1, <2>2, <2>3 DEF ChildMoves
<1>13. World(c)
  <2>1. \A o \in Orders : <<o, "add">> \in Hooks /\ <<o, "remove">> \in Hooks
    BY DEF Hooks
  <2>2. OthersInv(c) /\ ChildInv(c)
    BY <1>5, <1>10, <1>12, <2>1 DEF World, OthersInv, ChildInv, ChildMoves
  <2>3. AccountInv(c)
    BY <1>5, <1>10 DEF World, AccountInv, P
  <2> QED BY <1>5, <1>10, <2>2, <2>3
          DEF World, KeyInv, FrameInv, OrphanInv
<1>14. OrderInv(c)
  <2>1. <<n.ord.id, "add">> \in Hooks /\ <<n.ord.id, "remove">> \in Hooks
    BY <1>6 DEF Hooks
  <2>2. HookInv(c)
    BY <1>5, <1>10, <1>12, <2>1 DEF OrderInv, HookInv, ChildMoves
  <2> QED BY <1>5, <1>10, <2>2 DEF OrderInv, AnswerInv
<1>15. \A f \in Flow(c) : f.k \in HookTimers
  BY <1>4, <1>10 DEF Flow, WaitsHook, Event, P
<1>16. rc = "ok" /\ n.ord.hook = "add" => n.ord.id \in n.added
  BY <1>3, <1>5, <1>6 DEF World, ChildInv, p
<1> HIDE DEF ok, rc
<1>17. HookOver(c, rc)
  BY <1>4, <1>6, <1>9, <1>10, <1>13, <1>14, <1>15, <1>16
     DEF HookOver, Running, WaitsHook, Fresh, Trying
<1>18. Keeps(c)
  BY <1>2, <1>17, HookDoneKeeps DEF rc
<1>19. Quiet(n, c)
  BY <1>10 DEF Quiet
<1> QED BY <1>18, <1>19, KeepsOn DEF n

(* dns_hook_deadline: the child is killed, and its exit still waited for. *)
LEMMA DeadlineStep ==
  ASSUME FlowInv(Now), DeadlineTimer
  PROVE  Keeps(Now)
<1> DEFINE p == <<ord.id, ord.hook>>
<1>1. PICK e \in pend :
        /\ e.k = "deadline_timer"
        /\ Return([Taken(e) EXCEPT !.ord.timed_out = TRUE,
                                   !.child[p] = Killed(@)])
  BY DEF DeadlineTimer, Due
<1> DEFINE n == Now
           P == n.pend \ {e}
           K == [n.child EXCEPT ![p] = Killed(@)]
           w == [n EXCEPT !.pend = P, !.child = K]
           q == [n.ord EXCEPT !.timed_out = TRUE]
           v == [w EXCEPT !.ord = q]
<1>2. n.pend = pend /\ n.ord = ord /\ n.child = child /\ FlowInv(n)
  BY NowFields
<1>3. Return([n EXCEPT !.pend = P, !.ord = q, !.child = K])
  BY <1>1 DEF Taken
<1> HIDE DEF n
<1>4. Running(n) /\ WaitsHook(n) /\ n \in StateType /\ World(n)
  BY <1>1, <1>2, WhichWaits DEF FlowKinds, HookTimers, FlowInv, World
<1>5. /\ n.ord \in OrderType /\ n.ord.id \in Orders
      /\ n.ord.hook \in {"add", "remove"} /\ p \in Hooks
  BY <1>2, <1>4 DEF Running, OrderInv, OrderType, WaitsHook, Hooks
<1>6. n.child \in [Hooks -> States] /\ n.pend \in SUBSET EventType
  BY <1>4 DEF StateType
<1>7. P \in SUBSET EventType
  BY <1>6
<1>8. /\ K \in [Hooks -> States]
      /\ \A x \in Hooks : K[x] \in {n.child[x], Killed(n.child[x])}
  BY <1>6 DEF States, Dead, Killed
<1>9. /\ q \in OrderType /\ q.id = n.ord.id /\ q.mode = n.ord.mode
      /\ q.set = n.ord.set /\ q.dns_set = n.ord.dns_set
      /\ q.hook = n.ord.hook /\ q.is_add = n.ord.is_add
      /\ q.cert_key = n.ord.cert_key /\ q.done = n.ord.done
      /\ q.cleanup = n.ord.cleanup /\ q.after_authz = n.ord.after_authz
      /\ q.finish_rc = n.ord.finish_rc /\ q.poll_tries = n.ord.poll_tries
      /\ q.order_poll_tries = n.ord.order_poll_tries
  BY <1>5 DEF OrderType
<1> HIDE DEF P, K, q, p
<1>10. /\ w \in StateType /\ w.pend = P /\ w.child = K
       /\ w.ord = n.ord /\ w.kg = n.kg /\ w.acct = n.acct
       /\ w.orphans = n.orphans /\ w.tokens = n.tokens /\ w.alpn = n.alpn
       /\ w.cert = n.cert /\ w.ended = n.ended /\ w.calls = n.calls
       /\ w.frame = n.frame /\ w.added = n.added /\ w.tried = n.tried
       /\ v = [n EXCEPT !.pend = P, !.ord = q, !.child = K]
  BY <1>4, <1>7, <1>8 DEF StateType
<1> HIDE DEF w
<1>11. ChildMoves(n, w)
  <2>1. \A o \in Orders : <<o, "add">> \in Hooks
    BY DEF Hooks
  <2> QED BY <1>4, <1>8, <1>10, <2>1
          DEF ChildMoves, Killed, World, ChildInv
<1>12. /\ w.pend \subseteq n.pend
       /\ \A f \in Flow(n) : f.k # "deadline_timer" => f \in w.pend
  BY <1>1, <1>10 DEF Flow, P
<1>13. FlowInv(w) /\ Quiet(n, w)
  <2>1. KeyInv(w) /\ OrphanInv(w)
    BY <1>4, <1>10 DEF World, KeyInv, OrphanInv
  <2> QED BY <1>2, <1>10, <1>11, <1>12, <2>1, Outside
<1>14. v \in StateType /\ v.ord = q /\ SameRest(w, v)
  BY <1>9, <1>10, PutOrd
<1>15. Return(v)
  BY <1>3, <1>10
<1> HIDE DEF v
<1>16. World(v)
  BY <1>9, <1>10, <1>13, <1>14
     DEF FlowInv, World, SameRest, AccountInv, KeyInv, OthersInv, ChildInv,
         FrameInv, OrphanInv
<1>17. w.ord # NoOrder /\ Running(w)
  BY <1>5, <1>10, <1>13 DEF FlowInv, Free, NoOrder, Orders
<1>18. OrderInv(v)
  BY <1>9, <1>10, <1>14, <1>17
     DEF Running, OrderInv, AnswerInv, HookInv, SameRest
<1>19. WaitsHook(v)
  <2>1. /\ Event("hook_timer", n.ord.id) \in Flow(v)
        /\ Flow(v) \subseteq {Event(k, n.ord.id) : k \in HookTimers}
    BY <1>4, <1>10, <1>12, <1>14 DEF WaitsHook, Flow, Event, SameRest
  <2>2. /\ v.ord = q /\ v.kg = n.kg /\ v.acct = n.acct /\ v.tried = n.tried
    BY <1>10, <1>14 DEF SameRest
  <2>3. Fresh(n) /\ Trying(n) => Fresh(v) /\ Trying(v)
    BY <1>9, <2>2 DEF Fresh, Trying
  <2>4. Trying(n) => Trying(v)
    BY <1>9, <2>2 DEF Trying
  <2>5. CASE n.ord.hook = "add"
    BY <1>4, <1>9, <2>1, <2>2, <2>3, <2>5 DEF WaitsHook
  <2>6. CASE n.ord.hook = "remove"
    <3>1. \/ /\ n.ord.after_authz /\ ~n.ord.cleanup
             /\ ~n.ord.done /\ Trying(n)
          \/ /\ n.ord.cleanup /\ ~n.ord.after_authz
             /\ n.ord.done /\ n.ord.finish_rc = "failed"
      BY <1>4, <2>6 DEF WaitsHook
    <3>2. \/ /\ v.ord.after_authz /\ ~v.ord.cleanup
             /\ ~v.ord.done /\ Trying(v)
          \/ /\ v.ord.cleanup /\ ~v.ord.after_authz
             /\ v.ord.done /\ v.ord.finish_rc = "failed"
      BY <1>9, <2>2, <2>4, <3>1
    <3>3. /\ v.ord.hook = "remove" /\ ~v.ord.is_add /\ v.ord.id \in v.tried
          /\ v.kg.order = 0 /\ v.acct.post = NoPost
          /\ ~v.ord.set /\ v.ord.dns_set /\ v.ord.id = n.ord.id
      BY <1>4, <1>9, <2>2, <2>6 DEF WaitsHook
    <3> QED BY <2>1, <3>2, <3>3 DEF WaitsHook
  <2> QED BY <1>5, <2>5, <2>6
<1>20. FlowInv(v) /\ Quiet(n, v)
  <2>1. v.ended[v.ord.id] = "unused"
    BY <1>9, <1>10, <1>14, <1>17 DEF Running, SameRest
  <2> QED BY <1>9, <1>10, <1>14, <1>16, <1>18, <1>19, <2>1
          DEF FlowInv, Running, Quiet, SameRest
<1> QED BY <1>15, <1>20, ReturnKeeps DEF n

(* orphan_reap: children of freed orders are waited for. *)
LEMMA OrphanStep ==
  ASSUME FlowInv(Now), OrphanTimer
  PROVE  Keeps(Now)
<1> DEFINE n == Now
           gone == {p \in n.orphans : n.child[p] \in Dead}
           left == n.orphans \ gone
           K == [p \in Hooks |-> IF p \in gone THEN "reaped" ELSE n.child[p]]
           M == IF left = {} THEN FALSE ELSE n.masked
<1>1. PICK e \in pend :
        /\ e.k = "orphan_timer"
        /\ Return([n EXCEPT !.child = K, !.orphans = left, !.masked = M,
                            !.pend = IF left = {} THEN @ \ {e} ELSE @])
  BY NowFields DEF OrphanTimer, Due
<1> DEFINE P == IF left = {} THEN n.pend \ {e} ELSE n.pend
           v == [n EXCEPT !.child = K, !.orphans = left, !.masked = M, !.pend = P]
<1>2. Return(v) /\ FlowInv(n)
  BY <1>1
<1> HIDE DEF n
<1>3. World(n) /\ n \in StateType
  BY <1>2 DEF FlowInv, World
<1>4. /\ n.child \in [Hooks -> States] /\ n.masked \in BOOLEAN
      /\ n.pend \in SUBSET EventType /\ n.orphans \in SUBSET Hooks
  BY <1>3 DEF StateType
<1>5. /\ K \in [Hooks -> States] /\ M \in BOOLEAN /\ P \in SUBSET EventType
      /\ left \in SUBSET Hooks
  BY <1>4 DEF States, Dead
<1>6. \A p \in Hooks :
        \/ K[p] = n.child[p]
        \/ K[p] = "reaped" /\ n.child[p] # "none"
  BY DEF Dead
<1>7. P \subseteq n.pend /\ \A f \in Flow(n) : f \in P
  BY <1>1 DEF Flow, FlowKinds, FlowTimers, HookTimers
<1>8. left \subseteq n.orphans
  OBVIOUS
<1> HIDE DEF K, M, P, left
<1>9. /\ v \in StateType /\ v.pend = P /\ v.child = K /\ v.orphans = left
      /\ v.ord = n.ord /\ v.kg = n.kg /\ v.acct = n.acct
      /\ v.tokens = n.tokens /\ v.alpn = n.alpn
      /\ v.cert = n.cert /\ v.ended = n.ended /\ v.calls = n.calls
      /\ v.frame = n.frame /\ v.added = n.added /\ v.tried = n.tried
  BY <1>3, <1>5 DEF StateType
<1> HIDE DEF v
<1>10. OrphanInv(v)
  <2>1. IsFiniteSet(n.orphans) /\ Cardinality(n.orphans) <= ORPHAN_MAX
    BY <1>3 DEF World, OrphanInv
  <2>2. IsFiniteSet(left) /\ Cardinality(left) <= Cardinality(n.orphans)
    BY <1>8, <2>1, FS_Subset
  <2>3. Cardinality(left) \in Nat /\ Cardinality(n.orphans) \in Nat
    BY <2>1, <2>2, FS_CardinalityType
  <2>4. Cardinality(left) <= ORPHAN_MAX
    BY <2>1, <2>2, <2>3, OrderAssumption
  <2> QED BY <1>9, <2>2, <2>4 DEF OrphanInv
<1>11. ChildMoves(n, v)
  <2>1. \A o \in Orders : <<o, "add">> \in Hooks
    BY DEF Hooks
  <2> QED BY <1>3, <1>6, <1>9, <2>1 DEF ChildMoves, World, ChildInv
<1>12. KeyInv(v)
  BY <1>3, <1>9 DEF World, KeyInv
<1>13. FlowInv(v) /\ Quiet(n, v)
  BY <1>2, <1>7, <1>9, <1>10, <1>11, <1>12, Outside
<1> QED BY <1>2, <1>13, ReturnKeeps DEF n

(* Two ways to say that the children change. *)
LEMMA SameAdded ==
  ASSUME NEW n \in StateType, NEW K
  PROVE  [n EXCEPT !.child = K] = [n EXCEPT !.child = K, !.added = n.added]
BY DEF StateType

(* The children change and nothing else does. *)
LEMMA ChildrenKeep ==
  ASSUME FlowInv(Now), NEW K \in [Hooks -> States], NEW A \in SUBSET Orders,
         LET v == [Now EXCEPT !.child = K, !.added = A]
         IN  Return(v) /\ (v.child = K /\ v.added = A => ChildMoves(Now, v))
  PROVE  Keeps(Now)
<1> DEFINE n == Now
           v == [n EXCEPT !.child = K, !.added = A]
<1>1. FlowInv(n) /\ Return(v) /\ (v.child = K /\ v.added = A => ChildMoves(n, v))
  OBVIOUS
<1> HIDE DEF n
<1>2. World(n) /\ n \in StateType
  BY <1>1 DEF FlowInv, World
<1>3. /\ v \in StateType /\ v.child = K /\ v.added = A /\ v.pend = n.pend
      /\ v.ord = n.ord /\ v.kg = n.kg /\ v.acct = n.acct
      /\ v.orphans = n.orphans /\ v.tokens = n.tokens /\ v.alpn = n.alpn
      /\ v.cert = n.cert /\ v.ended = n.ended /\ v.calls = n.calls
      /\ v.frame = n.frame /\ v.tried = n.tried
  BY <1>2 DEF StateType
<1>4. ChildMoves(n, v)
  BY <1>1, <1>3
<1> HIDE DEF v
<1>5. KeyInv(v) /\ OrphanInv(v)
  BY <1>2, <1>3 DEF World, KeyInv, OrphanInv
<1>6. \A e \in Flow(n) : e \in v.pend
  BY <1>3 DEF Flow
<1>7. FlowInv(v) /\ Quiet(n, v)
  BY <1>1, <1>3, <1>4, <1>5, <1>6, Outside
<1> QED BY <1>1, <1>7, ReturnKeeps DEF n

(* A hook ends by itself; the add hook that ends well has added. *)
LEMMA ChildExitsStep ==
  ASSUME FlowInv(Now), ChildExits
  PROVE  Keeps(Now)
<1>1. PICK p \in Hooks, r \in {"exit0", "exit1"} :
        /\ child[p] = "running"
        /\ Return([Now EXCEPT !.child[p] = r,
                              !.added = IF r = "exit0" /\ p[2] = "add"
                                        THEN @ \cup {p[1]} ELSE @])
  BY DEF ChildExits
<1> DEFINE K == [child EXCEPT ![p] = r]
           A == IF r = "exit0" /\ p[2] = "add" THEN added \cup {p[1]} ELSE added
<1>2. World(Now) /\ Now \in StateType
  BY DEF FlowInv, World
<1>3. child \in [Hooks -> States] /\ added \in SUBSET Orders /\ p[1] \in Orders
  BY <1>2, NowFields DEF StateType, Hooks
<1>4. K \in [Hooks -> States] /\ A \in SUBSET Orders /\ added \subseteq A
  BY <1>3 DEF States, Dead
<1>5. /\ \A x \in Hooks : x # p => K[x] = child[x]
      /\ K[p] = r
  BY <1>3
<1>6. Return([Now EXCEPT !.child = K, !.added = A])
  BY <1>1, NowFields
<1>7. ASSUME NEW v, v.child = K, v.added = A
      PROVE  ChildMoves(Now, v)
  <2>1. \A o \in Orders : <<o, "add">> \in Hooks /\ <<o, "add">>[1] = o
                            /\ <<o, "add">>[2] = "add"
    BY DEF Hooks
  <2>2. \A o \in Orders : child[<<o, "add">>] = "exit0" => o \in added
    BY <1>2, NowFields DEF World, ChildInv
  <2>3. \A o \in Orders : v.child[<<o, "add">>] = "exit0" => o \in v.added
    <3> SUFFICES ASSUME NEW o \in Orders, K[<<o, "add">>] = "exit0"
                 PROVE  o \in A
      BY <1>7
    <3>1. CASE <<o, "add">> = p
      BY <1>5, <2>1, <3>1
    <3>2. CASE <<o, "add">> # p
      BY <1>4, <1>5, <2>1, <2>2, <3>2
    <3> QED BY <3>1, <3>2
  <2> HIDE DEF K, A
  <2> QED BY <1>1, <1>4, <1>5, <1>7, <2>3, NowFields DEF ChildMoves
<1> HIDE DEF K, A
<1> DEFINE v == [Now EXCEPT !.child = K, !.added = A]
<1>8. Return(v) /\ (v.child = K /\ v.added = A => ChildMoves(Now, v))
  BY <1>6, <1>7
<1> QED BY <1>4, <1>8, ChildrenKeep

(* A child that was killed ends, ... *)
LEMMA KilledStep ==
  ASSUME FlowInv(Now), KilledDies
  PROVE  Keeps(Now)
<1>1. PICK p \in Hooks :
        child[p] = "killed" /\ Return([Now EXCEPT !.child[p] = "exit1"])
  BY DEF KilledDies
<1> DEFINE K == [child EXCEPT ![p] = "exit1"]
<1>2. World(Now) /\ Now \in StateType
  BY DEF FlowInv, World
<1>3. child \in [Hooks -> States] /\ added \in SUBSET Orders
  BY <1>2, NowFields DEF StateType
<1>4. K \in [Hooks -> States]
  BY <1>3 DEF States, Dead
<1>5. /\ \A x \in Hooks : x # p => K[x] = child[x]
      /\ K[p] = "exit1"
  BY <1>3
<1>6. [Now EXCEPT !.child[p] = "exit1"] = [Now EXCEPT !.child = K, !.added = added]
  <2>1. [Now EXCEPT !.child[p] = "exit1"] = [Now EXCEPT !.child = K]
    BY NowFields
  <2> QED BY <1>2, <2>1, SameAdded, NowFields
<1>7. ASSUME NEW v, v.child = K, v.added = added
      PROVE  ChildMoves(Now, v)
  <2>1. \A o \in Orders : <<o, "add">> \in Hooks
    BY DEF Hooks
  <2>2. \A o \in Orders : child[<<o, "add">>] = "exit0" => o \in added
    BY <1>2, NowFields DEF World, ChildInv
  <2> HIDE DEF K
  <2> QED BY <1>1, <1>5, <1>7, <2>1, <2>2, NowFields DEF ChildMoves
<1> HIDE DEF K
<1> DEFINE v == [Now EXCEPT !.child = K, !.added = added]
<1>8. Return(v) /\ (v.child = K /\ v.added = added => ChildMoves(Now, v))
  BY <1>1, <1>6, <1>7
<1> QED BY <1>3, <1>4, <1>8, ChildrenKeep

(* ... and nginx's own handler may be the one that waits for it. *)
LEMMA ReapStep ==
  ASSUME FlowInv(Now), NginxReaps
  PROVE  Keeps(Now)
<1> DEFINE K == [p \in Hooks |-> IF child[p] \in Dead THEN "reaped" ELSE child[p]]
<1>1. Return([Now EXCEPT !.child = K])
  BY NowFields DEF NginxReaps
<1>2. World(Now) /\ Now \in StateType
  BY DEF FlowInv, World
<1>3. child \in [Hooks -> States] /\ added \in SUBSET Orders
  BY <1>2, NowFields DEF StateType
<1>4. K \in [Hooks -> States]
  BY <1>3 DEF States, Dead
<1>5. \A x \in Hooks : \/ K[x] = child[x]
                       \/ K[x] = "reaped" /\ child[x] # "none"
  BY DEF Dead
<1>6. [Now EXCEPT !.child = K] = [Now EXCEPT !.child = K, !.added = added]
  BY <1>2, SameAdded, NowFields
<1>7. ASSUME NEW v, v.child = K, v.added = added
      PROVE  ChildMoves(Now, v)
  <2>1. \A o \in Orders : <<o, "add">> \in Hooks
    BY DEF Hooks
  <2>2. \A o \in Orders : child[<<o, "add">>] = "exit0" => o \in added
    BY <1>2, NowFields DEF World, ChildInv
  <2> HIDE DEF K
  <2> QED BY <1>5, <1>7, <2>1, <2>2, NowFields DEF ChildMoves
<1> HIDE DEF K
<1> DEFINE v == [Now EXCEPT !.child = K, !.added = added]
<1>8. Return(v) /\ (v.child = K /\ v.added = added => ChildMoves(Now, v))
  BY <1>1, <1>6, <1>7
<1> QED BY <1>3, <1>4, <1>8, ChildrenKeep

(* The slot of the key thread changes, and nobody waits for another key. *)
LEMMA SlotKeeps ==
  ASSUME FlowInv(Now), NEW g \in KgType, g.order = kg.order,
         g.order # 0 => g.busy /\ g.by = g.order,
         Return([Now EXCEPT !.kg = g])
  PROVE  Keeps(Now)
<1> DEFINE n == Now
           v == [n EXCEPT !.kg = g]
<1>1. FlowInv(n) /\ Return(v) /\ n.kg = kg
  BY NowFields
<1> HIDE DEF n
<1>2. World(n) /\ n \in StateType
  BY <1>1 DEF FlowInv, World
<1>3. /\ v \in StateType /\ v.kg = g /\ v.pend = n.pend
      /\ v.ord = n.ord /\ v.child = n.child /\ v.acct = n.acct
      /\ v.orphans = n.orphans /\ v.tokens = n.tokens /\ v.alpn = n.alpn
      /\ v.cert = n.cert /\ v.ended = n.ended /\ v.calls = n.calls
      /\ v.frame = n.frame /\ v.added = n.added /\ v.tried = n.tried
  BY <1>2 DEF StateType
<1> HIDE DEF v
<1>4. KeyInv(v) /\ OrphanInv(v)
  BY <1>2, <1>3 DEF World, KeyInv, OrphanInv
<1>5. ChildMoves(n, v)
  BY <1>2, <1>3 DEF ChildMoves, World, ChildInv
<1>6. \A e \in Flow(n) : e \in v.pend
  BY <1>3 DEF Flow
<1>7. FlowInv(v) /\ Quiet(n, v)
  BY <1>1, <1>3, <1>4, <1>5, <1>6, Outside
<1> QED BY <1>1, <1>7, ReturnKeeps DEF n

(* keygen_thread: the key is there, or there is none. *)
LEMMA ThreadStep ==
  ASSUME FlowInv(Now), KeygenThread
  PROVE  Keeps(Now)
<1>1. PICK r \in {"ok", "failed"} : Return([Now EXCEPT !.kg.key = r])
  BY DEF KeygenThread
<1> DEFINE g == [kg EXCEPT !.key = r]
<1>2. kg \in KgType /\ (kg.order # 0 => kg.busy /\ kg.by = kg.order)
  BY NowFields DEF FlowInv, World, StateType, KeyInv
<1>3. /\ g \in KgType /\ g.order = kg.order /\ g.busy = kg.busy
      /\ g.by = kg.by
  BY <1>2 DEF KgType
<1>4. Return([Now EXCEPT !.kg = g])
  BY <1>1, NowFields
<1> HIDE DEF g
<1> QED BY <1>2, <1>3, <1>4, SlotKeeps

(* keygen_completion: the order that waits for the key is alive, and the key *)
(* was made for it.                                                          *)
LEMMA CompletionStep ==
  ASSUME FlowInv(Now), KeygenCompletion
  PROVE  Keeps(Now)
<1> DEFINE n == Now
           c == [n EXCEPT !.kg = KgIdle]
<1>1. IF kg.order = 0 THEN Return(c)
      ELSE IF kg.key = "failed" THEN finish(c, "failed")
      ELSE finalize_csr([c EXCEPT !.ord.cert_key = kg.by])
  BY DEF KeygenCompletion
<1>2. KgIdle \in KgType /\ KgIdle.order = 0
  BY OrderAssumption DEF KgIdle, KgType
<1>3. CASE kg.order = 0
  BY <1>1, <1>2, <1>3, SlotKeeps
<1>4. CASE kg.order # 0
  <2>1. FlowInv(n) /\ n.kg = kg /\ n.ord = ord
    BY NowFields
  <2> HIDE DEF n
  <2>2. World(n) /\ n \in StateType
    BY <2>1 DEF FlowInv, World
  <2>3. Running(n) /\ WaitsKey(n)
    BY <1>4, <2>1 DEF FlowInv, Running, Free, Waits, WaitsHook
  <2>4. /\ c \in StateType /\ c.kg = KgIdle /\ c.pend = n.pend
        /\ c.ord = n.ord /\ c.child = n.child /\ c.acct = n.acct
        /\ c.orphans = n.orphans /\ c.tokens = n.tokens /\ c.alpn = n.alpn
        /\ c.cert = n.cert /\ c.ended = n.ended /\ c.calls = n.calls
        /\ c.frame = n.frame /\ c.added = n.added /\ c.tried = n.tried
    BY <1>2, <2>2 DEF StateType
  <2> HIDE DEF c
  <2>5. World(c)
    BY <1>2, <2>2, <2>4 DEF World, AccountInv, KeyInv, OthersInv, ChildInv,
                            FrameInv, OrphanInv
  <2>6. OrderInv(c)
    BY <2>3, <2>4 DEF Running, OrderInv, AnswerInv, HookInv
  <2>7. Held(c) /\ Trying(c) /\ Clean(c) /\ Quiet(n, c)
    BY <1>2, <2>3, <2>4, <2>5, <2>6
       DEF Running, WaitsKey, Held, Alone, Fresh, Trying, Clean, Flow, Quiet
  <2>8. kg.by = c.ord.id
    BY <1>4, <2>1, <2>2, <2>3, <2>4 DEF World, KeyInv, WaitsKey
  <2> DEFINE d == [c EXCEPT !.ord.cert_key = c.ord.id]
  <2>9. finish(c, "failed") \/ finalize_csr(d)
    BY <1>1, <1>4, <2>8
  <2>10. Held(d) /\ Quiet(c, d) /\ Trying(d) /\ Clean(d)
    BY <2>7, KeyHeld
  <2> HIDE DEF d
  <2>11. finalize_csr(d) => Keeps(d)
    BY <2>10, PostKeeps DEF finalize_csr, Posts, Stage, Early, Looking
  <2>12. finalize_csr(d) => Keeps(c)
    BY <2>10, <2>11, KeepsOn
  <2>13. Keeps(c)
    BY <2>7, <2>9, <2>12, FailKeeps
  <2> QED BY <2>7, <2>13, KeepsOn DEF n
<1> QED BY <1>3, <1>4

(* The end of new_order: the frame is gone. *)
LEMMA FrameStep ==
  ASSUME FlowInv(Now), ReturnNewOrder
  PROVE  FlowInv(Now') /\ Quiet(Now, Now')
<1> DEFINE n == Now
           v == Now'
<1>1. /\ v.frame = 0 /\ v.kg = n.kg /\ v.pend = n.pend
      /\ v.ord = n.ord /\ v.child = n.child /\ v.acct = n.acct
      /\ v.masked = n.masked
      /\ v.orphans = n.orphans /\ v.tokens = n.tokens /\ v.alpn = n.alpn
      /\ v.cert = n.cert /\ v.ended = n.ended /\ v.calls = n.calls
      /\ v.added = n.added /\ v.tried = n.tried
  BY DEF ReturnNewOrder, accountVars, Now
<1>2. v = [n EXCEPT !.frame = 0]
  BY DEF ReturnNewOrder, accountVars, Now
<1>3. FlowInv(n)
  OBVIOUS
<1> HIDE DEF n, v
<1>4. World(n) /\ n \in StateType
  BY <1>3 DEF FlowInv, World
<1>5. v \in StateType
  BY <1>2, <1>4, OrderAssumption DEF StateType
<1>6. KeyInv(v) /\ OrphanInv(v)
  BY <1>1, <1>4 DEF World, KeyInv, OrphanInv
<1>7. ChildMoves(n, v)
  BY <1>1, <1>4 DEF ChildMoves, World, ChildInv
<1>8. \A e \in Flow(n) : e \in v.pend
  BY <1>1 DEF Flow
<1>9. FlowInv(v) /\ Quiet(n, v)
  BY <1>1, <1>3, <1>5, <1>6, <1>7, <1>8, Outside
<1> QED BY <1>9 DEF n, v

-----------------------------------------------------------------------------
(* THE ACCOUNT                                                              *)

(* The account changes while it is not ready: no order runs. *)
LEMMA RegistrationKeeps ==
  ASSUME NEW n, FlowInv(n), n.acct.st # "ready", NEW v \in StateType,
         AccountInv(v), v.acct.post = NoPost,
         \A e \in v.pend : e \in n.pend \/ e.k \in Registration,
         v.ord = n.ord, v.kg = n.kg, v.child = n.child,
         v.orphans = n.orphans, v.tokens = n.tokens, v.alpn = n.alpn,
         v.cert = n.cert, v.ended = n.ended, v.calls = n.calls,
         v.frame = n.frame, v.added = n.added, v.tried = n.tried
  PROVE  FlowInv(v) /\ Quiet(n, v)
<1>1. World(n) /\ Free(n)
  BY DEF FlowInv, Running, OrderInv
<1>2. Flow(v) = {}
  BY <1>1 DEF Free, Flow, FlowKinds, FlowTimers, HookTimers, Registration
<1>3. World(v)
  BY <1>1 DEF World, KeyInv, OthersInv, ChildInv, FrameInv, OrphanInv
<1> QED BY <1>1, <1>2, <1>3 DEF FlowInv, Free, Quiet

(* What a step of Account leaves: a new account and new events. *)
LEMMA AccountLeaves ==
  ASSUME Now \in StateType, UNCHANGED <<platform, flow>>,
         acct' \in AccountType, pend' \in SUBSET EventType
  PROVE  /\ Now' \in StateType /\ Now'.acct = acct' /\ Now'.pend = pend'
         /\ Now'.ord = Now.ord /\ Now'.kg = Now.kg /\ Now'.child = Now.child
         /\ Now'.orphans = Now.orphans /\ Now'.tokens = Now.tokens
         /\ Now'.alpn = Now.alpn /\ Now'.cert = Now.cert
         /\ Now'.ended = Now.ended /\ Now'.calls = Now.calls
         /\ Now'.frame = Now.frame /\ Now'.added = Now.added
         /\ Now'.tried = Now.tried
<1>1. /\ ord' = ord /\ kg' = kg /\ child' = child /\ masked' = masked
      /\ orphans' = orphans /\ tokens' = tokens /\ alpn' = alpn
      /\ cert' = cert /\ ended' = ended /\ calls' = calls
      /\ frame' = frame /\ added' = added /\ tried' = tried
  BY DEF flow
<1> QED BY <1>1 DEF Now, StateType

(* An event s of the registration is the only one, and is followed by one or *)
(* by none.                                                                  *)
RegistrationMoves ==
  /\ acct.st # "ready" /\ acct' \in AccountType /\ acct'.post = NoPost
  /\ \/ /\ pend' = pend /\ acct' = acct
     \/ \E s, e \in Registration :
          /\ pend' = (pend \ {Event(s, 0)}) \cup {Event(e, 0)}
          /\ acct.st = "none" \/ Event(s, 0) \in pend
          /\ acct'.st = "registering"
     \/ \E s \in Registration :
          /\ pend' = pend \ {Event(s, 0)} /\ Event(s, 0) \in pend
          /\ acct'.st \in {"none", "ready"}

(* A step of the account's registration (account_bootstrap and its handlers) *)
(* keeps the invariant of the flow, which has no order while it is under     *)
(* way or waits for what it does not touch.                                  *)
LEMMA RegistrationLeaves ==
  ASSUME FlowInv(Now), RegistrationMoves, UNCHANGED <<platform, flow>>
  PROVE  FlowInv(Now') /\ Quiet(Now, Now')
<1> DEFINE n == Now
           a == acct'
           P == pend'
           v == Now'
<1>1. FlowInv(n) /\ n.acct = acct /\ n.pend = pend
  BY NowFields
<1>2. /\ n.acct.st # "ready" /\ a \in AccountType /\ a.post = NoPost
      /\ \/ P = n.pend /\ a = n.acct
         \/ \E s, e \in Registration :
              /\ P = (n.pend \ {Event(s, 0)}) \cup {Event(e, 0)}
              /\ n.acct.st = "none" \/ Event(s, 0) \in n.pend
              /\ a.st = "registering"
         \/ \E s \in Registration :
              /\ P = n.pend \ {Event(s, 0)} /\ Event(s, 0) \in n.pend
              /\ a.st \in {"none", "ready"}
  BY NowFields DEF RegistrationMoves
<1> HIDE DEF n, a, P
<1>3. World(n) /\ n \in StateType /\ n.pend \in SUBSET EventType
  BY <1>1 DEF FlowInv, World, StateType
<1>4. \A e \in Registration : Event(e, 0) \in EventType
                                /\ Event(e, 0).k = e /\ Event(e, 0).o = 0
  BY OrderAssumption DEF EventType, Event
<1>5. P \in SUBSET EventType /\ \A e \in P : e \in n.pend \/ e.k \in Registration
  BY <1>2, <1>3, <1>4
<1>6. /\ v \in StateType /\ v.acct = a /\ v.pend = P
      /\ v.ord = n.ord /\ v.kg = n.kg /\ v.child = n.child
      /\ v.orphans = n.orphans /\ v.tokens = n.tokens
      /\ v.alpn = n.alpn /\ v.cert = n.cert /\ v.ended = n.ended
      /\ v.calls = n.calls /\ v.frame = n.frame /\ v.added = n.added
      /\ v.tried = n.tried
  BY <1>2, <1>3, <1>5, AccountLeaves DEF n, a, P
<1> HIDE DEF v
<1>7. AccountInv(v)
  <2>1. AccountInv(n)
    BY <1>3 DEF World
  <2>2. \A e \in n.pend : e.k = "orphan_timer" => e.o = 0
    BY <2>1 DEF AccountInv
  <2>3. \A e \in P : e.k = "orphan_timer" => e.o = 0
    BY <1>2, <1>4, <2>2
  <2>4. CASE P = n.pend /\ a = n.acct
    BY <1>2, <1>6, <2>1, <2>4 DEF AccountInv
  <2>5. ASSUME NEW s \in Registration, NEW e \in Registration,
               P = (n.pend \ {Event(s, 0)}) \cup {Event(e, 0)},
               n.acct.st = "none" \/ Event(s, 0) \in n.pend,
               a.st = "registering"
        PROVE  AccountInv(v)
    <3>1. \A f \in n.pend : f.k \in Registration => f = Event(s, 0)
      BY <1>4, <2>1, <2>5 DEF AccountInv
    <3>2. \A f \in P : f.k \in Registration => f = Event(e, 0)
      BY <2>5, <3>1
    <3> QED BY <1>2, <1>4, <1>6, <2>3, <2>5, <3>2 DEF AccountInv
  <2>6. ASSUME NEW s \in Registration,
               P = n.pend \ {Event(s, 0)}, Event(s, 0) \in n.pend
        PROVE  AccountInv(v)
    <3>1. \A f \in n.pend : f.k \in Registration => f = Event(s, 0)
      BY <1>4, <2>1, <2>6 DEF AccountInv
    <3>2. \A f \in P : f.k \notin Registration
      BY <2>6, <3>1
    <3> QED BY <1>2, <1>6, <2>3, <3>2 DEF AccountInv
  <2> QED BY <1>2, <2>4, <2>5, <2>6
<1>8. FlowInv(v) /\ Quiet(n, v)
  BY <1>1, <1>2, <1>5, <1>6, <1>7, RegistrationKeeps
<1> QED BY <1>8 DEF n, v

(* The steps of the registration are such moves. *)
LEMMA AccountMoves ==
  ASSUME FlowInv(Now), AccountStep
  PROVE  RegistrationMoves
<1>1. acct \in AccountType /\ AccountInv(Now) /\ Now.acct = acct /\ Now.pend = pend
  BY NowFields DEF FlowInv, World, StateType
<1>2. acct.st # "ready" => acct.post = NoPost
  BY <1>1 DEF AccountInv
<1>3. ASSUME NEW s \in Registration, Event(s, 0) \in pend
      PROVE  acct.st = "registering"
  BY <1>1, <1>3 DEF AccountInv, Event
<1>4. NoAccount \in AccountType /\ NoAccount.post = NoPost /\ NoAccount.st = "none"
  BY DEF NoAccount, NoPost, AccountType, PostType
<1>5. CASE AccountRegister
  <2>1. acct.st = "none"
    BY <1>5 DEF AccountRegister
  <2>2. CASE UNCHANGED <<acct, pend>>
    BY <1>1, <1>2, <2>1, <2>2 DEF RegistrationMoves
  <2>3. CASE /\ acct' = [NoAccount EXCEPT !.st = "registering"]
             /\ pend' = pend \cup {Event("acct_directory", 0)}
    <3>1. /\ acct' \in AccountType /\ acct'.post = NoPost
          /\ acct'.st = "registering"
      BY <1>4, <2>3 DEF AccountType
    <3>2. Event("acct_directory", 0) \notin pend /\ "acct_directory" \in Registration
      BY <1>3, <2>1 DEF Registration
    <3>3. pend' = (pend \ {Event("acct_directory", 0)})
                    \cup {Event("acct_directory", 0)}
      BY <2>3
    <3> QED BY <2>1, <3>1, <3>2, <3>3 DEF RegistrationMoves
  <2> QED BY <1>5, <2>2, <2>3 DEF AccountRegister
<1>6. ASSUME NEW s \in Registration, Event(s, 0) \in pend, AccountFails(s)
      PROVE  RegistrationMoves
  BY <1>3, <1>4, <1>6 DEF RegistrationMoves, AccountFails
<1>7. ASSUME NEW s \in Registration, Event(s, 0) \in pend,
             NEW e \in Registration, pend' = Follow(s, e),
             acct' \in AccountType, acct'.st = acct.st, acct'.post = acct.post
      PROVE  RegistrationMoves
  BY <1>2, <1>3, <1>7 DEF RegistrationMoves, Follow
<1>8. /\ "acct_directory" \in Registration /\ "acct_nonce" \in Registration
      /\ "acct_register" \in Registration /\ "acct_renonce" \in Registration
  BY DEF Registration
<1>9. CASE AccountDirectoryDone
  <2>1. Event("acct_directory", 0) \in pend
    BY <1>9 DEF AccountDirectoryDone
  <2>2. CASE pend' = Follow("acct_directory", "acct_nonce") /\ acct' = acct
    BY <1>1, <1>7, <1>8, <2>1, <2>2
  <2>3. CASE AccountFails("acct_directory")
    BY <1>6, <1>8, <2>1, <2>3
  <2> QED BY <1>9, <2>2, <2>3 DEF AccountDirectoryDone
<1>10. CASE AccountNonceDone
  <2>1. PICK k \in {"acct_nonce", "acct_renonce"} :
          Event(k, 0) \in pend /\ (post_account(k) \/ AccountFails(k))
    BY <1>10 DEF AccountNonceDone
  <2>2. k \in Registration
    BY <1>8
  <2>3. CASE post_account(k)
    <3>1. /\ acct' \in AccountType /\ acct'.st = acct.st
          /\ acct'.post = acct.post /\ pend' = Follow(k, "acct_register")
      BY <1>1, <2>3 DEF post_account, AccountType
    <3> QED BY <1>7, <1>8, <2>1, <2>2, <3>1
  <2>4. CASE AccountFails(k)
    BY <1>6, <2>1, <2>2, <2>4
  <2> QED BY <2>1, <2>3, <2>4
<1>11. CASE AccountRegisterDone
  <2>1. Event("acct_register", 0) \in pend
    BY <1>11 DEF AccountRegisterDone
  <2>2. ASSUME NEW n \in {"spent", "fresh"},
               acct' = [acct EXCEPT !.st = "ready", !.nonce = n],
               pend' = pend \ {Event("acct_register", 0)}
        PROVE  RegistrationMoves
    <3>1. acct' \in AccountType /\ acct'.st = "ready" /\ acct'.post = acct.post
      BY <1>1, <2>2 DEF AccountType
    <3>2. acct.st = "registering"
      BY <1>3, <1>8, <2>1
    <3> QED BY <1>2, <1>8, <2>1, <2>2, <3>1, <3>2 DEF RegistrationMoves
  <2>3. CASE /\ acct' = [acct EXCEPT !.retried = TRUE]
             /\ pend' = Follow("acct_register", "acct_renonce")
    <3>1. acct' \in AccountType /\ acct'.st = acct.st /\ acct'.post = acct.post
      BY <1>1, <2>3 DEF AccountType
    <3> QED BY <1>7, <1>8, <2>1, <2>3, <3>1
  <2>4. CASE AccountFails("acct_register")
    BY <1>6, <1>8, <2>1, <2>4
  <2> QED BY <1>11, <2>2, <2>3, <2>4 DEF AccountRegisterDone
<1> QED BY <1>5, <1>9, <1>10, <1>11 DEF AccountStep

(* A POST that is retried stays the one event of its order. *)
LEMMA RetryKeeps ==
  ASSUME NEW n, FlowInv(n), NEW e \in n.pend, e.k \in {"post", "renonce"},
         NEW k \in {"post", "renonce"}, NEW v \in StateType,
         v.pend = (n.pend \ {e}) \cup {Event(k, e.o)},
         v.acct.st = n.acct.st,
         v.acct.post.k = n.acct.post.k, v.acct.post.o = n.acct.post.o,
         k = "post" => v.acct.post.fresh,
         v.ord = n.ord, v.kg = n.kg, v.child = n.child,
         v.orphans = n.orphans, v.tokens = n.tokens, v.alpn = n.alpn,
         v.cert = n.cert, v.ended = n.ended, v.calls = n.calls,
         v.frame = n.frame, v.added = n.added, v.tried = n.tried
  PROVE  FlowInv(v) /\ Quiet(n, v)
<1>1. /\ Running(n) /\ e.o = n.ord.id /\ Waits(n, e.k) /\ Flow(n) = {e}
  BY WhichWaits DEF FlowKinds, HookTimers
<1>2. World(n) /\ OrderInv(n)
  BY <1>1 DEF FlowInv, Running
<1>3. AccountInv(v)
  <2>1. v.acct.st = "ready"
    BY <1>2 DEF OrderInv
  <2>2. Event(k, e.o).k \notin Registration \cup {"orphan_timer"}
    BY DEF Event, Registration
  <2> QED BY <1>2, <2>1, <2>2 DEF World, AccountInv
<1>4. World(v)
  BY <1>2, <1>3 DEF World, KeyInv, OthersInv, ChildInv, FrameInv, OrphanInv
<1>5. OrderInv(v)
  BY <1>2 DEF OrderInv, AnswerInv, HookInv
<1>6. Flow(v) = {Event(k, v.ord.id)}
  BY <1>1 DEF Flow, FlowKinds, Event
<1>7. \A s : Stage(n, s) => Stage(v, s)
  BY DEF Stage, Clean, Unhooked, Published
<1>8. Waits(v, k)
  BY <1>1, <1>6, <1>7 DEF Waits, Fresh, Trying
<1> QED BY <1>1, <1>4, <1>5, <1>8 DEF FlowInv, Running, Quiet

(* badNonce, and the nonce fetched for the retry. *)
LEMMA PostSteps ==
  ASSUME FlowInv(Now), PostStep, UNCHANGED <<platform, flow>>
  PROVE  FlowInv(Now') /\ Quiet(Now, Now')
<1>1. FlowInv(Now) /\ Now \in StateType
  BY DEF FlowInv, World
<1>2. acct \in AccountType /\ pend \in SUBSET EventType
  BY <1>1, NowFields DEF StateType
<1>3. acct.post \in PostType
  BY <1>2 DEF AccountType
<1>4. ASSUME NEW e \in pend, e.k \in {"post", "renonce"},
             NEW k \in {"post", "renonce"},
             pend' = (pend \ {e}) \cup {Event(k, e.o)},
             acct' \in AccountType, acct'.st = acct.st,
             acct'.post.k = acct.post.k, acct'.post.o = acct.post.o,
             k = "post" => acct'.post.fresh
      PROVE  FlowInv(Now') /\ Quiet(Now, Now')
  <2>1. pend' \in SUBSET EventType
    BY <1>2, <1>4 DEF EventType, Event
  <2> DEFINE n == Now
             v == Now'
  <2>2. n.pend = pend /\ n.acct = acct /\ FlowInv(n)
    BY NowFields
  <2>3. /\ v \in StateType /\ v.acct = acct' /\ v.pend = pend'
        /\ v.ord = n.ord /\ v.kg = n.kg /\ v.child = n.child
        /\ v.orphans = n.orphans /\ v.tokens = n.tokens
        /\ v.alpn = n.alpn /\ v.cert = n.cert /\ v.ended = n.ended
        /\ v.calls = n.calls /\ v.frame = n.frame /\ v.added = n.added
        /\ v.tried = n.tried
    BY <1>1, <1>4, <2>1, AccountLeaves
  <2> HIDE DEF n, v
  <2>4. FlowInv(v) /\ Quiet(n, v)
    BY <1>4, <2>2, <2>3, RetryKeeps
  <2> QED BY <2>4 DEF n, v
<1>5. CASE PostBadNonce
  <2>1. PICK e \in pend, n \in {acct.nonce, "fresh"} :
          /\ e.k = "post"
          /\ acct' = [set_nonce(acct, n) EXCEPT !.post.retried = TRUE]
          /\ pend' = (pend \ {e}) \cup {Event("renonce", e.o)}
    BY <1>5 DEF PostBadNonce
  <2> DEFINE r == [acct.post EXCEPT !.retried = TRUE]
  <2>2. r \in PostType /\ r.k = acct.post.k /\ r.o = acct.post.o
    BY <1>3 DEF PostType
  <2>3. acct' = [acct EXCEPT !.nonce = n, !.post = r]
    BY <1>2, <2>1 DEF set_nonce, AccountType
  <2> HIDE DEF r
  <2>4. acct' \in AccountType /\ acct'.st = acct.st /\ acct'.post = r
    BY <1>2, <2>2, <2>3 DEF AccountType
  <2> QED BY <1>4, <2>1, <2>2, <2>4
<1>6. CASE RenonceDone
  <2>1. PICK e \in pend :
          /\ e.k = "renonce"
          /\ acct' = send_post(set_nonce(acct, "fresh"))
          /\ pend' = (pend \ {e}) \cup {Event("post", e.o)}
    BY <1>6 DEF RenonceDone
  <2> DEFINE r == [acct.post EXCEPT !.fresh = TRUE]
  <2>2. r \in PostType /\ r.k = acct.post.k /\ r.o = acct.post.o /\ r.fresh
    BY <1>3 DEF PostType
  <2>3. acct' = [acct EXCEPT !.post = r, !.nonce = "spent"]
    <3> DEFINE s == set_nonce(acct, "fresh")
    <3>1. s = [acct EXCEPT !.nonce = "fresh"] /\ s.nonce = "fresh"
      BY <1>2 DEF set_nonce, AccountType
    <3>2. acct' = [s EXCEPT !.post.fresh = TRUE, !.nonce = "spent"]
      BY <2>1, <3>1 DEF send_post
    <3> HIDE DEF s
    <3> QED BY <1>2, <3>1, <3>2 DEF AccountType
  <2> HIDE DEF r
  <2>4. acct' \in AccountType /\ acct'.st = acct.st /\ acct'.post = r
    BY <1>2, <2>2, <2>3 DEF AccountType
  <2> QED BY <1>4, <2>1, <2>2, <2>4
<1> QED BY <1>5, <1>6 DEF PostStep

-----------------------------------------------------------------------------
(* LAUNCHES AND DROPS                                                       *)

(* start_order_for: a new order waits for the directory. *)
LEMMA LaunchStep ==
  ASSUME FlowInv(Now), StartOrder
  PROVE  /\ FlowInv(Now')
         /\ UNCHANGED <<platform, keyfile, counted, uaf>>
         /\ \E o \in Orders :
              /\ ord = NoOrder /\ ended[o] = "unused" /\ ord'.id = o
              /\ UNCHANGED <<ended, calls, cert>>
<1>1. PICK o \in Orders, kind \in Kinds :
        /\ ord = NoOrder /\ acct.st = "ready" /\ ended[o] = "unused"
        /\ Return([Now EXCEPT !.ord = NewOrder(o, kind),
                              !.pend = @ \cup {Event("directory", o)}])
  BY DEF StartOrder
<1> DEFINE n == Now
           q == NewOrder(o, kind)
           P == n.pend \cup {Event("directory", o)}
           v == [n EXCEPT !.ord = q, !.pend = P]
<1>2. /\ n.ord = ord /\ n.acct = acct /\ n.pend = pend /\ n.ended = ended
      /\ n.calls = calls /\ n.cert = cert /\ FlowInv(n)
  BY NowFields
<1>3. Return(v)
  BY <1>1
<1>4. /\ q \in OrderType /\ q.id = o /\ ~q.done /\ ~q.set /\ ~q.dns_set
      /\ q.hook = "none" /\ ~q.cleanup /\ ~q.after_authz
      /\ q.poll_tries = 0 /\ q.order_poll_tries = 0 /\ q.cert_key = 0
  <2>1. /\ 0 \in 0 .. POLL_MAX + 1 /\ 0 \in 0 .. MaxOrders
    BY OrderAssumption
  <2>2. kind \in [mode : {"http", "alpn", "dns"}, rsa : BOOLEAN,
                  runtime : BOOLEAN]
    BY OrderAssumption
  <2>3. /\ kind.rsa \in BOOLEAN /\ kind.runtime \in BOOLEAN
        /\ kind.mode \in {"http", "alpn", "dns"}
    BY <2>2
  <2> QED BY <2>1, <2>3 DEF NewOrder, OrderType
<1> HIDE DEF n, q
<1>5. World(n) /\ n \in StateType /\ Free(n)
  BY <1>1, <1>2 DEF FlowInv, World, Running, OrderInv, OrderType, NoOrder, Orders
<1>6. P \in SUBSET EventType
  <2>1. Event("directory", o) \in EventType
    BY DEF EventType, Event, Orders
  <2> QED BY <1>5, <2>1 DEF StateType
<1> HIDE DEF P
<1>7. /\ v \in StateType /\ v.ord = q /\ v.pend = P
      /\ v.kg = n.kg /\ v.acct = n.acct /\ v.child = n.child
      /\ v.orphans = n.orphans /\ v.tokens = n.tokens
      /\ v.alpn = n.alpn /\ v.cert = n.cert /\ v.ended = n.ended
      /\ v.calls = n.calls /\ v.frame = n.frame /\ v.added = n.added
      /\ v.tried = n.tried
  BY <1>4, <1>5, <1>6 DEF StateType
<1> HIDE DEF v
<1>8. n.ord.id = 0 /\ o # 0 /\ n.ended[o] = "unused"
  BY <1>1, <1>2 DEF NoOrder, Orders
<1>9. AccountInv(v)
  <2>1. Event("directory", o).k \notin Registration \cup {"orphan_timer"}
    BY DEF Event, Registration
  <2> QED BY <1>5, <1>7, <2>1 DEF World, AccountInv, P
<1>10. World(v)
  BY <1>5, <1>7, <1>8, <1>9, <1>4
     DEF World, KeyInv, OthersInv, ChildInv, FrameInv, OrphanInv, Orders
<1>11. /\ o \notin n.tokens /\ n.alpn # o
       /\ n.child[<<o, "add">>] = "none" /\ n.child[<<o, "remove">>] = "none"
  BY <1>5, <1>8 DEF World, OthersInv
<1>12. OrderInv(v)
  BY <1>1, <1>2, <1>4, <1>7, <1>11 DEF OrderInv, AnswerInv, HookInv
<1>13. Flow(v) = {Event("directory", o)}
  BY <1>5, <1>7 DEF Free, Flow, FlowKinds, Event, P
<1>14. Waits(v, "directory")
  <2>1. Stage(v, "directory")
    BY <1>4, <1>7, <1>11 DEF Stage, Early, Looking, Late, Clean, Unhooked
  <2>2. Fresh(v) /\ Trying(v)
    <3>1. 0 <= POLL_MAX
      BY OrderAssumption
    <3> QED BY <1>4, <1>7, <3>1 DEF Fresh, Trying
  <2> QED BY <1>4, <1>5, <1>7, <1>13, <2>1, <2>2 DEF Waits, Free
<1>15. FlowInv(v)
  BY <1>4, <1>7, <1>8, <1>10, <1>12, <1>14 DEF FlowInv, Running
<1>16. Now' = v
  BY <1>3, <1>7, Returned
<1>17. /\ ord' = v.ord /\ ended' = v.ended /\ calls' = v.calls /\ cert' = v.cert
       /\ UNCHANGED <<platform, keyfile, counted, uaf>>
  BY <1>3 DEF Return
<1> QED BY <1>1, <1>2, <1>4, <1>7, <1>15, <1>16, <1>17

(* How the orders stand when the one that runs is gone without its handler.  *)
EndedAs(n, how) == [o \in Orders |-> IF o = n.ord.id THEN how ELSE n.ended[o]]

(* drop_order and drop_ca_states: whatever the order waits for, nothing of   *)
(* it is left.                                                               *)
LEMMA DropFacts ==
  ASSUME NEW n, FlowInv(n)
  PROVE  LET v == Dropped(n)
         IN  /\ FlowInv(v) /\ v.ord = NoOrder /\ v.ended = EndedAs(n, "dropped")
             /\ v.calls = n.calls /\ v.cert = n.cert
<1> DEFINE P == {e \in n.pend : e.k \notin Registration \cup
                                  {"directory", "post", "renonce"}}
           d == [n EXCEPT !.acct = NoAccount, !.pend = P]
           E == [d.ended EXCEPT ![d.ord.id] = "dropped"]
           f == [d EXCEPT !.ended = E]
<1>1. Dropped(n) = IF d.ord = NoOrder THEN d ELSE order_free(f)
  BY DEF Dropped
<1>2. World(n) /\ n \in StateType
  BY DEF FlowInv, World
<1>3. NoAccount \in AccountType /\ NoAccount.post = NoPost /\ NoAccount.st = "none"
  BY DEF NoAccount, NoPost, AccountType, PostType
<1>4. P \in SUBSET EventType
  BY <1>2 DEF StateType
<1> HIDE DEF P
<1>5. /\ d \in StateType /\ d.acct = NoAccount /\ d.pend = P
      /\ d.kg = n.kg /\ d.ord = n.ord /\ d.child = n.child
      /\ d.orphans = n.orphans /\ d.tokens = n.tokens
      /\ d.alpn = n.alpn /\ d.cert = n.cert /\ d.ended = n.ended
      /\ d.calls = n.calls /\ d.frame = n.frame /\ d.added = n.added
      /\ d.tried = n.tried
  BY <1>2, <1>3, <1>4 DEF StateType
<1> HIDE DEF d
<1>6. CASE Free(n)
  <2>1. Dropped(n) = d /\ d.ord = NoOrder
    BY <1>1, <1>5, <1>6 DEF Free
  <2>2. AccountInv(d)
    BY <1>2, <1>3, <1>5 DEF World, AccountInv, P
  <2>3. World(d)
    BY <1>2, <1>5, <2>2
       DEF World, KeyInv, OthersInv, ChildInv, FrameInv, OrphanInv
  <2>4. Free(d)
    BY <1>3, <1>5, <1>6 DEF Free, Flow, P
  <2>5. d.ended = EndedAs(n, "dropped")
    <3>1. n.ord.id = 0 /\ n.ended \in [Orders -> {"unused"} \cup Ends]
      BY <1>2, <1>6 DEF Free, NoOrder, StateType
    <3>2. \A o \in Orders : o # n.ord.id
      BY <3>1 DEF Orders
    <3> QED BY <1>5, <3>1, <3>2 DEF EndedAs
  <2> QED BY <1>5, <2>1, <2>3, <2>4, <2>5 DEF FlowInv
<1>7. CASE Running(n)
  <2>1. /\ OrderInv(n) /\ n.ord \in OrderType /\ n.ord.id \in Orders
        /\ n.ord # NoOrder /\ n.kg.order \in {0, n.ord.id}
    BY <1>7 DEF Running, OrderInv, OrderType, NoOrder, Orders, Waits, WaitsHook,
                WaitsKey
  <2>2. Dropped(n) = order_free(f)
    BY <1>1, <1>5, <2>1
  <2>3. n.ended \in [Orders -> {"unused"} \cup Ends] /\ n.child \in [Hooks -> States]
    BY <1>2 DEF StateType
  <2>4. /\ E \in [Orders -> {"unused"} \cup Ends] /\ E[n.ord.id] = "dropped"
        /\ \A o \in Orders : o # n.ord.id => E[o] = n.ended[o]
        /\ E = EndedAs(n, "dropped")
    BY <1>5, <2>1, <2>3 DEF Ends, EndedAs
  <2> HIDE DEF E
  <2>5. /\ f \in StateType /\ f.acct = NoAccount /\ f.pend = P /\ f.ended = E
        /\ f.kg = n.kg /\ f.ord = n.ord /\ f.child = n.child
        /\ f.orphans = n.orphans /\ f.tokens = n.tokens
        /\ f.alpn = n.alpn /\ f.cert = n.cert
        /\ f.calls = n.calls /\ f.frame = n.frame /\ f.added = n.added
        /\ f.tried = n.tried
    BY <1>5, <2>4 DEF StateType
  <2> HIDE DEF f
  <2>6. Freeable(f)
    <3>1. AnswerInv(f) /\ OrphanInv(f) /\ KeyInv(f)
      BY <1>2, <2>1, <2>5 DEF World, OrderInv, AnswerInv, OrphanInv, KeyInv
    <3> QED BY <2>1, <2>5, <3>1 DEF Freeable, P
  <2> DEFINE v == order_free(f)
  <2>7. /\ v \in StateType /\ OrphanInv(v)
        /\ v.ord = NoOrder /\ Flow(v) = {} /\ v.kg.order = 0
        /\ v.pend \subseteq f.pend \cup {Event("orphan_timer", 0)}
        /\ \A x \in Hooks : x # <<f.ord.id, f.ord.hook>> =>
             v.child[x] = f.child[x]
        /\ v.child[<<f.ord.id, "add">>] \in
             {f.child[<<f.ord.id, "add">>], "killed", "reaped"}
        /\ v.tokens = f.tokens \ {f.ord.id}
        /\ v.alpn = (IF f.alpn = f.ord.id THEN 0 ELSE f.alpn)
        /\ v.acct = f.acct /\ v.cert = f.cert /\ v.ended = f.ended
        /\ v.calls = f.calls /\ v.frame = f.frame /\ v.added = f.added
        /\ v.tried = f.tried
    BY <2>6, FreeFacts
  <2> HIDE DEF v
  <2>8. AccountInv(v)
    <3>1. \A e \in v.pend : e.k \notin Registration
      BY <2>5, <2>7 DEF P, Event, Registration
    <3>2. \A e \in v.pend : e.k = "orphan_timer" => e.o = 0
      BY <1>2, <2>5, <2>7 DEF World, AccountInv, P, Event
    <3> QED BY <1>3, <2>5, <2>7, <3>1, <3>2 DEF AccountInv
  <2>9. \A o \in Orders : o # n.ord.id =>
          /\ v.child[<<o, "add">>] = n.child[<<o, "add">>]
          /\ v.child[<<o, "remove">>] = n.child[<<o, "remove">>]
    BY <2>5, <2>7 DEF Hooks
  <2>10. OthersInv(v)
    <3> SUFFICES ASSUME NEW o \in Orders
                 PROVE /\ v.ended[o] # "died" => o \notin v.tokens /\ v.alpn # o
                       /\ v.ended[o] = "unused" =>
                            /\ v.child[<<o, "add">>] = "none"
                            /\ v.child[<<o, "remove">>] = "none"
                       /\ v.ended[o] \in {"ok", "failed"}
                            /\ v.child[<<o, "add">>] # "none" => o \in v.tried
      BY DEF OthersInv
    <3>1. CASE o = n.ord.id
      BY <2>1, <2>4, <2>5, <2>7, <3>1 DEF Orders
    <3>2. CASE o # n.ord.id
      <4>1. /\ v.ended[o] = n.ended[o] /\ v.tried = n.tried
            /\ o \in v.tokens <=> o \in n.tokens
            /\ v.alpn = o => n.alpn = o
        BY <2>1, <2>4, <2>5, <2>7, <3>2 DEF Orders
      <4> QED BY <1>2, <2>9, <3>2, <4>1 DEF World, OthersInv
    <3> QED BY <3>1, <3>2
  <2>11. ChildInv(v)
    <3> SUFFICES ASSUME NEW o \in Orders
                 PROVE /\ v.child[<<o, "remove">>] # "none" =>
                            v.child[<<o, "add">>] \in {"none", "reaped"}
                       /\ v.child[<<o, "add">>] = "exit0" => o \in v.added
      BY DEF ChildInv
    <3>1. CASE o # n.ord.id
      BY <1>2, <2>5, <2>7, <2>9, <3>1 DEF World, ChildInv
    <3>2. CASE o = n.ord.id /\ n.ord.hook = "add"
      <4>1. v.child[<<o, "remove">>] = "none"
        BY <2>1, <2>5, <2>7, <3>2 DEF Hooks, OrderInv, HookInv
      <4>2. v.child[<<o, "add">>] = "exit0" => n.child[<<o, "add">>] = "exit0"
        BY <2>5, <2>7, <3>2
      <4> QED BY <1>2, <2>5, <2>7, <4>1, <4>2 DEF World, ChildInv
    <3>3. CASE o = n.ord.id /\ n.ord.hook # "add"
      <4>1. v.child[<<o, "add">>] = n.child[<<o, "add">>]
        BY <2>1, <2>5, <2>7, <3>3 DEF Hooks
      <4>2. n.child[<<o, "add">>] \in {"none", "reaped"}
        BY <2>1, <3>3 DEF OrderInv, HookInv
      <4> QED BY <4>1, <4>2
    <3> QED BY <3>1, <3>2, <3>3
  <2>12. FrameInv(v)
    <3>1. n.frame \in 0 .. MaxOrders
      BY <1>2 DEF StateType
    <3> QED BY <1>2, <2>4, <2>5, <2>7, <3>1 DEF World, FrameInv, Orders
  <2>13. FlowInv(v)
    BY <1>3, <2>5, <2>7, <2>8, <2>10, <2>11, <2>12 DEF FlowInv, World, KeyInv, Free
  <2> QED BY <2>2, <2>4, <2>5, <2>7, <2>13 DEF v
<1> QED BY <1>6, <1>7 DEF FlowInv

(* driver_reload. *)
LEMMA ReloadStep ==
  ASSUME FlowInv(Now), Reload
  PROVE  /\ FlowInv(Now') /\ ord' = NoOrder /\ ended' = EndedAs(Now, "dropped")
         /\ UNCHANGED <<calls, cert, platform, keyfile, counted, uaf>>
<1> DEFINE n == Now
           d == DelTimers(n, {"orphan_timer"})
           v == Dropped(d)
<1>1. Return(v)
  BY DEF Reload
<1>2. FlowInv(n) /\ n.calls = calls /\ n.cert = cert
  BY NowFields
<1> HIDE DEF n
<1>3. World(n) /\ n \in StateType
  BY <1>2 DEF FlowInv, World
<1>4. /\ d \in StateType /\ SameButPend(n, d)
      /\ d.pend = {e \in n.pend : e.k \notin {"orphan_timer"}}
  BY <1>3, DelTimersFacts
<1> HIDE DEF d
<1>5. FlowInv(d)
  <2>1. \A e \in Flow(n) : e \in d.pend
    BY <1>4 DEF Flow, FlowKinds, FlowTimers, HookTimers
  <2>2. ChildMoves(n, d)
    BY <1>3, <1>4 DEF ChildMoves, World, ChildInv, SameButPend
  <2>3. KeyInv(d) /\ OrphanInv(d)
    BY <1>3, <1>4 DEF World, KeyInv, OrphanInv, SameButPend
  <2>4. d.pend \subseteq n.pend
    BY <1>4
  <2> QED BY <1>2, <1>4, <2>1, <2>2, <2>3, <2>4, Outside DEF SameButPend
<1>6. /\ FlowInv(v) /\ v.ord = NoOrder /\ v.ended = EndedAs(d, "dropped")
      /\ v.calls = d.calls /\ v.cert = d.cert
  BY <1>5, DropFacts
<1>7. EndedAs(d, "dropped") = EndedAs(n, "dropped")
  BY <1>4 DEF EndedAs, SameButPend
<1> HIDE DEF v
<1>8. Now' = v
  BY <1>1, <1>6, Returned DEF FlowInv, World
<1>9. /\ ord' = v.ord /\ ended' = v.ended /\ calls' = v.calls /\ cert' = v.cert
      /\ UNCHANGED <<platform, keyfile, counted, uaf>>
  BY <1>1 DEF Return
<1> QED BY <1>2, <1>4, <1>6, <1>7, <1>8, <1>9 DEF SameButPend, n

(* A new process: nothing is known of an order, and its children are taken   *)
(* over.  Shared memory may have the answers of one that died.               *)
LEMMA Reborn ==
  ASSUME NEW d \in StateType, NEW v \in StateType, ChildInv(d),
         \A o \in Orders :
           /\ v.ended[o] # "died" => o \notin d.tokens /\ d.alpn # o
           /\ v.ended[o] = "unused" =>
                d.child[<<o, "add">>] = "none" /\ d.child[<<o, "remove">>] = "none"
           /\ v.ended[o] \in {"ok", "failed"} /\ d.child[<<o, "add">>] # "none"
                => o \in d.tried,
         v.pend = {}, v.kg = KgIdle, v.orphans = {}, v.acct = NoAccount,
         v.ord = NoOrder, v.frame = 0, v.tokens = d.tokens, v.alpn = d.alpn,
         v.added = d.added, v.tried = d.tried,
         v.child = [p \in Hooks |-> IF d.child[p] = "none" THEN d.child[p]
                                    ELSE "reaped"]
  PROVE  FlowInv(v)
<1>1. /\ NoAccount.post = NoPost /\ NoAccount.st = "none" /\ KgIdle.order = 0
      /\ NoOrder.id = 0
  BY DEF NoAccount, KgIdle, NoOrder
<1>2. \A o \in Orders : <<o, "add">> \in Hooks /\ <<o, "remove">> \in Hooks
  BY DEF Hooks
<1>3. OthersInv(v) /\ ChildInv(v)
  BY <1>2 DEF OthersInv, ChildInv
<1>4. OrphanInv(v)
  <2>1. IsFiniteSet({}) /\ Cardinality({}) = 0
    BY FS_EmptySet
  <2> QED BY <2>1, OrderAssumption DEF OrphanInv
<1> QED BY <1>1, <1>3, <1>4
        DEF FlowInv, World, AccountInv, KeyInv, FrameInv, Free, Flow

(* driver_exit_process. *)
LEMMA ExitStep ==
  ASSUME FlowInv(Now), Exit
  PROVE  /\ FlowInv(Now') /\ ord' = NoOrder /\ ended' = EndedAs(Now, "dropped")
         /\ UNCHANGED <<calls, cert, platform, keyfile, counted, uaf>>
<1> DEFINE n == Now
           d == Dropped(n)
           K == [p \in Hooks |-> IF d.child[p] = "none" THEN d.child[p]
                                 ELSE "reaped"]
           v == [d EXCEPT !.pend = {}, !.kg = KgIdle, !.masked = FALSE,
                          !.orphans = {}, !.acct = NoAccount, !.ord = NoOrder,
                          !.frame = 0, !.child = K]
<1>1. Return(v)
  BY DEF Exit, NewProcess
<1>2. FlowInv(n) /\ n.calls = calls /\ n.cert = cert
  BY NowFields
<1> HIDE DEF n
<1>3. /\ FlowInv(d) /\ d.ord = NoOrder /\ d.ended = EndedAs(n, "dropped")
      /\ d.calls = n.calls /\ d.cert = n.cert
  BY <1>2, DropFacts
<1> HIDE DEF d
<1>4. World(d) /\ d \in StateType
  BY <1>3 DEF FlowInv, World
<1>5. K \in [Hooks -> States] /\ KgIdle \in KgType /\ NoAccount \in AccountType
  <2>1. K \in [Hooks -> States]
    BY <1>4 DEF StateType, States, Dead
  <2>2. KgIdle \in KgType
    BY OrderAssumption DEF KgIdle, KgType
  <2> QED BY <2>1, <2>2 DEF NoAccount, NoPost, AccountType, PostType
<1>6. K = [p \in Hooks |-> IF d.child[p] = "none" THEN d.child[p] ELSE "reaped"]
  OBVIOUS
<1> HIDE DEF K
<1>7. /\ v \in StateType /\ v.pend = {} /\ v.kg = KgIdle /\ v.orphans = {}
      /\ v.acct = NoAccount /\ v.ord = NoOrder /\ v.frame = 0 /\ v.child = K
      /\ v.tokens = d.tokens /\ v.alpn = d.alpn /\ v.added = d.added
      /\ v.tried = d.tried /\ v.ended = d.ended /\ v.calls = d.calls
      /\ v.cert = d.cert
  <2>1. 0 \in 0 .. MaxOrders
    BY OrderAssumption
  <2> QED BY <1>4, <1>5, <2>1 DEF StateType
<1> HIDE DEF v
<1>8. FlowInv(v)
  <2>1. ChildInv(d) /\ OthersInv(d) /\ \A o \in Orders : o # d.ord.id
    BY <1>3, <1>4 DEF World, NoOrder, Orders
  <2>2. \A o \in Orders :
          /\ v.ended[o] # "died" => o \notin d.tokens /\ d.alpn # o
          /\ v.ended[o] = "unused" =>
               d.child[<<o, "add">>] = "none" /\ d.child[<<o, "remove">>] = "none"
          /\ v.ended[o] \in {"ok", "failed"} /\ d.child[<<o, "add">>] # "none"
               => o \in d.tried
    BY <1>7, <2>1 DEF OthersInv
  <2> QED BY <1>4, <1>6, <1>7, <2>1, <2>2, Reborn
<1>9. Now' = v
  BY <1>1, <1>7, Returned
<1>10. /\ ord' = v.ord /\ ended' = v.ended /\ calls' = v.calls /\ cert' = v.cert
       /\ UNCHANGED <<platform, keyfile, counted, uaf>>
  BY <1>1 DEF Return
<1> QED BY <1>2, <1>3, <1>7, <1>8, <1>9, <1>10 DEF n

(* A crash. *)
LEMMA CrashStep ==
  ASSUME FlowInv(Now), Crash
  PROVE  /\ FlowInv(Now') /\ ord' = NoOrder /\ ended' = EndedAs(Now, "died")
         /\ cert' = cert \/ (ord.id \in Orders /\ cert' = ord.id)
         /\ UNCHANGED <<calls, platform, counted, uaf>>
<1> DEFINE d == Now
           v == Now'
<1>1. /\ ord' = NoOrder /\ pend' = {} /\ acct' = NoAccount /\ kg' = KgIdle
      /\ child' = [p \in Hooks |-> IF child[p] = "none" THEN child[p]
                                   ELSE "reaped"]
      /\ masked' = FALSE /\ orphans' = {} /\ frame' = 0
      /\ ended' = [o \in Orders |-> IF o = ord.id THEN "died" ELSE ended[o]]
      /\ UNCHANGED <<platform, tokens, alpn, calls, counted, added, tried, uaf>>
  BY DEF Crash, NewProcess, Now
<1>2. World(d) /\ d \in StateType
  BY DEF FlowInv, World
<1>3. /\ child \in [Hooks -> States] /\ ended \in [Orders -> {"unused"} \cup Ends]
      /\ calls \in [Orders -> Nat] /\ tokens \in SUBSET Orders
      /\ alpn \in 0 .. MaxOrders /\ cert \in 0 .. MaxOrders
      /\ added \in SUBSET Orders /\ tried \in SUBSET Orders
  BY <1>2, NowFields DEF StateType
<1>a. cert' = cert \/ (ord.id \in Orders /\ cert' = ord.id)
  <2>1. ASSUME NEW e \in pend, e.k = "post" PROVE ord.id \in Orders
    <3>1. e \in Flow(d) /\ d.ord = ord
      BY <2>1, NowFields DEF Flow, FlowKinds
    <3>2. ~Free(d)
      BY <3>1 DEF Free
    <3>3. FlowInv(d)
      OBVIOUS
    <3> HIDE DEF d
    <3> QED BY <3>1, <3>2, <3>3 DEF FlowInv, Running, OrderInv, OrderType
  <2> QED BY <2>1 DEF Crash, Storing
<1>4. /\ child' \in [Hooks -> States] /\ ended' \in [Orders -> {"unused"} \cup Ends]
      /\ KgIdle \in KgType /\ NoAccount \in AccountType
  <2>1. child' \in [Hooks -> States]
    BY <1>1, <1>3 DEF States, Dead
  <2>2. ended' \in [Orders -> {"unused"} \cup Ends]
    BY <1>1, <1>3 DEF Ends
  <2>3. KgIdle \in KgType
    BY OrderAssumption DEF KgIdle, KgType
  <2> QED BY <2>1, <2>2, <2>3 DEF NoAccount, NoPost, AccountType, PostType
<1>5. v \in StateType
  <2>1. 0 \in 0 .. MaxOrders
    BY OrderAssumption
  <2>2. /\ tokens' \in SUBSET Orders /\ alpn' \in 0 .. MaxOrders
        /\ cert' \in 0 .. MaxOrders /\ calls' \in [Orders -> Nat]
        /\ added' \in SUBSET Orders /\ tried' \in SUBSET Orders
    BY <1>1, <1>3, <1>a DEF Orders
  <2>3. /\ ord' \in {NoOrder} \cup OrderType /\ pend' \in SUBSET EventType
        /\ acct' \in AccountType /\ kg' \in KgType /\ masked' \in BOOLEAN
        /\ orphans' \in SUBSET Hooks /\ frame' \in 0 .. MaxOrders
    BY <1>1, <1>4, <2>1
  <2> QED BY <1>4, <2>2, <2>3 DEF StateType, Now
<1>6. /\ v.pend = {} /\ v.kg = KgIdle /\ v.orphans = {}
      /\ v.acct = NoAccount /\ v.ord = NoOrder /\ v.frame = 0
      /\ v.tokens = d.tokens /\ v.alpn = d.alpn /\ v.added = d.added
      /\ v.tried = d.tried /\ v.ended = ended'
      /\ v.child = [p \in Hooks |-> IF d.child[p] = "none" THEN d.child[p]
                                    ELSE "reaped"]
  BY <1>1 DEF Now
<1>7. d.ord = ord /\ d.ended = ended
  BY NowFields
<1> HIDE DEF d, v
<1>8. \A o \in Orders :
        /\ v.ended[o] # "died" => o \notin d.tokens /\ d.alpn # o
        /\ v.ended[o] = "unused" =>
             d.child[<<o, "add">>] = "none" /\ d.child[<<o, "remove">>] = "none"
        /\ v.ended[o] \in {"ok", "failed"} /\ d.child[<<o, "add">>] # "none"
             => o \in d.tried
  <2> SUFFICES ASSUME NEW o \in Orders
               PROVE  /\ v.ended[o] # "died" => o \notin d.tokens /\ d.alpn # o
                      /\ v.ended[o] = "unused" =>
                           /\ d.child[<<o, "add">>] = "none"
                           /\ d.child[<<o, "remove">>] = "none"
                      /\ v.ended[o] \in {"ok", "failed"}
                           /\ d.child[<<o, "add">>] # "none" => o \in d.tried
    OBVIOUS
  <2>1. CASE o = d.ord.id
    BY <1>1, <1>6, <1>7, <2>1
  <2>2. CASE o # d.ord.id
    <3>1. v.ended[o] = d.ended[o]
      BY <1>1, <1>6, <1>7, <2>2
    <3> QED BY <1>2, <2>2, <3>1 DEF World, OthersInv
  <2> QED BY <2>1, <2>2
<1>9. FlowInv(v)
  BY <1>2, <1>5, <1>6, <1>8, Reborn DEF World
<1>10. ended' = EndedAs(d, "died")
  BY <1>1, <1>7 DEF EndedAs
<1> QED BY <1>1, <1>a, <1>9, <1>10 DEF d, v

-----------------------------------------------------------------------------
(* EVERY STEP                                                               *)

(* What the driver of the orders can see of a step. *)
Moves ==
  \/ Quiet(Now, Now') /\ counted' = counted
  \/ Quiet(Now, Now') /\ frame # 0 /\ counted' = counted \cup {frame}
  \/ Ending(Now, Now') /\ counted' = counted
  \/ \E o \in Orders :
       /\ ord = NoOrder /\ ended[o] = "unused" /\ ord'.id = o
       /\ UNCHANGED <<ended, calls, cert, counted>>
  \/ /\ ord' = NoOrder /\ ended' = EndedAs(Now, "dropped")
     /\ UNCHANGED <<calls, cert, counted>>
  \/ /\ ord' = NoOrder /\ ended' = EndedAs(Now, "died")
     /\ cert' = cert \/ (ord.id \in Orders /\ cert' = ord.id)
     /\ UNCHANGED <<calls, counted>>

(* What becomes of the variables a handler does not carry. *)
Others ==
  /\ platform' = platform
  /\ keyfile' \in {keyfile, "good", "partial"}
  /\ uaf' \in {uaf, TRUE}

(* Every action of Next keeps the invariant of the flow, and is one of the   *)
(* moves the driver of the orders can see.                                   *)
LEMMA AStep ==
  ASSUME FlowInv(Now), Next
  PROVE  FlowInv(Now') /\ Moves /\ Others
<1>1. ASSUME Keeps(Now) PROVE FlowInv(Now') /\ Moves /\ Others
  BY <1>1 DEF Keeps, Moves, Others
<1>2. CASE frame = 0 /\ AccountStep /\ UNCHANGED <<platform, flow>>
  <2>1. FlowInv(Now') /\ Quiet(Now, Now')
    BY <1>2, AccountMoves, RegistrationLeaves
  <2>2. platform' = platform /\ counted' = counted /\ uaf' = uaf
    BY <1>2 DEF flow
  <2>3. keyfile' \in {keyfile, "good"}
    BY <1>2 DEF AccountStep, AccountRegister, AccountDirectoryDone,
                AccountNonceDone, AccountRegisterDone, load_key, AccountFails,
                post_account
  <2> QED BY <2>1, <2>2, <2>3 DEF Moves, Others
<1>3. CASE frame = 0 /\ PostStep /\ UNCHANGED <<platform, flow>>
  <2>1. FlowInv(Now') /\ Quiet(Now, Now')
    BY <1>3, PostSteps
  <2>2. platform' = platform /\ counted' = counted /\ uaf' = uaf
    BY <1>3 DEF flow
  <2>3. keyfile' = keyfile
    BY <1>3 DEF PostStep, PostBadNonce, RenonceDone
  <2> QED BY <2>1, <2>2, <2>3 DEF Moves, Others
<1>4. CASE StartOrder
  <2>1. /\ FlowInv(Now')
        /\ UNCHANGED <<platform, keyfile, counted, uaf>>
        /\ \E o \in Orders :
             /\ ord = NoOrder /\ ended[o] = "unused" /\ ord'.id = o
             /\ UNCHANGED <<ended, calls, cert>>
    BY <1>4, LaunchStep
  <2> QED BY <2>1 DEF Moves, Others
<1>5. CASE ReturnNewOrder
  <2>1. FlowInv(Now') /\ Quiet(Now, Now')
    BY <1>5, FrameStep
  <2>2. /\ frame # 0 /\ counted' \in {counted, counted \cup {frame}}
        /\ platform' = platform /\ keyfile' = keyfile /\ uaf' \in {uaf, TRUE}
    BY <1>5 DEF ReturnNewOrder, accountVars
  <2> QED BY <2>1, <2>2 DEF Moves, Others
<1>6. CASE DirectoryDone \/ PostDone \/ PostFail
  BY <1>1, <1>6, DirectoryStep, PostDoneStep, PostFailStep
<1>7. CASE PollTimer \/ OrderTimer \/ DelayTimer
  BY <1>1, <1>7, PollStep, OrderTimerStep, DelayStep
<1>8. CASE HookTimer \/ DeadlineTimer \/ OrphanTimer \/ KeygenCompletion
  BY <1>1, <1>8, HookStep, DeadlineStep, OrphanStep, CompletionStep
<1>9. CASE KeygenThread \/ ChildExits \/ KilledDies \/ NginxReaps
  BY <1>1, <1>9, ThreadStep, ChildExitsStep, KilledStep, ReapStep
<1>10. CASE Reload
  <2>1. /\ FlowInv(Now') /\ ord' = NoOrder /\ ended' = EndedAs(Now, "dropped")
        /\ UNCHANGED <<calls, cert, platform, keyfile, counted, uaf>>
    BY <1>10, ReloadStep
  <2> QED BY <2>1 DEF Moves, Others
<1>11. CASE Exit
  <2>1. /\ FlowInv(Now') /\ ord' = NoOrder /\ ended' = EndedAs(Now, "dropped")
        /\ UNCHANGED <<calls, cert, platform, keyfile, counted, uaf>>
    BY <1>11, ExitStep
  <2> QED BY <2>1 DEF Moves, Others
<1>12. CASE Crash
  <2>1. /\ FlowInv(Now') /\ ord' = NoOrder /\ ended' = EndedAs(Now, "died")
        /\ cert' = cert \/ (ord.id \in Orders /\ cert' = ord.id)
        /\ UNCHANGED <<calls, platform, counted, uaf>>
    BY <1>12, CrashStep
  <2>2. keyfile' \in {keyfile, "partial"}
    BY <1>12 DEF Crash, SaveInterrupted
  <2> QED BY <2>1, <2>2 DEF Moves, Others
<1> QED BY <1>2, <1>3, <1>4, <1>5, <1>6, <1>7, <1>8, <1>9, <1>10, <1>11, <1>12
        DEF Next, EventLoop

(* The inductive invariant of the specification. *)
IInv ==
  /\ FlowInv(Now)
  /\ platform \in Platforms /\ keyfile \in {"absent", "partial", "good"}
  /\ counted \subseteq Orders /\ uaf \in BOOLEAN

(* A process that has just started has no order and owes nothing. *)
LEMMA InitInv == Init => IInv
<1> SUFFICES ASSUME Init PROVE IInv
  OBVIOUS
<1> DEFINE v == Now
<1>1. /\ v.pend = {} /\ v.kg = KgIdle /\ v.orphans = {} /\ v.acct = NoAccount
      /\ v.ord = NoOrder /\ v.frame = 0 /\ v.tokens = {} /\ v.alpn = 0
      /\ v.added = {} /\ v.tried = {} /\ v.child = [p \in Hooks |-> "none"]
      /\ v.ended = [o \in Orders |-> "unused"] /\ v.masked = FALSE
      /\ v.cert = 0 /\ v.calls = [o \in Orders |-> 0]
  BY NowFields DEF Init
<1>2. KgIdle \in KgType
  BY OrderAssumption DEF KgIdle, KgType
<1>3. NoAccount \in AccountType
  BY DEF NoAccount, NoPost, AccountType, PostType
<1>4. v \in StateType
  <2>1. 0 \in 0 .. MaxOrders
    BY OrderAssumption
  <2>2. [p \in Hooks |-> "none"] \in [Hooks -> States]
    BY DEF States
  <2>3. /\ [o \in Orders |-> "unused"] \in [Orders -> {"unused"} \cup Ends]
        /\ [o \in Orders |-> 0] \in [Orders -> Nat]
    OBVIOUS
  <2> QED BY <1>2, <1>3, <2>1, <2>2, <2>3 DEF Init, Now, StateType
<1> HIDE DEF v
<1>5. \A o \in Orders : <<o, "add">> \in Hooks /\ <<o, "remove">> \in Hooks /\ o # 0
  BY DEF Hooks, Orders
<1>6. ChildInv(v) /\ OthersInv(v)
  BY <1>1, <1>5 DEF ChildInv, OthersInv
<1>7. v.child = [p \in Hooks |-> IF v.child[p] = "none" THEN v.child[p] ELSE "reaped"]
  BY <1>1
<1>8. FlowInv(v)
  BY <1>1, <1>4, <1>5, <1>6, <1>7, Reborn
<1> QED BY <1>8 DEF IInv, Init, v

(* Every handler, crash, reload and exit keeps the inductive invariant. *)
LEMMA StepInv == IInv /\ [Next]_vars => IInv'
<1> SUFFICES ASSUME IInv, [Next]_vars PROVE IInv'
  OBVIOUS
<1>1. CASE UNCHANGED vars
  <2>1. Now' = Now
    BY <1>1 DEF vars, flow, accountVars, Now
  <2> QED BY <1>1, <2>1 DEF IInv, vars, flow, accountVars
<1>2. CASE Next
  <2>1. FlowInv(Now') /\ Moves /\ Others
    BY <1>2, AStep DEF IInv
  <2>2. frame \in 0 .. MaxOrders
    BY NowFields DEF IInv, FlowInv, World, StateType
  <2>3. counted' \subseteq Orders
    <3>1. counted' = counted \/ (frame # 0 /\ counted' = counted \cup {frame})
      BY <2>1 DEF Moves
    <3>2. frame # 0 => frame \in Orders
      BY <2>2 DEF Orders
    <3> QED BY <3>1, <3>2 DEF IInv
  <2>4. /\ platform' \in Platforms /\ keyfile' \in {"absent", "partial", "good"}
        /\ uaf' \in BOOLEAN
    BY <2>1 DEF Others, IInv
  <2> QED BY <2>1, <2>3, <2>4 DEF IInv
<1> QED BY <1>1, <1>2

(* The invariant, which the theorems below rest on. *)
THEOREM Invariant == Spec => []IInv
BY InitInv, StepInv, PTL DEF Spec

-----------------------------------------------------------------------------
(* THE THEOREMS                                                             *)

(* The variables range over their types: in particular the polls of an order *)
(* stay within POLL_MAX + 1 and the orphan table of orphan_hook within       *)
(* ORPHAN_MAX.                                                               *)
THEOREM Types == Spec => []TypeOK
<1>1. IInv => TypeOK
  <2> SUFFICES ASSUME IInv PROVE TypeOK
    OBVIOUS
  <2>1. Now \in StateType /\ OrphanInv(Now)
    BY DEF IInv, FlowInv, World
  <2>2. /\ ord \in {NoOrder} \cup OrderType /\ pend \in SUBSET EventType
        /\ acct \in AccountType /\ kg \in KgType /\ child \in [Hooks -> States]
        /\ masked \in BOOLEAN /\ orphans \in SUBSET Hooks
        /\ tokens \in SUBSET Orders /\ alpn \in 0 .. MaxOrders
        /\ cert \in 0 .. MaxOrders
        /\ ended \in [Orders -> {"unused"} \cup Ends] /\ calls \in [Orders -> Nat]
        /\ frame \in 0 .. MaxOrders /\ added \in SUBSET Orders
        /\ tried \in SUBSET Orders
    BY <2>1, NowFields DEF StateType
  <2>3. Cardinality(orphans) <= ORPHAN_MAX
    BY <2>1, NowFields DEF OrphanInv
  <2>4. AccountTypeOK
    BY <2>2 DEF AccountTypeOK, AccountType, PostType, IInv
  <2>5. ended \in [Orders -> {"unused", "ok", "failed", "dropped", "died"}]
    BY <2>2 DEF Ends
  <2> QED BY <2>2, <2>3, <2>4, <2>5
          DEF TypeOK, IInv, OrderType, EventType, KgType, States
<1> QED BY <1>1, Invariant, PTL

(* What carries a live order on, by cases. *)
LEMMA Continues ==
  ASSUME FlowInv(Now)
  PROVE  /\ World(Now) /\ Now \in StateType
         /\ Alive <=> Running(Now)
         /\ ~Alive => Free(Now) /\ ord.id = 0
         /\ Alive => ord \in OrderType /\ ord.id \in Orders /\ ord.id # 0
                       /\ ended[ord.id] = "unused" /\ OrderInv(Now)
<1>1. Now.ord = ord /\ Now.ended = ended
  BY NowFields
<1>2. Running(Now) => /\ ord \in OrderType /\ ord.id \in Orders /\ ord.id # 0
                      /\ ended[ord.id] = "unused" /\ OrderInv(Now)
  BY <1>1 DEF Running, OrderInv, OrderType, Orders
<1>3. NoOrder.id = 0
  BY DEF NoOrder
<1>4. Free(Now) => ord = NoOrder
  BY <1>1 DEF Free
<1> QED BY <1>1, <1>2, <1>3, <1>4 DEF FlowInv, World, Alive

(* The flow of an order neither stops nor forks: exactly one request, timer, *)
(* hook or key task carries it on, and the POST slot of the account is taken *)
(* exactly while a POST is in flight.  For any orders and faults.            *)
THEOREM FlowContinues == Spec => []OneContinuation
<1>1. IInv => OneContinuation
  <2> SUFFICES ASSUME IInv PROVE OneContinuation
    OBVIOUS
  <2> DEFINE events == {e \in pend : e.k \in Requests \cup FlowTimers
                                              \cup {"hook_timer"}}
             thread == kg.busy /\ kg.order # 0
             i == ord.id
  <2>1. /\ Now.pend = pend /\ Now.kg = kg /\ Now.ord = ord /\ Now.acct = acct
        /\ FlowInv(Now)
    BY NowFields DEF IInv
  <2>2. /\ World(Now) /\ (Alive <=> Running(Now)) /\ (~Alive => Free(Now))
        /\ Alive => i # 0
    BY <2>1, Continues
  <2>3. Flow(Now) = {e \in pend : e.k \in FlowKinds} /\ events \subseteq Flow(Now)
    BY <2>1 DEF Flow, FlowKinds, Requests, HookTimers
  <2>4. /\ NoPost.k = "none" /\ "deadline_timer" \notin FlowTimers
        /\ "hook_timer" \notin FlowTimers
    BY DEF NoPost, FlowTimers
  <2>5. Cardinality({}) = 0 /\ \A x : Cardinality({x}) = 1
    BY FS_EmptySet, FS_Singleton
  <2>6. ASSUME NEW k, Waits(Now, k)
        PROVE  /\ Cardinality(events) + (IF thread THEN 1 ELSE 0) = 1
               /\ Event("deadline_timer", i) \notin pend
               /\ acct.post # NoPost <=> k \in {"post", "renonce"}
               /\ k \in {"post", "renonce"} => acct.post.o = i
               /\ \A e \in pend : e.k \in {"post", "renonce"} =>
                    k = e.k /\ e.o = i
               /\ Event(k, i) \in pend
    <3>1. /\ Flow(Now) = {Event(k, i)} /\ ~thread
          /\ k \in {"directory", "post", "renonce"} \cup FlowTimers
      BY <2>1, <2>6 DEF Waits
    <3>2. Event(k, i).k = k /\ Event(k, i).o = i
      BY DEF Event
    <3>3. events = {Event(k, i)} /\ Event(k, i) \in pend
      BY <2>3, <3>1, <3>2 DEF Requests
    <3>4. \A e \in pend : e.k \in FlowKinds => e = Event(k, i)
      BY <2>3, <3>1
    <3>5. Event("deadline_timer", i) \notin pend
      <4>1. Event("deadline_timer", i).k = "deadline_timer"
        BY DEF Event
      <4>2. "deadline_timer" \in FlowKinds
        BY DEF FlowKinds, HookTimers
      <4> QED BY <2>4, <3>1, <3>2, <3>4, <4>1, <4>2
    <3>6. /\ acct.post # NoPost <=> k \in {"post", "renonce"}
          /\ k \in {"post", "renonce"} => acct.post.o = i
      BY <2>1, <2>4, <2>6 DEF Waits
    <3>7. Cardinality(events) = 1
      BY <2>5, <3>3
    <3> HIDE DEF events, thread, i
    <3>8. \A e \in pend : e.k \in {"post", "renonce"} => k = e.k /\ e.o = i
      BY <3>2, <3>4 DEF FlowKinds
    <3> QED BY <3>1, <3>3, <3>5, <3>6, <3>7, <3>8
  <2>7. ASSUME WaitsHook(Now)
        PROVE  /\ Cardinality(events) + (IF thread THEN 1 ELSE 0) = 1
               /\ Event("hook_timer", i) \in pend
               /\ acct.post = NoPost
               /\ \A e \in pend : e.k \notin {"post", "renonce"}
    <3>1. /\ Event("hook_timer", i) \in Flow(Now) /\ ~thread
          /\ Flow(Now) \subseteq {Event(k, i) : k \in HookTimers}
          /\ acct.post = NoPost
      BY <2>1, <2>7 DEF WaitsHook
    <3>2. \A k : Event(k, i).k = k
      BY DEF Event
    <3>3. events = {Event("hook_timer", i)}
      <4>1. Event("hook_timer", i) \in events
        BY <2>3, <3>1, <3>2
      <4>2. \A e \in events : e = Event("hook_timer", i)
        BY <2>3, <2>4, <3>1, <3>2 DEF HookTimers, Requests
      <4> QED BY <4>1, <4>2
    <3>4. \A e \in pend : e.k \in FlowKinds => e.k \in HookTimers
      BY <2>3, <3>1, <3>2
    <3>5. \A e \in pend : e.k \notin {"post", "renonce"}
      BY <3>4 DEF FlowKinds, HookTimers
    <3>6. Cardinality(events) = 1
      BY <2>5, <3>3
    <3> QED BY <2>3, <3>1, <3>5, <3>6
  <2>8. ASSUME Flow(Now) = {}
        PROVE  /\ events = {} /\ Event("deadline_timer", i) \notin pend
               /\ \A e \in pend : e.k \notin {"post", "renonce"}
    BY <2>3, <2>8 DEF Event, FlowKinds, HookTimers
  <2>9. ASSUME WaitsKey(Now), Alive
        PROVE  /\ Cardinality(events) + (IF thread THEN 1 ELSE 0) = 1
               /\ acct.post = NoPost
    <3>1. Flow(Now) = {} /\ kg.order = i /\ acct.post = NoPost
      BY <2>1, <2>9 DEF WaitsKey
    <3>2. kg.busy /\ kg.order # 0
      BY <2>1, <2>2, <2>9, <3>1 DEF World, KeyInv
    <3>3. thread /\ Cardinality(events) = 0
      BY <2>5, <2>8, <3>1, <3>2
    <3> QED BY <3>1, <3>3
  <2> DEFINE Whole ==
        /\ Alive => Cardinality(events) + (IF thread THEN 1 ELSE 0) = 1
        /\ Event("deadline_timer", i) \in pend => Event("hook_timer", i) \in pend
        /\ acct.post # NoPost <=> \E e \in pend : e.k \in {"post", "renonce"}
        /\ \A e \in pend : e.k \in {"post", "renonce"} => acct.post.o = e.o
  <2>10. ASSUME NEW k, Waits(Now, k) PROVE Whole
    <3>1. Event(k, i).k = k
      BY DEF Event
    <3> HIDE DEF events, thread, i
    <3> QED BY <2>6, <2>10, <3>1
  <2>11. ASSUME WaitsHook(Now) PROVE Whole
    <3> HIDE DEF events, thread, i
    <3> QED BY <2>7, <2>11
  <2>12. ASSUME WaitsKey(Now), Alive PROVE Whole
    <3>1. Flow(Now) = {}
      BY <2>12 DEF WaitsKey
    <3> HIDE DEF events, thread, i
    <3> QED BY <2>8, <2>9, <2>12, <3>1
  <2>13. ASSUME Free(Now), ~Alive PROVE Whole
    <3>1. Flow(Now) = {} /\ acct.post = NoPost
      BY <2>1, <2>13 DEF Free
    <3> HIDE DEF events, thread, i
    <3> QED BY <2>8, <2>13, <3>1
  <2>14. Whole
    <3> HIDE DEF Whole
    <3> QED BY <2>2, <2>10, <2>11, <2>12, <2>13 DEF Running
  <2> QED BY <2>14 DEF OneContinuation
<1> QED BY <1>1, Invariant, PTL

(* Nothing that will run later points to a freed order, whatever ended it,   *)
(* and the key an order uses was made for it: order_free, keygen_abandon and *)
(* acme_cancel_inflight forget nothing.                                      *)
THEOREM NothingDangles == Spec => []NoDangling
<1>1. IInv => NoDangling
  <2> SUFFICES ASSUME IInv PROVE NoDangling
    OBVIOUS
  <2>1. /\ Now.pend = pend /\ Now.kg = kg /\ Now.ord = ord /\ Now.acct = acct
        /\ FlowInv(Now)
    BY NowFields DEF IInv
  <2>2. /\ World(Now) /\ Now \in StateType /\ (Alive <=> Running(Now))
        /\ (~Alive => Free(Now))
        /\ (Alive => OrderInv(Now))
    BY <2>1, Continues
  <2>3. \A e \in pend : e.o \in {0, ord.id}
    <3> SUFFICES ASSUME NEW e \in pend PROVE e.o \in {0, ord.id}
      OBVIOUS
    <3>1. e.k \in FlowKinds \cup Registration \cup {"orphan_timer"}
      BY <2>1, <2>2 DEF StateType, EventType, FlowKinds
    <3>2. CASE e.k \in FlowKinds
      BY <2>1, <3>2, WhichWaits
    <3>3. CASE e.k \in Registration \cup {"orphan_timer"}
      BY <2>1, <2>2, <3>3 DEF World, AccountInv
    <3> QED BY <3>1, <3>2, <3>3
  <2>4. NoPost.o = 0
    BY DEF NoPost
  <2>5. /\ kg.order \in {0, ord.id}
        /\ acct.post.o \in {0, ord.id}
    BY <2>1, <2>2, <2>4 DEF Running, Waits, WaitsHook, WaitsKey, Free
  <2>6. Alive => ord.cert_key \in {0, ord.id}
    BY <2>1, <2>2 DEF OrderInv
  <2> QED BY <2>3, <2>5, <2>6 DEF NoDangling
<1> QED BY <1>1, Invariant, PTL

(* While the CA may be looking the order is published. *)
LEMMA Validates ==
  ASSUME FlowInv(Now), Validating
  PROVE  Running(Now) /\ OrderInv(Now) /\ Published(Now)
<1>1. /\ Now.pend = pend /\ Now.ord = ord /\ Now.acct = acct
  BY NowFields
<1>2. Running(Now) /\ OrderInv(Now)
  BY Continues DEF Validating
<1>3. NoPost.k = "none"
  BY DEF NoPost
<1>4. CASE Event("poll_timer", ord.id) \in pend
  <2>1. Event("poll_timer", ord.id).k = "poll_timer"
    BY DEF Event
  <2>2. /\ "poll_timer" \in FlowKinds /\ "poll_timer" \notin HookTimers
        /\ "poll_timer" \in Looking
    BY DEF FlowKinds, FlowTimers, HookTimers, Looking
  <2>3. Waits(Now, "poll_timer")
    BY <1>1, <1>4, <2>1, <2>2, WhichWaits
  <2> QED BY <1>2, <2>2, <2>3 DEF Waits, Stage
<1>5. CASE acct.post.k \in {"respond", "poll"}
  <2>1. acct.post # NoPost
    BY <1>3, <1>5
  <2>2. PICK k : Waits(Now, k)
    BY <1>1, <1>2, <2>1 DEF Running, WaitsHook, WaitsKey
  <2>3. Stage(Now, acct.post.k)
    BY <1>1, <2>1, <2>2 DEF Waits
  <2> QED BY <1>2, <1>5, <2>3 DEF Stage, Looking
<1> QED BY <1>4, <1>5 DEF Validating

(* The answer of an order is served while the CA may be validating, and is   *)
(* gone when the order has ended by itself or was dropped by a reload or an  *)
(* exit: publish and unpublish balance on every path but a crash.            *)
THEOREM AnswersServed == Spec => []AnswerUp
<1>1. IInv => AnswerUp
  <2> SUFFICES ASSUME IInv PROVE AnswerUp
    OBVIOUS
  <2>1. /\ Now.tokens = tokens /\ Now.alpn = alpn /\ Now.ord = ord
        /\ Now.ended = ended /\ FlowInv(Now)
    BY NowFields DEF IInv
  <2>2. /\ World(Now) /\ (~Alive => ord.id = 0)
        /\ (Alive => ended[ord.id] = "unused" /\ ord.id \in Orders)
    BY <2>1, Continues
  <2>3. ASSUME Validating
        PROVE  CASE ord.mode = "http" -> challenge_get(ord.id)
                 [] ord.mode = "alpn" -> alpn_get(ord.id)
                 [] ord.mode = "dns" -> ord.dns_set
    <3>1. OrderInv(Now) /\ Published(Now)
      BY <2>1, <2>3, Validates
    <3>2. /\ ord.mode \in {"http", "alpn", "dns"}
          /\ ord.id \in tokens <=> ord.set /\ ord.mode = "http"
          /\ alpn = ord.id <=> ord.set /\ ord.mode = "alpn"
          /\ IF ord.mode = "dns" THEN ord.dns_set ELSE ord.set
      BY <2>1, <3>1 DEF OrderInv, OrderType, AnswerInv, Published
    <3> QED BY <3>2 DEF challenge_get, alpn_get
  <2>4. ASSUME NEW o \in Orders, ended[o] \in {"ok", "failed", "dropped"}
        PROVE  ~challenge_get(o) /\ ~alpn_get(o)
    <3>1. o # ord.id
      BY <2>2, <2>4 DEF Orders
    <3> QED BY <2>1, <2>2, <2>4, <3>1
            DEF World, OthersInv, challenge_get, alpn_get
  <2> QED BY <2>3, <2>4 DEF AnswerUp
<1> QED BY <1>1, Invariant, PTL

(* The hooks of a dns-01 order: the CA looks only after the add hook ended   *)
(* with status 0 (hook_done), the remove hook runs only when the add hook is *)
(* over, and no order ends by itself without it.                             *)
THEOREM HooksOrdered == Spec => []HooksInOrder
<1>1. IInv => HooksInOrder
  <2> SUFFICES ASSUME IInv PROVE HooksInOrder
    OBVIOUS
  <2>1. /\ Now.child = child /\ Now.added = added /\ Now.ord = ord
        /\ Now.tried = tried /\ Now.ended = ended /\ FlowInv(Now)
    BY NowFields DEF IInv
  <2>2. /\ World(Now) /\ (~Alive => ord.id = 0)
        /\ (Alive => ended[ord.id] = "unused" /\ ord.id \in Orders)
    BY <2>1, Continues
  <2>3. Validating /\ ord.mode = "dns" => ord.id \in added
    BY <2>1, Validates DEF Published
  <2>4. \A o \in Orders : child[<<o, "remove">>] # "none" =>
          child[<<o, "add">>] \in {"none", "reaped"}
    BY <2>1, <2>2 DEF World, ChildInv
  <2>5. ASSUME NEW o \in Orders, ended[o] \in {"ok", "failed"},
               child[<<o, "add">>] # "none"
        PROVE  o \in tried
    <3>1. o # ord.id
      BY <2>2, <2>5 DEF Orders
    <3> QED BY <2>1, <2>2, <2>5, <3>1 DEF World, OthersInv
  <2> QED BY <2>3, <2>4, <2>5 DEF HooksInOrder
<1> QED BY <1>1, Invariant, PTL

(* A POST that renonce_done sends again carries a nonce that was not used. *)
THEOREM RetriesFresh == Spec => []RetryFresh
<1>1. IInv => RetryFresh
  <2> SUFFICES ASSUME IInv, NEW e \in pend, e.k = "post", acct.post.retried
               PROVE  acct.post.fresh
    BY DEF RetryFresh
  <2>1. Now.pend = pend /\ Now.acct = acct /\ FlowInv(Now)
    BY NowFields DEF IInv
  <2>2. Waits(Now, "post")
    BY <2>1, WhichWaits DEF FlowKinds, HookTimers
  <2> QED BY <2>1, <2>2 DEF Waits
<1> QED BY <1>1, Invariant, PTL

(* What the order flow shows its driver is the contract of Issuance: orders  *)
(* run one at a time, the handler (order_complete) is called exactly once    *)
(* for each that is not dropped, and the certificate changes only with the   *)
(* end of an order, to that order's: always if order_complete is told of     *)
(* success, never if the order was dropped.                                  *)
THEOREM Implements == Spec => OrderContract
<1> DEFINE phase == [o \in Orders |-> IF o = ord.id THEN "running" ELSE ended[o]]
<1>1. Init => Contract!AInit
  <2> SUFFICES ASSUME Init PROVE Contract!AInit
    OBVIOUS
  <2>1. ord.id = 0 /\ \A o \in Orders : o # 0
    BY DEF Init, NoOrder, Orders
  <2>2. phase = [o \in Orders |-> "unused"]
    BY <2>1 DEF Init
  <2> QED BY <2>2 DEF Contract!AInit, Init
<1>2. ASSUME IInv, [Next]_vars PROVE [Contract!ANext]_(Contract!avars)
  <2>1. /\ Now.ord = ord /\ Now.ended = ended /\ Now.calls = calls
        /\ Now.cert = cert /\ Now.frame = frame /\ FlowInv(Now)
    BY <1>2, NowFields DEF IInv
  <2>2. /\ Now'.ord = ord' /\ Now'.ended = ended' /\ Now'.calls = calls'
        /\ Now'.cert = cert'
    BY DEF Now
  <2>3. /\ ended \in [Orders -> {"unused"} \cup Ends] /\ calls \in [Orders -> Nat]
        /\ frame \in 0 .. MaxOrders /\ FrameInv(Now)
    BY <2>1 DEF FlowInv, World, StateType
  <2>4. NoOrder.id = 0 /\ \A o \in Orders : o # 0
    BY DEF NoOrder, Orders
  <2>5. ASSUME ord'.id = ord.id, UNCHANGED <<ended, calls, cert, counted>>
        PROVE  UNCHANGED Contract!avars
    <3>1. phase' = phase
      BY <2>5
    <3> QED BY <2>5, <3>1 DEF Contract!avars
  <2>6. ASSUME ord'.id = ord.id, UNCHANGED <<ended, calls, cert>>,
               frame # 0, counted' = counted \cup {frame}
        PROVE  Contract!ANext
    <3>1. phase' = phase
      BY <2>6
    <3>2. frame \in Orders
      BY <2>3, <2>6 DEF Orders
    <3>3. phase[frame] # "unused"
      BY <2>1, <2>3, <2>6, <3>2 DEF FrameInv
    <3>4. Contract!Count(frame)
      BY <2>6, <3>1, <3>3 DEF Contract!Count
    <3> QED BY <3>2, <3>4 DEF Contract!ANext
  <2>7. ASSUME NEW how \in Ends, ord.id \in Orders,
               ord' = NoOrder, ended' = [ended EXCEPT ![ord.id] = how],
               calls' = [calls EXCEPT
                           ![ord.id] = IF how \in Contract!Handled THEN @ + 1
                                       ELSE @],
               cert' \in Contract!Leaves(ord.id, how, cert), counted' = counted
        PROVE  Contract!ANext
    <3>1. phase[ord.id] = "running"
      BY <2>7
    <3>2. phase' = [phase EXCEPT ![ord.id] = how]
      BY <2>3, <2>4, <2>7
    <3>3. Contract!End(ord.id, how)
      BY <2>7, <3>1, <3>2 DEF Contract!End
    <3>4. how \in Contract!Handled \cup Contract!Unhandled
      BY <2>7 DEF Ends, Contract!Handled, Contract!Unhandled
    <3> QED BY <2>7, <3>3, <3>4 DEF Contract!ANext
  <2>8. ASSUME NEW o \in Orders, ord = NoOrder, ended[o] = "unused", ord'.id = o,
               UNCHANGED <<ended, calls, cert, counted>>
        PROVE  Contract!ANext
    <3>1. phase[o] = "unused" /\ \A p \in Orders : phase[p] # "running"
      BY <2>3, <2>4, <2>8 DEF Ends
    <3>2. phase' = [phase EXCEPT ![o] = "running"]
      BY <2>4, <2>8
    <3>3. Contract!Launch(o)
      BY <2>8, <3>1, <3>2 DEF Contract!Launch
    <3> QED BY <3>3 DEF Contract!ANext
  <2>9. CASE UNCHANGED vars
    BY <2>5, <2>9 DEF vars, flow
  <2>10. CASE Next
    <3>1. Moves
      BY <2>1, <2>10, AStep
    <3>2. CASE Quiet(Now, Now') /\ counted' = counted
      BY <2>1, <2>2, <2>5, <3>2 DEF Quiet
    <3>3. CASE Quiet(Now, Now') /\ frame # 0 /\ counted' = counted \cup {frame}
      BY <2>1, <2>2, <2>6, <3>3 DEF Quiet
    <3>4. CASE Ending(Now, Now') /\ counted' = counted
      <4>1. PICK rc \in {"ok", "failed"} :
              /\ ended' = [ended EXCEPT ![ord.id] = rc]
              /\ calls' = [calls EXCEPT ![ord.id] = @ + 1]
              /\ cert' \in Left(rc, ord.id, cert)
        BY <2>1, <2>2, <3>4 DEF Ending
      <4>2. ord.id \in Orders /\ ord' = NoOrder
        BY <2>1, <2>2, <3>4 DEF Ending
      <4>3. rc \in Ends /\ rc \in Contract!Handled
        BY DEF Ends, Contract!Handled
      <4>4. cert' \in Contract!Leaves(ord.id, rc, cert)
        BY <4>1 DEF Left, Contract!Leaves
      <4> QED BY <2>7, <3>4, <4>1, <4>2, <4>3, <4>4
    <3>5. CASE \E o \in Orders :
                 /\ ord = NoOrder /\ ended[o] = "unused" /\ ord'.id = o
                 /\ UNCHANGED <<ended, calls, cert, counted>>
      BY <2>8, <3>5
    <3>6. ASSUME NEW how \in {"dropped", "died"}, ord' = NoOrder,
                 ended' = EndedAs(Now, how), UNCHANGED <<calls, counted>>,
                 \/ cert' = cert
                 \/ how = "died" /\ ord.id \in Orders /\ cert' = ord.id
          PROVE  [Contract!ANext]_(Contract!avars)
      <4>1. ended' = [o \in Orders |-> IF o = ord.id THEN how ELSE ended[o]]
        BY <2>1, <3>6 DEF EndedAs
      <4>2. CASE ord.id \in Orders
        <5>1. ended' = [ended EXCEPT ![ord.id] = how]
          BY <2>3, <4>1, <4>2
        <5>2. calls' = [calls EXCEPT ![ord.id] = @]
          BY <2>3, <3>6
        <5>3. how \in Ends /\ how \notin Contract!Handled
          BY <3>6 DEF Ends, Contract!Handled
        <5>4. cert' \in Contract!Leaves(ord.id, how, cert)
          BY <3>6 DEF Contract!Leaves
        <5> QED BY <2>7, <3>6, <4>2, <5>1, <5>2, <5>3, <5>4
      <4>3. CASE ord.id \notin Orders
        <5>1. ord.id = 0
          BY <2>1, <4>3, Continues
        <5>2. ended' = ended /\ cert' = cert
          BY <2>3, <3>6, <4>1, <4>3
        <5> QED BY <2>4, <2>5, <3>6, <5>1, <5>2
      <4> QED BY <4>2, <4>3
    <3> QED BY <3>1, <3>2, <3>3, <3>4, <3>5, <3>6 DEF Moves
  <2> QED BY <1>2, <2>9, <2>10
<1> QED BY <1>1, <1>2, Invariant, PTL DEF Spec, OrderContract, Contract!ASpec
=============================================================================
