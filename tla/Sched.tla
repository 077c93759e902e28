------------------------------- MODULE Sched -------------------------------
(***************************************************************************)
(* The driver's timers and its sweep over the configured names,            *)
(* src/src/ngx_autocert_driver.c: the kick that bootstraps the accounts of *)
(* all CAs one after the other, the scheduler that walks CA x name x key   *)
(* type with one order in flight, the back-off of a failing entry, and the *)
(* interval to the next sweep.  One process is modelled at a time, from    *)
(* the moment it holds the driver lock; its handlers run to completion and *)
(* nobody else touches their state, so each handler is one action.         *)
(*                                                                         *)
(* An entry is one (CA, name, key type); the entries are numbered in the   *)
(* order of the walk, the same number for each CA.  Timers and holds are   *)
(* counted down.  A timer that is due fires before time goes on.  Runtime  *)
(* requests (Runtime.tla) appear as orders that take the same order slot.  *)
(***************************************************************************)
EXTENDS Integers, FiniteSets

CONSTANTS
  CAS, PER_CA,       \* number of CAs, and of entries of each CA
  KICK, KICK_RETRY,  \* NGX_AUTOCERT_KICK, NGX_AUTOCERT_KICK_RETRY
  SCHED_INITIAL, SCHED_INTERVAL, SCHED_FLOOR, \* NGX_AUTOCERT_SCHED_*
  BACKOFF_BASE, BACKOFF_MAXSHIFT, BACKOFF_CAP, \* NGX_AUTOCERT_BACKOFF_*
  RENEW, TTL,        \* autocert_renew_before, autocert_runtime_ttl
  LIFE,              \* lifetime of an issued certificate
  ORDER_TIME,        \* bound on the duration of an order
  RT_MAX,            \* runtime orders a sweep may bring about
  RetryAfter,        \* Retry-After values the CA may send, 0 for none
  Faults             \* events the instance allows

ASSUME SchedAssumption ==
  /\ {CAS, PER_CA, BACKOFF_BASE, SCHED_FLOOR} \subseteq Nat \ {0}
  /\ {KICK, KICK_RETRY, SCHED_INITIAL, SCHED_INTERVAL, BACKOFF_MAXSHIFT,
      BACKOFF_CAP, RENEW, TTL, LIFE, ORDER_TIME, RT_MAX} \subseteq Nat
  /\ RetryAfter \subseteq Nat
  /\ Faults \subseteq {"start", "register", "launch", "order", "restart"}

VARIABLES
  kick,     \* ngx_autocert_kick_timer: time left, or Off
  sched,    \* ngx_autocert_sched_timer: time left, or Off
  armed,    \* sched_timer.handler # NULL
  live,     \* CAs with account_live
  reg,      \* the CA whose registration is in flight, or NoCa
  cursor,   \* sched_ca, sched_index, sched_kt: the next entry to look at
  order,    \* the entry of the order in flight, Runtime, or NoOrder
  age,      \* how long the order has been running
  wait,     \* backoff[].next_eligible of each entry, from now
  fails,    \* backoff[].fails of each entry, up to its last effect
  cert,     \* disk: lifetime left of each entry's certificate, or NoCert
  rt,       \* runtime orders that pump_runtime may still launch
  exiting,  \* ngx_exiting
  asked     \* history: how long the CA has asked this process to wait

accounts == <<live, reg>>
backoff == <<wait, fails>>
vars == <<kick, sched, armed, accounts, cursor, order, age, backoff, cert, rt,
          exiting, asked>>

-----------------------------------------------------------------------------
Off == -1
NoCa == 0
NoCert == -1

CA == 1 .. CAS
Entry == 1 .. (CAS * PER_CA)
ca_of(e) == ((e - 1) \div PER_CA) + 1

NoOrder == 0
Runtime == CAS * PER_CA + 1
End == CAS * PER_CA + 1

Least(S) == CHOOSE x \in S : \A y \in S : x <= y

(* name_due, with a store that can be read: an entry whose file cannot be    *)
(* read now counts as not due, and is looked at again in the next sweep.     *)
name_due(e) == cert[e] = NoCert \/ cert[e] <= RENEW

(* MUTANT: the ceiling alone, as if no window were shorter. *)
Interval_Fixed(w) == SCHED_INTERVAL

(* The rearm of sched_pump: half a renewal window, the runtime TTL and the   *)
(* end of the first hold bound the interval, the floor comes last.           *)
Interval(w) ==
  LET bounds == {SCHED_INTERVAL}
                  \cup (IF RENEW > 0 THEN {RENEW \div 2} ELSE {})
                  \cup (IF TTL > 0 THEN {TTL} ELSE {})
                  \cup {w[e] : e \in {i \in Entry : w[i] > 0}}
      n == Least(bounds)
  IN  IF n < SCHED_FLOOR THEN SCHED_FLOOR ELSE n

(* backoff_record of a failure; fails is only ever used up to MAXSHIFT + 1. *)
Fails(n) == IF n > BACKOFF_MAXSHIFT THEN n ELSE n + 1

(* MUTANT: without the ceiling. *)
Delay_Uncapped(n) == BACKOFF_BASE * 2^(n - 1)

Delay(n) == LET d == BACKOFF_BASE * 2^(n - 1)
            IN  IF d > BACKOFF_CAP THEN BACKOFF_CAP ELSE d

(* What an entry may be held for: the ceiling, or what a CA asked for. *)
Holds == {n \in Nat : \E most \in RetryAfter \cup {BACKOFF_CAP} : n <= most}

(* MUTANT: the Retry-After of a 429 is dropped. *)
Held_Ignores(delay, when) == delay

(* backoff_hold: never shortens. *)
Held(delay, when) == IF when > delay THEN when ELSE delay

-----------------------------------------------------------------------------
(* A process that has just got the driver lock: driver_arm. *)
Started ==
  /\ kick' = KICK /\ sched' = Off /\ armed' = FALSE
  /\ live' = {} /\ reg' = NoCa
  /\ cursor' = 1 /\ order' = NoOrder /\ age' = 0
  /\ wait' = [e \in Entry |-> 0] /\ fails' = [e \in Entry |-> 0]
  /\ rt' = 0 /\ exiting' = FALSE
  /\ asked' = [e \in Entry |-> 0]

Init ==
  /\ kick = KICK /\ sched = Off /\ armed = FALSE
  /\ live = {} /\ reg = NoCa
  /\ cursor = 1 /\ order = NoOrder /\ age = 0
  /\ wait = [e \in Entry |-> 0] /\ fails = [e \in Entry |-> 0]
  /\ cert = [e \in Entry |-> NoCert]
  /\ rt = 0 /\ exiting = FALSE
  /\ asked = [e \in Entry |-> 0]

Down(n) == IF n > 0 THEN n - 1 ELSE n

(* Time passes unless a timer is due; an order in flight ends in time. *)
Tick ==
  /\ kick # 0 /\ sched # 0
  /\ order # NoOrder => age < ORDER_TIME
  /\ kick' = Down(kick) /\ sched' = Down(sched)
  /\ age' = IF order # NoOrder THEN age + 1 ELSE 0
  /\ wait' = [e \in Entry |-> Down(wait[e])]
  /\ cert' = [e \in Entry |-> Down(cert[e])]
  /\ asked' = [e \in Entry |-> Down(asked[e])]
  /\ UNCHANGED <<armed, accounts, cursor, order, fails, rt, exiting>>

-----------------------------------------------------------------------------
(* THE BOOTSTRAP CHAIN                                                      *)

(* MUTANT: a dead CA is only retried if no CA came up. *)
bootstrap_end_AnyLive(kicked, up) ==
  /\ reg' = NoCa
  /\ armed' = (armed \/ up # {})
  /\ sched' = IF up # {} /\ ~armed THEN SCHED_INITIAL ELSE sched
  /\ kick' = IF up = {} /\ kicked = Off THEN KICK_RETRY ELSE kicked

(* bootstrap_ca at the end of the chain: start_order arms the scheduler      *)
(* once, and dead CAs are tried again later.                                 *)
bootstrap_end(kicked, up) ==
  /\ reg' = NoCa
  /\ armed' = (armed \/ up # {})
  /\ sched' = IF up # {} /\ ~armed THEN SCHED_INITIAL ELSE sched
  /\ kick' = IF up # CA /\ kicked = Off THEN KICK_RETRY ELSE kicked

(* bootstrap_ca: the next CA without an account whose registration can be    *)
(* started; one that cannot (client, pool, key path) is passed over.         *)
bootstrap_ca(from, kicked, up) ==
  LET todo == {c \in CA : c >= from /\ c \notin up}
      skip(c) == {d \in todo : d < c} = {} \/ "start" \in Faults
  IN  \/ \E c \in todo :
           /\ skip(c)
           /\ reg' = c /\ kick' = kicked
           /\ UNCHANGED <<sched, armed>>
      \/ /\ skip(CAS + 1)
         /\ bootstrap_end(kicked, up)

(* kick_handler *)
KickFires ==
  /\ kick = 0
  /\ IF exiting
     THEN kick' = Off /\ UNCHANGED <<reg, sched, armed>>
     ELSE bootstrap_ca(1, Off, live)
  /\ UNCHANGED <<live, cursor, order, age, backoff, cert, rt, exiting, asked>>

(* account_done: the chain goes on with the next CA, unless retiring. *)
AccountDone(ok) ==
  /\ reg # NoCa
  /\ ok \/ "register" \in Faults
  /\ live' = IF ok THEN live \cup {reg} ELSE live
  /\ IF exiting
     THEN reg' = NoCa /\ UNCHANGED <<kick, sched, armed>>
     ELSE bootstrap_ca(reg + 1, kick, live')
  /\ UNCHANGED <<cursor, order, age, backoff, cert, rt, exiting, asked>>

-----------------------------------------------------------------------------
(* THE SWEEP                                                                *)

(* What sched_pump looks for from entry `from` on: entries of dead CAs, held *)
(* or not due are passed over.                                               *)
Ready(from, w) ==
  {e \in Entry : e >= from /\ ca_of(e) \in live /\ w[e] = 0 /\ name_due(e)}

(* Entries that could not be launched are held as failed. *)
Recorded(failed, w, f) ==
  /\ fails' = [e \in Entry |-> IF e \in failed THEN Fails(f[e]) ELSE f[e]]
  /\ wait' = [e \in Entry |-> IF e \in failed THEN Delay(Fails(f[e]))
                                              ELSE w[e]]

(* An order is launched for e, every ready entry before it having failed. *)
LaunchConfig(from, w, f, e) ==
  LET failed == {d \in Ready(from, w) : d < e}
  IN  /\ e \in Ready(from, w)
      /\ failed = {} \/ "launch" \in Faults
      /\ Recorded(failed, w, f)
      /\ order' = e /\ cursor' = e + 1

(* The walk is over: pump_runtime takes the order slot, or the timer is set. *)
LaunchNone(from, w, f, timer, budget) ==
  LET failed == Ready(from, w)
  IN  /\ failed = {} \/ "launch" \in Faults
      /\ Recorded(failed, w, f)
      /\ cursor' = End
      /\ IF budget > 0
         THEN order' = Runtime /\ rt' = budget - 1 /\ sched' = timer
         ELSE order' = NoOrder /\ rt' = 0 /\ sched' = Interval(wait')

sched_pump(from, w, f, timer, budget) ==
  /\ age' = 0
  /\ \/ /\ \E e \in Entry : LaunchConfig(from, w, f, e)
        /\ sched' = timer /\ rt' = budget
     \/ LaunchNone(from, w, f, timer, budget)

(* MUTANT: the sweep goes on from where the last one ended. *)
SchedFires_KeepsCursor ==
  /\ sched = 0
  /\ IF exiting
     THEN sched' = Off /\ UNCHANGED <<cursor, order, age, backoff, rt>>
     ELSE \E budget \in 0 .. RT_MAX :
            sched_pump(cursor, wait, fails, Off, budget)
  /\ UNCHANGED <<kick, armed, accounts, cert, exiting, asked>>

(* sched_handler: a new sweep, unless retiring.  An order in flight would    *)
(* only have the timer set again.  Until the sweep is over consumers will    *)
(* have asked for up to RT_MAX runtime orders.                               *)
SchedFires ==
  /\ sched = 0
  /\ CASE exiting ->
            sched' = Off /\ UNCHANGED <<cursor, order, age, backoff, rt>>
       [] ~exiting /\ order # NoOrder ->
            /\ sched' = SCHED_INTERVAL
            /\ UNCHANGED <<cursor, order, age, backoff, rt>>
       [] OTHER ->
            \E budget \in 0 .. RT_MAX :
              sched_pump(1, wait, fails, Off, budget)
  /\ UNCHANGED <<kick, armed, accounts, cert, exiting, asked>>

(* What order_complete does after the ledger <<w, f>> was written. *)
GoesOn(w, f) ==
  IF exiting
  THEN /\ order' = NoOrder /\ age' = 0 /\ wait' = w /\ fails' = f
       /\ UNCHANGED <<cursor, sched, rt>>
  ELSE sched_pump(cursor, w, f, sched, rt)

(* order_complete(NGX_OK) of a configured entry: the certificate is stored,  *)
(* the back-off cleared.  (The sweep that follows does not look back at it.) *)
OrderOk ==
  /\ order \in Entry
  /\ cert' = [cert EXCEPT ![order] = LIFE]
  /\ GoesOn([wait EXCEPT ![order] = 0], [fails EXCEPT ![order] = 0])
  /\ UNCHANGED <<kick, armed, accounts, exiting, asked>>

(* order_complete(NGX_ERROR): the entry is held, at least as long as a 429's *)
(* Retry-After says.  If only the last fsync failed its certificate is there. *)
OrderFails(when) ==
  /\ order \in Entry
  /\ "order" \in Faults
  /\ LET n == Fails(fails[order])
     IN  GoesOn([wait EXCEPT ![order] = Held(Delay(n), when)],
                [fails EXCEPT ![order] = n])
  /\ asked' = [asked EXCEPT ![order] = when]
  /\ cert' \in {cert, [cert EXCEPT ![order] = LIFE]}
  /\ UNCHANGED <<kick, armed, accounts, exiting>>

(* order_complete of a runtime order: the ledger is on the shared node. *)
RuntimeDone ==
  /\ order = Runtime
  /\ GoesOn(wait, fails)
  /\ UNCHANGED <<kick, armed, accounts, cert, exiting, asked>>

-----------------------------------------------------------------------------
(* The worker is told to shut down gracefully. *)
Quit ==
  /\ "restart" \in Faults
  /\ ~exiting
  /\ exiting' = TRUE
  /\ UNCHANGED <<kick, sched, armed, accounts, cursor, order, age, backoff,
                 cert, rt, asked>>

(* MUTANT: the scheduler's timer is cancelled but not forgotten. *)
Replaced_KeepsArmed ==
  /\ "restart" \in Faults
  /\ kick' = KICK /\ sched' = Off
  /\ live' = {} /\ reg' = NoCa
  /\ cursor' = 1 /\ order' = NoOrder /\ age' = 0
  /\ wait' = [e \in Entry |-> 0] /\ fails' = [e \in Entry |-> 0]
  /\ rt' = 0 /\ exiting' = FALSE
  /\ asked' = [e \in Entry |-> 0]
  /\ UNCHANGED <<armed, cert>>

(* The state is dropped and built again: by the successor of a worker that   *)
(* exited or died, or by driver_reload in the process itself (master_process *)
(* off).                                                                     *)
Replaced ==
  /\ "restart" \in Faults
  /\ Started
  /\ UNCHANGED cert

Order == OrderOk \/ RuntimeDone \/ \E when \in RetryAfter : OrderFails(when)

Account == \E ok \in BOOLEAN : AccountDone(ok)

Next ==
  \/ Tick \/ KickFires \/ SchedFires \/ Account \/ Order
  \/ Quit \/ Replaced

(* Timers fire, requests are answered or time out, time passes, a retiring   *)
(* process is replaced.                                                      *)
Fairness ==
  /\ WF_vars(Tick) /\ WF_vars(KickFires) /\ WF_vars(SchedFires)
  /\ WF_vars(Account) /\ WF_vars(Order)
  /\ WF_vars(exiting /\ Replaced)

Spec == Init /\ [][Next]_vars

FairSpec == Spec /\ Fairness

-----------------------------------------------------------------------------
(* TYPE INVARIANT. *)
TypeOK ==
  /\ {kick, sched} \subseteq Nat \cup {Off}
  /\ armed \in BOOLEAN /\ exiting \in BOOLEAN
  /\ live \subseteq CA /\ reg \in CA \cup {NoCa}
  /\ cursor \in 1 .. End
  /\ order \in Entry \cup {NoOrder, Runtime}
  /\ age \in 0 .. ORDER_TIME
  /\ wait \in [Entry -> Holds]
  /\ fails \in [Entry -> 0 .. BACKOFF_MAXSHIFT + 1]
  /\ cert \in [Entry -> {NoCert} \cup (0 .. LIFE)]
  /\ rt \in 0 .. RT_MAX

(* The scheduler neither stops nor runs twice: once it was started, exactly  *)
(* one of the order in flight and the timer carries it on, through failed    *)
(* launches, runtime orders, reloads and CAs that come up later.             *)
OneBeat == armed /\ ~exiting => ((order # NoOrder) # (sched # Off))

(* A CA that is not up is not given up: its registration is in flight, or    *)
(* the chain that will try it again is or is going to be started.            *)
DeadCaRetried == ~exiting /\ live # CA => reg # NoCa \/ kick # Off

(* One 429 is enough: while an order for an entry is in flight, the time the *)
(* CA asked this process to wait is over, whatever the back-off says.        *)
RetryAfterKept == order \in Entry => asked[order] = 0

(* With a CA that answers, no certificate expires: the next sweep comes soon *)
(* enough, although the entries and the runtime requests before it share the *)
(* one order slot.                                                           *)
NeverExpires == \A e \in Entry : cert[e] # 0

(* No entry starves: once a process stays and has its accounts, an entry     *)
(* that is due and not held is ordered, or held anew because its launch      *)
(* failed, however often the other entries fail and runtime orders come in   *)
(* between.                                                                  *)
ReadyIsTried ==
  <>[](live = CA) =>
    \A e \in Entry :
      name_due(e) /\ wait[e] = 0 ~> order = e \/ wait[e] > 0 \/ ~name_due(e)

(* What the ACME client relies on to cancel the one pending request before   *)
(* its pool is destroyed (ngx_autocert_acme_inflight): an order and an       *)
(* account bootstrap are never in flight together.                           *)
OneFlow == reg = NoCa \/ order = NoOrder
=============================================================================
