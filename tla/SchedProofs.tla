---------------------------- MODULE SchedProofs ----------------------------
(***************************************************************************)
(* The scheduler keeps its beat, gives no CA up and respects a CA's        *)
(* Retry-After, for any number of CAs and entries, any intervals, back-off *)
(* and budget of runtime orders, and all faults; and it renews in time if  *)
(* the renewal window leaves room for a sweep.                             *)
(***************************************************************************)
EXTENDS Sched, FiniteSetTheorems, WellFoundedInduction, TLAPS

(* OneBeat is not inductive: the first live CA starts the scheduler's timer, *)
(* which must find neither an order nor a timer there.                       *)
Beat == OneBeat /\ (~armed => order = NoOrder /\ sched = Off)

(* RetryAfterKept is not inductive: what is held is looked at when an order  *)
(* is launched (sched_pump skips an entry whose next_eligible lies ahead),   *)
(* so the hold has to cover what the CA asked for all along.                 *)
HoldCovers ==
  /\ asked \in [Entry -> Nat]
  /\ \A e \in Entry : asked[e] <= wait[e]
  /\ RetryAfterKept

SchedInv == TypeOK /\ Beat /\ DeadCaRetried /\ HoldCovers

-----------------------------------------------------------------------------
(* OPERATORS                                                                *)

(* A set of naturals that is not empty has a least element. *)
LEMMA LeastIsLeast ==
  ASSUME NEW S \in SUBSET Nat, S # {}
  PROVE  Least(S) \in S /\ \A y \in S : Least(S) <= y
<1>1. PICK x \in S : \A y \in S : ~ (<<y, x>> \in OpToRel(<, Nat))
  BY NatLessThanWellFounded, WFMin
<1>2. \A y \in S : ~(y < x)
  BY <1>1 DEF OpToRel
<1>3. \E z \in S : \A y \in S : z <= y
  BY <1>2
<1> QED BY <1>3 DEF Least

(* A power of two is a natural number: it counts the subsets of a set. *)
LEMMA PowerOfTwo == \A n \in Nat : 2^n \in Nat
<1> SUFFICES ASSUME NEW n \in Nat PROVE 2^n \in Nat
  OBVIOUS
<1>1. IsFiniteSet(1 .. n) /\ Cardinality(1 .. n) = n
  BY FS_Interval
<1>2. IsFiniteSet(SUBSET (1 .. n)) /\ Cardinality(SUBSET (1 .. n)) = 2^n
  BY <1>1, FS_SUBSET
<1> QED BY <1>2, FS_CardinalityType

(* The entries are numbered from one, and the numbers that stand for no      *)
(* entry are none of them.                                                   *)
LEMMA Numbers ==
  /\ CAS * PER_CA \in Nat
  /\ Runtime \in Nat \ {0} /\ End = Runtime
  /\ Entry = 1 .. (Runtime - 1)
  /\ 1 \in 1 .. End
<1>1. CAS * PER_CA \in Nat
  BY SchedAssumption
<1> QED BY <1>1 DEF Runtime, End, Entry

(* The interval to the next sweep is at least the floor, whatever is held:   *)
(* the timer sched_pump sets is running.                                     *)
LEMMA IntervalRuns ==
  ASSUME NEW w \in [Entry -> Nat]
  PROVE  Interval(w) \in Nat /\ Interval(w) >= SCHED_FLOOR
<1> DEFINE B == {SCHED_INTERVAL}
                  \cup (IF RENEW > 0 THEN {RENEW \div 2} ELSE {})
                  \cup (IF TTL > 0 THEN {TTL} ELSE {})
                  \cup {w[e] : e \in {i \in Entry : w[i] > 0}}
<1>1. RENEW > 0 => RENEW \div 2 \in Nat
  BY SchedAssumption
<1>2. B \in SUBSET Nat /\ B # {}
  BY <1>1, SchedAssumption
<1> HIDE DEF B
<1>3. Least(B) \in Nat
  BY <1>2, LeastIsLeast
<1>4. Interval(w) = IF Least(B) < SCHED_FLOOR THEN SCHED_FLOOR ELSE Least(B)
  BY DEF Interval, B
<1> QED BY <1>3, <1>4, SchedAssumption

(* The back-off of a failure is a hold an entry may have, and the count of   *)
(* failures stays where the shift is defined.                                *)
LEMMA BackoffTypes ==
  ASSUME NEW n \in 0 .. BACKOFF_MAXSHIFT + 1
  PROVE  /\ Fails(n) \in 0 .. BACKOFF_MAXSHIFT + 1
         /\ Delay(Fails(n)) \in Holds
<1>1. Fails(n) \in 1 .. BACKOFF_MAXSHIFT + 1
  BY SchedAssumption DEF Fails
<1>2. Fails(n) - 1 \in Nat
  BY <1>1, SchedAssumption
<1> DEFINE p == 2^(Fails(n) - 1)
<1>3. p \in Nat
  BY <1>2, PowerOfTwo
<1>4. Delay(Fails(n)) = IF BACKOFF_BASE * p > BACKOFF_CAP THEN BACKOFF_CAP
                                                          ELSE BACKOFF_BASE * p
  BY DEF Delay
<1> HIDE DEF p
<1>5. BACKOFF_BASE * p \in Nat
  BY <1>3, SchedAssumption
<1>6. Delay(Fails(n)) \in Nat /\ Delay(Fails(n)) <= BACKOFF_CAP
  BY <1>4, <1>5, SchedAssumption
<1> QED BY <1>1, <1>6, SchedAssumption DEF Holds

(* backoff_hold: the entry is held as long as the CA asked, and as long as   *)
(* the back-off says.                                                        *)
LEMMA HeldTypes ==
  ASSUME NEW d \in Holds, NEW when \in RetryAfter
  PROVE  Held(d, when) \in Holds /\ when <= Held(d, when)
BY SchedAssumption DEF Held, Holds

(* Holds are times, and no hold is one of them. *)
LEMMA HoldsAreTimes == Holds \subseteq Nat /\ 0 \in Holds
BY SchedAssumption DEF Holds

-----------------------------------------------------------------------------
(* THE SWEEP                                                                *)

(* What sched_pump is called with: a ledger <<w, f>> whose holds cover what  *)
(* each CA asked for, a timer that is off and no order that still runs.      *)
Ledger(w, f, a) ==
  /\ w \in [Entry -> Holds]
  /\ f \in [Entry -> 0 .. BACKOFF_MAXSHIFT + 1]
  /\ a \in [Entry -> Nat]
  /\ \A e \in Entry : a[e] <= w[e]

(* Entries that could not be launched are recorded as failed: the ledger     *)
(* stays one.                                                                *)
LEMMA RecordedTypes ==
  ASSUME NEW w, NEW f, NEW a, Ledger(w, f, a), NEW failed,
         \A e \in Entry : e \in failed => w[e] = 0,
         Recorded(failed, w, f)
  PROVE  Ledger(wait', fails', a)
<1>1. \A e \in Entry : /\ f[e] \in 0 .. BACKOFF_MAXSHIFT + 1
                       /\ w[e] \in Holds /\ a[e] \in Nat /\ a[e] <= w[e]
  BY DEF Ledger
<1>2. \A e \in Entry : /\ Fails(f[e]) \in 0 .. BACKOFF_MAXSHIFT + 1
                       /\ Delay(Fails(f[e])) \in Holds
  BY <1>1, BackoffTypes
<1>3. fails' \in [Entry -> 0 .. BACKOFF_MAXSHIFT + 1]
  BY <1>1, <1>2 DEF Recorded
<1>4. wait' \in [Entry -> Holds]
  BY <1>1, <1>2 DEF Recorded
<1>5. ASSUME NEW e \in Entry PROVE a[e] <= wait'[e]
  <2>1. wait'[e] = IF e \in failed THEN Delay(Fails(f[e])) ELSE w[e]
    BY DEF Recorded
  <2>2. CASE e \in failed
    <3>1. w[e] = 0 /\ a[e] = 0
      BY <1>1, <2>2
    <3>2. wait'[e] \in Nat
      BY <1>2, <2>1, <2>2, HoldsAreTimes
    <3> QED BY <3>1, <3>2
  <2>3. CASE e \notin failed
    BY <1>1, <2>1, <2>3
  <2> QED BY <2>2, <2>3
<1> QED BY <1>3, <1>4, <1>5 DEF Ledger

(* sched_pump either launches one order, for an entry that is not held or    *)
(* for a runtime request, and leaves the timer off, or launches none and     *)
(* sets the timer.                                                           *)
LEMMA PumpBeats ==
  ASSUME NEW from, NEW w, NEW f, NEW a, Ledger(w, f, a),
         NEW budget \in 0 .. RT_MAX, NEW timer, timer = Off,
         sched_pump(from, w, f, timer, budget)
  PROVE  /\ Ledger(wait', fails', a)
         /\ cursor' \in 1 .. End /\ age' = 0 /\ rt' \in 0 .. RT_MAX
         /\ \/ order' \in Entry /\ a[order'] = 0 /\ sched' = Off
            \/ order' = Runtime /\ sched' = Off
            \/ order' = NoOrder /\ sched' \in Nat
<1>1. \A e \in Ready(from, w) : w[e] = 0
  BY DEF Ready
<1>2. ASSUME NEW e \in Entry, LaunchConfig(from, w, f, e),
             sched' = timer, rt' = budget
      PROVE  /\ Ledger(wait', fails', a)
             /\ cursor' \in 1 .. End /\ rt' \in 0 .. RT_MAX
             /\ order' \in Entry /\ a[order'] = 0 /\ sched' = Off
  <2> DEFINE failed == {d \in Ready(from, w) : d < e}
  <2>1. \A d \in Entry : d \in failed => w[d] = 0
    BY <1>1
  <2>2. Recorded(failed, w, f)
    BY <1>2 DEF LaunchConfig
  <2>3. Ledger(wait', fails', a)
    BY <2>1, <2>2, RecordedTypes
  <2>4. order' = e /\ cursor' = e + 1 /\ w[e] = 0
    BY <1>1, <1>2 DEF LaunchConfig
  <2>5. a[e] = 0
    BY <2>4 DEF Ledger
  <2>6. cursor' \in 1 .. End
    BY <2>4, Numbers
  <2> QED BY <1>2, <2>3, <2>4, <2>5, <2>6
<1>3. ASSUME LaunchNone(from, w, f, timer, budget)
      PROVE  /\ Ledger(wait', fails', a)
             /\ cursor' \in 1 .. End /\ rt' \in 0 .. RT_MAX
             /\ \/ order' = Runtime /\ sched' = Off
                \/ order' = NoOrder /\ sched' \in Nat
  <2>1. \A d \in Entry : d \in Ready(from, w) => w[d] = 0
    BY <1>1
  <2>2. Ledger(wait', fails', a)
    BY <1>3, <2>1, RecordedTypes DEF LaunchNone
  <2>3. cursor' \in 1 .. End
    BY <1>3, Numbers DEF LaunchNone
  <2>4. CASE budget > 0
    <3>1. order' = Runtime /\ sched' = Off /\ rt' = budget - 1
      BY <1>3, <2>4 DEF LaunchNone
    <3>2. rt' \in 0 .. RT_MAX
      BY <2>4, <3>1, SchedAssumption
    <3> QED BY <2>2, <2>3, <3>1, <3>2
  <2>5. CASE ~(budget > 0)
    <3>1. order' = NoOrder /\ rt' = 0 /\ sched' = Interval(wait')
      BY <1>3, <2>5 DEF LaunchNone
    <3>2. wait' \in [Entry -> Nat]
      BY <2>2, HoldsAreTimes DEF Ledger
    <3>3. sched' \in Nat
      BY <3>1, <3>2, IntervalRuns
    <3> QED BY <2>2, <2>3, <3>1, <3>3, SchedAssumption
  <2> QED BY <2>4, <2>5
<1> QED BY <1>2, <1>3 DEF sched_pump

-----------------------------------------------------------------------------
(* EVERY HANDLER                                                            *)

(* It holds in a process that has just got the driver lock. *)
LEMMA SchedInvInit == Init => SchedInv
<1> SUFFICES ASSUME Init PROVE SchedInv
  OBVIOUS
<1>1. TypeOK
  <2>1. wait \in [Entry -> Holds] /\ fails \in [Entry -> 0 .. BACKOFF_MAXSHIFT + 1]
    BY HoldsAreTimes, SchedAssumption DEF Init
  <2>2. kick \in Nat /\ 0 \in 0 .. ORDER_TIME /\ 0 \in 0 .. RT_MAX
    BY SchedAssumption DEF Init
  <2>3. 1 \in 1 .. End
    BY Numbers
  <2>4. cert \in [Entry -> {NoCert} \cup (0 .. LIFE)]
    BY DEF Init
  <2> QED BY <2>1, <2>2, <2>3, <2>4 DEF Init, TypeOK
<1>2. Beat
  BY DEF Init, Beat, OneBeat
<1>3. DeadCaRetried
  BY SchedAssumption DEF Init, DeadCaRetried, Off
<1>4. HoldCovers
  BY Numbers DEF Init, HoldCovers, RetryAfterKept, NoOrder
<1> QED BY <1>1, <1>2, <1>3, <1>4 DEF SchedInv

(* Time passes: the hold and what is left of what the CA asked for go down   *)
(* together, and timers that run keep running.                               *)
LEMMA TickKeeps == SchedInv /\ Tick => SchedInv'
<1> SUFFICES ASSUME SchedInv, Tick PROVE SchedInv'
  OBVIOUS
<1> USE DEF SchedInv
<1>1. \A n \in Nat : Down(n) \in Nat /\ Down(n) <= n
  BY DEF Down
<1>2. \A n \in Nat \cup {Off} : /\ Down(n) \in Nat \cup {Off}
                                /\ Down(n) = Off <=> n = Off
  BY DEF Down, Off
<1>3. wait' \in [Entry -> Holds]
  <2>1. \A n \in Holds : Down(n) \in Holds
    BY <1>1, SchedAssumption DEF Holds
  <2> QED BY <2>1 DEF Tick, TypeOK
<1>4. cert' \in [Entry -> {NoCert} \cup (0 .. LIFE)]
  <2>1. \A n \in {NoCert} \cup (0 .. LIFE) : Down(n) \in {NoCert} \cup (0 .. LIFE)
    BY SchedAssumption DEF Down, NoCert
  <2> QED BY <2>1 DEF Tick, TypeOK
<1>5. age' \in 0 .. ORDER_TIME
  <2>1. ORDER_TIME \in Nat /\ age \in 0 .. ORDER_TIME
    BY SchedAssumption DEF TypeOK
  <2>2. order # NoOrder => age < ORDER_TIME
    BY DEF Tick
  <2>3. age' = IF order # NoOrder THEN age + 1 ELSE 0
    BY DEF Tick
  <2> QED BY <2>1, <2>2, <2>3
<1>6. TypeOK'
  <2>1. {kick', sched'} \subseteq Nat \cup {Off}
    <3>1. kick' = Down(kick) /\ sched' = Down(sched)
      BY DEF Tick
    <3>2. kick \in Nat \cup {Off} /\ sched \in Nat \cup {Off}
      BY DEF TypeOK
    <3>3. Down(kick) \in Nat \cup {Off} /\ Down(sched) \in Nat \cup {Off}
      BY <1>2, <3>2
    <3> QED BY <3>1, <3>3
  <2>2. UNCHANGED <<armed, live, reg, cursor, order, fails, rt, exiting>>
    BY DEF Tick, accounts
  <2> QED BY <1>3, <1>4, <1>5, <2>1, <2>2 DEF TypeOK
<1>7. (sched' = Off <=> sched = Off) /\ (kick' = Off <=> kick = Off)
  BY <1>2 DEF Tick, TypeOK
<1>8. Beat' /\ DeadCaRetried'
  BY <1>7 DEF Tick, Beat, OneBeat, DeadCaRetried, accounts
<1>9. HoldCovers'
  <2>1. asked' \in [Entry -> Nat]
    BY <1>1 DEF Tick, HoldCovers
  <2>2. ASSUME NEW e \in Entry PROVE asked'[e] <= wait'[e]
    <3>1. asked'[e] = Down(asked[e]) /\ wait'[e] = Down(wait[e])
      BY DEF Tick
    <3>2. asked[e] \in Nat /\ wait[e] \in Nat /\ asked[e] <= wait[e]
      BY HoldsAreTimes DEF HoldCovers, TypeOK
    <3> QED BY <3>1, <3>2 DEF Down
  <2>3. RetryAfterKept'
    BY DEF Tick, HoldCovers, RetryAfterKept, Down
  <2> QED BY <2>1, <2>2, <2>3 DEF HoldCovers
<1> QED BY <1>6, <1>8, <1>9

(* What the sweep and the holds consist of is left alone. *)
SweepKept == UNCHANGED <<cursor, order, age, backoff, cert, rt, exiting, asked>>

(* bootstrap_ca either starts the registration of a CA that is not live, or  *)
(* ends the chain: the scheduler is armed with the first live CA, and a      *)
(* chain that leaves a CA dead leaves a kick that will try it again.         *)
LEMMA BootstrapKeeps ==
  ASSUME SchedInv, NEW from, NEW kicked \in Nat \cup {Off},
         NEW up \in SUBSET CA, live' = up,
         bootstrap_ca(from, kicked, up), SweepKept
  PROVE  SchedInv'
<1> USE DEF SchedInv
<1>1. \A c \in CA : c # NoCa
  BY SchedAssumption DEF CA, NoCa
<1>2. {KICK_RETRY, SCHED_INITIAL} \subseteq Nat /\ Off \notin Nat
  BY SchedAssumption DEF Off
<1>3. \/ /\ reg' \in CA /\ kick' = kicked
         /\ UNCHANGED <<sched, armed>>
      \/ bootstrap_end(kicked, up)
  BY DEF bootstrap_ca
<1>4. HoldCovers'
  BY DEF SweepKept, HoldCovers, RetryAfterKept, backoff
<1>5. ASSUME reg' \in CA, kick' = kicked, UNCHANGED <<sched, armed>>
      PROVE  TypeOK' /\ Beat' /\ DeadCaRetried'
  <2>1. TypeOK'
    BY <1>5 DEF SweepKept, TypeOK, backoff
  <2>2. Beat'
    BY <1>5 DEF SweepKept, Beat, OneBeat
  <2>3. DeadCaRetried'
    BY <1>1, <1>5 DEF DeadCaRetried
  <2> QED BY <2>1, <2>2, <2>3
<1>6. ASSUME bootstrap_end(kicked, up)
      PROVE  TypeOK' /\ Beat' /\ DeadCaRetried'
  <2>1. TypeOK'
    <3>1. /\ sched' \in Nat \cup {Off} /\ kick' \in Nat \cup {Off}
          /\ armed' \in BOOLEAN /\ reg' = NoCa
      BY <1>2, <1>6 DEF bootstrap_end, TypeOK
    <3> QED BY <3>1 DEF SweepKept, TypeOK, backoff
  <2>2. Beat'
    <3>1. CASE armed
      BY <1>6, <3>1 DEF bootstrap_end, SweepKept, Beat, OneBeat
    <3>2. CASE ~armed
      <4>1. order' = NoOrder /\ sched = Off
        BY <3>2 DEF SweepKept, Beat
      <4>2. CASE up = {}
        BY <1>6, <3>2, <4>1, <4>2 DEF bootstrap_end, Beat, OneBeat, TypeOK
      <4>3. CASE up # {}
        <5>1. sched' = SCHED_INITIAL /\ armed'
          BY <1>6, <3>2, <4>3 DEF bootstrap_end
        <5> QED BY <1>2, <4>1, <5>1 DEF Beat, OneBeat
      <4> QED BY <4>2, <4>3
    <3> QED BY <3>1, <3>2
  <2>3. DeadCaRetried'
    BY <1>2, <1>6 DEF bootstrap_end, DeadCaRetried
  <2> QED BY <2>1, <2>2, <2>3
<1> QED BY <1>3, <1>4, <1>5, <1>6

(* kick_handler and account_done keep the invariant. *)
LEMMA ChainKeeps == SchedInv /\ (KickFires \/ Account) => SchedInv'
<1> SUFFICES ASSUME SchedInv, KickFires \/ Account PROVE SchedInv'
  OBVIOUS
<1>1. CASE KickFires
  <2>1. SweepKept /\ live' = live /\ live \in SUBSET CA
    BY <1>1 DEF KickFires, SweepKept, SchedInv, TypeOK
  <2>2. CASE exiting
    <3>1. kick' = Off /\ UNCHANGED <<reg, sched, armed>>
      BY <1>1, <2>2 DEF KickFires
    <3> QED BY <2>1, <2>2, <3>1
        DEF SweepKept, SchedInv, TypeOK, Beat, OneBeat, DeadCaRetried,
            HoldCovers, RetryAfterKept, backoff
  <2>3. CASE ~exiting
    <3>1. bootstrap_ca(1, Off, live)
      BY <1>1, <2>3 DEF KickFires
    <3> QED BY <2>1, <3>1, BootstrapKeeps
  <2> QED BY <2>2, <2>3
<1>2. ASSUME NEW ok \in BOOLEAN, AccountDone(ok) PROVE SchedInv'
  <2>1. SweepKept /\ live' \in SUBSET CA
    BY <1>2 DEF AccountDone, SweepKept, SchedInv, TypeOK
  <2>2. CASE exiting
    <3>1. reg' = NoCa /\ UNCHANGED <<kick, sched, armed>>
      BY <1>2, <2>2 DEF AccountDone
    <3> QED BY <2>1, <2>2, <3>1
        DEF SweepKept, SchedInv, TypeOK, Beat, OneBeat, DeadCaRetried,
            HoldCovers, RetryAfterKept, backoff
  <2>3. CASE ~exiting
    <3>1. bootstrap_ca(reg + 1, kick, live')
      BY <1>2, <2>3 DEF AccountDone
    <3>2. kick \in Nat \cup {Off}
      BY DEF SchedInv, TypeOK
    <3> QED BY <2>1, <3>1, <3>2, BootstrapKeeps
  <2> QED BY <2>2, <2>3
<1> QED BY <1>1, <1>2 DEF Account

(* The order slot was free or is given free, and the sweep goes on with the  *)
(* ledger <<w, f>>, a timer that is off and what is left of the budget.      *)
LEMMA PumpKeeps ==
  ASSUME SchedInv, ~exiting, armed, NEW from, NEW w, NEW f,
         NEW budget \in 0 .. RT_MAX, Ledger(w, f, asked'),
         sched_pump(from, w, f, Off, budget),
         cert' \in [Entry -> {NoCert} \cup (0 .. LIFE)],
         UNCHANGED <<kick, armed, accounts, exiting>>
  PROVE  SchedInv'
<1>1. /\ Ledger(wait', fails', asked')
      /\ cursor' \in 1 .. End /\ age' = 0 /\ rt' \in 0 .. RT_MAX
      /\ \/ order' \in Entry /\ asked'[order'] = 0 /\ sched' = Off
         \/ order' = Runtime /\ sched' = Off
         \/ order' = NoOrder /\ sched' \in Nat
  BY PumpBeats
<1>2. NoOrder \notin Entry /\ Runtime \notin Entry /\ Runtime # NoOrder
  BY Numbers DEF NoOrder
<1>3. Off \notin Nat /\ 0 \in 0 .. ORDER_TIME
  BY SchedAssumption DEF Off
<1>4. TypeOK'
  <2>1. {kick', sched'} \subseteq Nat \cup {Off}
    BY <1>1 DEF SchedInv, TypeOK
  <2>2. wait' \in [Entry -> Holds] /\ fails' \in [Entry -> 0 .. BACKOFF_MAXSHIFT + 1]
    BY <1>1 DEF Ledger
  <2>3. order' \in Entry \cup {NoOrder, Runtime}
    BY <1>1
  <2>4. UNCHANGED <<armed, live, reg, exiting>>
    BY DEF accounts
  <2> QED BY <1>1, <1>3, <2>1, <2>2, <2>3, <2>4 DEF SchedInv, TypeOK
<1>5. Beat'
  BY <1>1, <1>2, <1>3 DEF Beat, OneBeat
<1>6. DeadCaRetried'
  BY DEF SchedInv, DeadCaRetried, accounts
<1>7. HoldCovers'
  BY <1>1, <1>2 DEF HoldCovers, RetryAfterKept, Ledger
<1> QED BY <1>4, <1>5, <1>6, <1>7 DEF SchedInv

(* sched_handler keeps the invariant: its timer was running, so there was no *)
(* order, and the case that would find one never comes.                      *)
LEMMA SchedFiresKeeps == SchedInv /\ SchedFires => SchedInv'
<1> SUFFICES ASSUME SchedInv, SchedFires PROVE SchedInv'
  OBVIOUS
<1>1. /\ sched = 0 /\ sched # Off
      /\ UNCHANGED <<kick, armed, accounts, cert, exiting, asked>>
  BY DEF SchedFires, Off
<1>2. armed
  BY <1>1 DEF SchedInv, Beat
<1>3. CASE exiting
  <2>1. sched' = Off /\ UNCHANGED <<cursor, order, age, backoff, rt>>
    BY <1>3 DEF SchedFires
  <2> QED BY <1>1, <1>2, <1>3, <2>1
      DEF SchedInv, TypeOK, Beat, OneBeat, DeadCaRetried, HoldCovers,
          RetryAfterKept, backoff, accounts
<1>4. CASE ~exiting
  <2>1. order = NoOrder
    BY <1>1, <1>2, <1>4 DEF SchedInv, Beat, OneBeat
  <2>2. PICK budget \in 0 .. RT_MAX : sched_pump(1, wait, fails, Off, budget)
    BY <1>4, <2>1 DEF SchedFires
  <2>3. Ledger(wait, fails, asked') /\ cert' \in [Entry -> {NoCert} \cup (0 .. LIFE)]
    BY <1>1 DEF SchedInv, TypeOK, HoldCovers, Ledger
  <2> QED BY <1>1, <1>2, <1>4, <2>2, <2>3, PumpKeeps
<1> QED BY <1>3, <1>4

(* order_complete: the order gives the slot back and the sweep goes on, or   *)
(* the process is retiring and stops.                                        *)
LEMMA GoesOnKeeps ==
  ASSUME SchedInv, order # NoOrder, NEW w, NEW f, Ledger(w, f, asked'),
         GoesOn(w, f),
         cert' \in [Entry -> {NoCert} \cup (0 .. LIFE)],
         UNCHANGED <<kick, armed, accounts, exiting>>
  PROVE  SchedInv'
<1>1. armed
  BY DEF SchedInv, Beat
<1>2. CASE ~exiting
  <2>1. sched = Off /\ rt \in 0 .. RT_MAX
    BY <1>1, <1>2 DEF SchedInv, Beat, OneBeat, TypeOK
  <2>2. sched_pump(cursor, w, f, Off, rt)
    BY <1>2, <2>1 DEF GoesOn
  <2> QED BY <1>1, <1>2, <2>1, <2>2, PumpKeeps
<1>3. CASE exiting
  <2>1. /\ order' = NoOrder /\ age' = 0 /\ wait' = w /\ fails' = f
        /\ UNCHANGED <<cursor, sched, rt>>
    BY <1>3 DEF GoesOn
  <2>2. 0 \in 0 .. ORDER_TIME /\ NoOrder \notin Entry
    BY SchedAssumption, Numbers DEF NoOrder
  <2>3. TypeOK'
    BY <2>1, <2>2 DEF SchedInv, TypeOK, Ledger, accounts
  <2>4. Beat' /\ DeadCaRetried'
    BY <1>1, <1>3 DEF Beat, OneBeat, DeadCaRetried
  <2>5. HoldCovers'
    BY <2>1, <2>2 DEF HoldCovers, RetryAfterKept, Ledger
  <2> QED BY <2>3, <2>4, <2>5 DEF SchedInv
<1> QED BY <1>2, <1>3

(* An order of an entry that ends well clears its hold: what the CA asked    *)
(* for was over when it was launched.  One that fails is held at least as    *)
(* long as the CA asks.  A runtime order touches no hold.                    *)
LEMMA OrderKeeps == SchedInv /\ Order => SchedInv'
<1> SUFFICES ASSUME SchedInv, Order PROVE SchedInv'
  OBVIOUS
<1> USE DEF SchedInv
<1>1. Ledger(wait, fails, asked) /\ NoOrder \notin Entry /\ Runtime # NoOrder
  BY Numbers DEF TypeOK, HoldCovers, Ledger, NoOrder
<1>2. CASE OrderOk
  <2> DEFINE w == [wait EXCEPT ![order] = 0]
             f == [fails EXCEPT ![order] = 0]
  <2>1. order \in Entry /\ asked[order] = 0 /\ asked' = asked
    BY <1>2 DEF OrderOk, HoldCovers, RetryAfterKept
  <2>2. 0 \in Holds /\ 0 \in 0 .. BACKOFF_MAXSHIFT + 1
    BY HoldsAreTimes, SchedAssumption
  <2>3. w \in [Entry -> Holds] /\ f \in [Entry -> 0 .. BACKOFF_MAXSHIFT + 1]
    BY <1>1, <2>2 DEF Ledger
  <2>4. \A e \in Entry : asked[e] <= w[e]
    BY <1>1, <2>1 DEF Ledger
  <2>5. Ledger(w, f, asked')
    BY <1>1, <2>1, <2>3, <2>4 DEF Ledger
  <2>6. cert' \in [Entry -> {NoCert} \cup (0 .. LIFE)]
    BY <1>2, SchedAssumption DEF OrderOk, TypeOK
  <2>7. GoesOn(w, f) /\ UNCHANGED <<kick, armed, accounts, exiting>>
    BY <1>2 DEF OrderOk
  <2> QED BY <1>1, <2>1, <2>5, <2>6, <2>7, GoesOnKeeps
<1>3. ASSUME NEW when \in RetryAfter, OrderFails(when) PROVE SchedInv'
  <2> DEFINE n == Fails(fails[order])
             h == Held(Delay(n), when)
             w == [wait EXCEPT ![order] = h]
             f == [fails EXCEPT ![order] = n]
  <2>1. order \in Entry /\ asked' = [asked EXCEPT ![order] = when]
    BY <1>3 DEF OrderFails
  <2>2. fails[order] \in 0 .. BACKOFF_MAXSHIFT + 1
    BY <2>1 DEF TypeOK
  <2>3. n \in 0 .. BACKOFF_MAXSHIFT + 1 /\ Delay(n) \in Holds
    BY <2>2, BackoffTypes
  <2>4. h \in Holds /\ when <= h
    BY <2>3, HeldTypes
  <2>5. GoesOn(w, f) /\ UNCHANGED <<kick, armed, accounts, exiting>>
    BY <1>3 DEF OrderFails
  <2> HIDE DEF n, h
  <2>6. w \in [Entry -> Holds] /\ f \in [Entry -> 0 .. BACKOFF_MAXSHIFT + 1]
    BY <1>1, <2>3, <2>4 DEF Ledger
  <2>7. asked' \in [Entry -> Nat]
    BY <1>1, <2>1, SchedAssumption DEF Ledger
  <2>8. \A e \in Entry : asked'[e] <= w[e]
    BY <1>1, <2>1, <2>4 DEF Ledger
  <2>9. Ledger(w, f, asked')
    BY <2>6, <2>7, <2>8 DEF Ledger
  <2>10. cert' \in [Entry -> {NoCert} \cup (0 .. LIFE)]
    BY <1>3, <2>1, SchedAssumption DEF OrderFails, TypeOK
  <2> HIDE DEF w, f
  <2> QED BY <1>1, <2>1, <2>5, <2>9, <2>10, GoesOnKeeps
<1>4. CASE RuntimeDone
  <2>1. /\ order = Runtime /\ GoesOn(wait, fails)
        /\ UNCHANGED <<kick, armed, accounts, cert, exiting, asked>>
    BY <1>4 DEF RuntimeDone
  <2>2. cert' \in [Entry -> {NoCert} \cup (0 .. LIFE)]
    BY <2>1 DEF TypeOK
  <2> QED BY <1>1, <2>1, <2>2, GoesOnKeeps
<1> QED BY <1>2, <1>3, <1>4 DEF Order

(* A process that retires, and the one that takes its place. *)
LEMMA ProcessKeeps == SchedInv /\ (Quit \/ Replaced) => SchedInv'
<1> SUFFICES ASSUME SchedInv, Quit \/ Replaced PROVE SchedInv'
  OBVIOUS
<1>1. CASE Quit
  BY <1>1 DEF Quit, SchedInv, TypeOK, Beat, OneBeat, DeadCaRetried,
              HoldCovers, RetryAfterKept, backoff, accounts
<1>2. CASE Replaced
  <2> USE DEF Replaced, Started
  <2>1. TypeOK'
    <3>1. wait' \in [Entry -> Holds] /\ fails' \in [Entry -> 0 .. BACKOFF_MAXSHIFT + 1]
      BY <1>2, HoldsAreTimes, SchedAssumption
    <3>2. kick' \in Nat /\ 0 \in 0 .. ORDER_TIME /\ 0 \in 0 .. RT_MAX
      BY <1>2, SchedAssumption
    <3>3. 1 \in 1 .. End
      BY Numbers
    <3> QED BY <1>2, <3>1, <3>2, <3>3 DEF SchedInv, TypeOK
  <2>2. Beat'
    BY <1>2 DEF Beat, OneBeat
  <2>3. DeadCaRetried'
    BY <1>2, SchedAssumption DEF DeadCaRetried, Off
  <2>4. HoldCovers'
    BY <1>2, Numbers DEF HoldCovers, RetryAfterKept, NoOrder
  <2> QED BY <2>1, <2>2, <2>3, <2>4 DEF SchedInv
<1> QED BY <1>1, <1>2

(* Every step keeps the invariant. *)
LEMMA SchedInvNext == SchedInv /\ [Next]_vars => SchedInv'
<1> SUFFICES ASSUME SchedInv, [Next]_vars PROVE SchedInv'
  OBVIOUS
<1>1. CASE UNCHANGED vars
  BY <1>1 DEF vars, SchedInv, TypeOK, Beat, OneBeat, DeadCaRetried,
              HoldCovers, RetryAfterKept, backoff, accounts
<1> QED
  BY <1>1, TickKeeps, ChainKeeps, SchedFiresKeeps, OrderKeeps, ProcessKeeps
     DEF Next

-----------------------------------------------------------------------------
(* THEOREMS                                                                 *)

(* The timers, the cursor, the holds and the counts of the scheduler stay in *)
(* their ranges: no hold is longer than the ceiling or than what a CA asked  *)
(* for (TypeOK).                                                             *)
THEOREM SchedTyped == Spec => []TypeOK
<1>1. SchedInv => TypeOK
  BY DEF SchedInv
<1> QED BY <1>1, SchedInvInit, SchedInvNext, PTL DEF Spec

(* Once the scheduler was started, exactly one of an order in flight and its *)
(* timer carries it on: sched_pump, order_complete and sched_handler neither *)
(* stop it nor let it run twice (OneBeat).                                   *)
THEOREM SchedulerBeats == Spec => []OneBeat
<1>1. SchedInv => OneBeat
  BY DEF SchedInv, Beat
<1> QED BY <1>1, SchedInvInit, SchedInvNext, PTL DEF Spec

(* A CA whose account is not live has its registration in flight or a kick   *)
(* ahead, wherever in the chain of bootstrap_ca another one failed           *)
(* (DeadCaRetried).                                                          *)
THEOREM NoCaGivenUp == Spec => []DeadCaRetried
<1>1. SchedInv => DeadCaRetried
  BY DEF SchedInv
<1> QED BY <1>1, SchedInvInit, SchedInvNext, PTL DEF Spec

(* While an order of an entry is in flight, the time the CA asked this       *)
(* process to wait for that entry is over: backoff_hold never shortens, and  *)
(* nothing but an order that ended well clears a hold (RetryAfterKept).      *)
THEOREM RetryAfterRespected == Spec => []RetryAfterKept
<1>1. SchedInv => RetryAfterKept
  BY DEF SchedInv, HoldCovers
<1> QED BY <1>1, SchedInvInit, SchedInvNext, PTL DEF Spec
-----------------------------------------------------------------------------
(* RENEWAL IN TIME                                                          *)

(* The time that n orders take at most, one after the other. *)
Slots(n) == n * ORDER_TIME

(* The pause between two sweeps when nothing is held. *)
Pause == Interval([e \in Entry |-> 0])

(* The time from one look at an entry to the end of the order that the next  *)
(* look brings, at most: a slot for each entry and each runtime order of a   *)
(* sweep, and one pause.                                                     *)
Cycle == Slots(CAS * PER_CA + RT_MAX) + Pause

(* The CA answers and the process stays; the renewal window and the lifetime *)
(* leave room for a cycle.                                                   *)
EnoughTime ==
  /\ Faults \subseteq {"start", "register"}
  /\ Cycle <= RENEW /\ Cycle < LIFE

(* The time until the next order of entry e is over, at the latest.  Before  *)
(* the order in flight comes e only in the next sweep.                       *)
Left(e) ==
  IF order = NoOrder THEN sched + Slots(e)
  ELSE (ORDER_TIME - age)
         + IF e >= order THEN Slots(e - order)
                         ELSE Slots(End - cursor + rt + e) + Pause

(* NeverExpires is not inductive: a certificate must last until the end of   *)
(* its next order, wherever the sweep stands now.                            *)
Lasts ==
  \A e \in Entry : cert[e] # NoCert =>
    armed /\ ca_of(e) \in live /\ cert[e] > Left(e)

(* Nothing is held, and the sweep stands at the order in flight. *)
Undisturbed ==
  /\ ~exiting
  /\ wait = [e \in Entry |-> 0]
  /\ order \in Entry => ca_of(order) \in live /\ cursor = order + 1
  /\ order = Runtime => cursor = End

RenewInv == SchedInv /\ (EnoughTime => Undisturbed /\ Lasts)

(* The pause is a time. *)
LEMMA PauseRuns == Pause \in Nat
<1>1. [e \in Entry |-> 0] \in [Entry -> Nat]
  OBVIOUS
<1> QED BY <1>1, IntervalRuns DEF Pause

(* Slots are times, *)
LEMMA SlotsTyped ==
  ASSUME NEW n \in Int
  PROVE  ORDER_TIME \in Nat /\ Slots(n) \in Int
BY SchedAssumption DEF Slots

(* one more order takes one more, *)
LEMMA SlotsNext ==
  ASSUME NEW n \in Int
  PROVE  Slots(n + 1) = Slots(n) + ORDER_TIME
BY SchedAssumption DEF Slots

(* and more orders take no less. *)
LEMMA SlotsGrow ==
  ASSUME NEW m \in Int, NEW n \in Int, m <= n
  PROVE  Slots(m) <= Slots(n)
<1> DEFINE d == n - m
<1>1. d \in Nat /\ n = m + d /\ ORDER_TIME \in Nat
  BY SchedAssumption
<1> HIDE DEF d
<1>2. (m + d) * ORDER_TIME = m * ORDER_TIME + d * ORDER_TIME
  BY <1>1
<1>3. d * ORDER_TIME \in Nat /\ m * ORDER_TIME \in Int
  BY <1>1
<1> QED BY <1>1, <1>2, <1>3 DEF Slots

(* A sweep that is to go on from an entry, with certificates that last until *)
(* it gets there, sees to it that they last again: it launches the first due *)
(* entry, and those it passes over have more than a cycle left.              *)
LEMMA PumpLasts ==
  ASSUME EnoughTime, TypeOK, NEW from \in 1 .. End, NEW f,
         NEW budget \in 0 .. RT_MAX,
         sched_pump(from, [e \in Entry |-> 0], f, Off, budget),
         armed', live' = live,
         cert' \in [Entry -> {NoCert} \cup (0 .. LIFE)],
         \A e \in Entry : e >= from => cert'[e] = cert[e],
         \A e \in Entry : cert'[e] # NoCert =>
           /\ ca_of(e) \in live
           /\ e >= from => cert'[e] > Slots(e - from + 1)
           /\ e < from => cert'[e] > Slots(End - from + budget + e) + Pause
  PROVE  /\ wait' = [e \in Entry |-> 0] /\ Lasts'
         /\ order' \in Entry => ca_of(order') \in live /\ cursor' = order' + 1
         /\ order' = Runtime => cursor' = End
<1> DEFINE w == [e \in Entry |-> 0]
           N == CAS * PER_CA
<1>a. /\ N \in Nat /\ End = N + 1 /\ End = Runtime
      /\ Entry = 1 .. N /\ NoOrder = 0
      /\ RT_MAX \in Nat /\ RENEW \in Nat /\ ORDER_TIME \in Nat
  BY Numbers, SchedAssumption DEF End, Runtime, Entry, NoOrder
<1>b. Pause \in Nat
  BY PauseRuns
<1>c. \A e \in Entry : cert'[e] # NoCert => cert'[e] \in Nat
  BY SchedAssumption
<1>f. Slots(N + RT_MAX) + Pause <= RENEW
  BY DEF EnoughTime, Cycle
<1> HIDE DEF N
<1>d. ASSUME NEW n \in Int, n <= N + RT_MAX
      PROVE  Slots(n) \in Int /\ Slots(n) + Pause <= RENEW
  <2>1. N + RT_MAX \in Int
    BY <1>a
  <2>2. Slots(n) <= Slots(N + RT_MAX)
    BY <1>d, <2>1, SlotsGrow
  <2>3. Slots(n) \in Int /\ Slots(N + RT_MAX) \in Int
    BY <2>1, SlotsTyped
  <2> QED BY <1>a, <1>b, <1>f, <2>2, <2>3
<1>e. "launch" \notin Faults
  BY DEF EnoughTime
<1>1. ASSUME NEW e \in Entry, e >= from, e \notin Ready(from, w),
             cert'[e] # NoCert
      PROVE  cert'[e] > RENEW
  BY <1>1, <1>a, <1>c DEF Ready, name_due
<1>2. ASSUME NEW o \in Entry, LaunchConfig(from, w, f, o),
             sched' = Off, rt' = budget, age' = 0
      PROVE  /\ wait' = w /\ Lasts'
             /\ order' = o /\ ca_of(o) \in live /\ cursor' = o + 1
  <2>1. {d \in Ready(from, w) : d < o} = {}
    BY <1>2, <1>e DEF LaunchConfig
  <2>2. order' = o /\ cursor' = o + 1 /\ ca_of(o) \in live /\ o >= from
    BY <1>2 DEF LaunchConfig, Ready
  <2>3. wait' = w
    BY <1>2, <2>1 DEF LaunchConfig, Recorded
  <2>4. ASSUME NEW e \in Entry, cert'[e] # NoCert PROVE cert'[e] > Left(e)'
    <3>1. Left(e)' = ORDER_TIME + (IF e >= o THEN Slots(e - o)
                       ELSE Slots(End - (o + 1) + budget + e) + Pause)
      BY <1>2, <1>a, <2>2 DEF Left
    <3>2. CASE e >= o
      <4>0. /\ e - o \in Int /\ e - o + 1 \in Int /\ e - from + 1 \in Int
            /\ e - o + 1 <= e - from + 1
        BY <1>a, <2>2
      <4>1. Left(e)' = Slots(e - o + 1)
        BY <1>a, <3>1, <3>2, <4>0, SlotsTyped, SlotsNext
      <4>2. Slots(e - o + 1) <= Slots(e - from + 1)
        BY <4>0, SlotsGrow
      <4>3. cert'[e] > Slots(e - from + 1)
        BY <1>a, <2>2, <2>4, <3>2
      <4>4. Slots(e - o + 1) \in Int /\ Slots(e - from + 1) \in Int
        BY <4>0, SlotsTyped
      <4> QED BY <1>c, <2>4, <4>1, <4>2, <4>3, <4>4
    <3>3. CASE e < o
      <4> DEFINE n == End - (o + 1) + budget + e
      <4>1. /\ n \in Int /\ n + 1 <= N + RT_MAX
            /\ n + 1 <= End - from + budget + e
        BY <1>a, <2>2, <3>3
      <4>2. Slots(n + 1) = Slots(n) + ORDER_TIME /\ Slots(n) \in Int
        BY <4>1, SlotsTyped, SlotsNext
      <4>a. Left(e)' = ORDER_TIME + (Slots(n) + Pause)
        BY <1>a, <3>1, <3>3
      <4> HIDE DEF n
      <4>3. Left(e)' = Slots(n + 1) + Pause
        BY <1>a, <1>b, <4>2, <4>a
      <4>4. CASE e >= from
        <5>1. e \notin Ready(from, w)
          BY <2>1, <3>3
        <5>2. cert'[e] > RENEW
          BY <1>1, <2>4, <4>4, <5>1
        <5>3. Slots(n + 1) + Pause <= RENEW /\ Slots(n + 1) \in Int
          BY <1>d, <4>1
        <5> QED BY <1>a, <1>b, <1>c, <2>4, <4>3, <5>2, <5>3
      <4>5. CASE e < from
        <5> DEFINE m == End - from + budget + e
        <5>1. m \in Int
          BY <1>a
        <5>2. cert'[e] > Slots(m) + Pause
          BY <2>4, <4>5
        <5>3. n + 1 <= m
          BY <4>1
        <5> HIDE DEF m
        <5>4. Slots(n + 1) <= Slots(m) /\ Slots(n + 1) \in Int /\ Slots(m) \in Int
          BY <4>1, <5>1, <5>3, SlotsGrow, SlotsTyped
        <5> QED BY <1>b, <1>c, <2>4, <4>3, <5>2, <5>4
      <4> QED BY <1>a, <4>4, <4>5
    <3> QED BY <1>a, <3>2, <3>3
  <2> QED BY <2>2, <2>3, <2>4 DEF Lasts
<1>3. ASSUME LaunchNone(from, w, f, Off, budget), age' = 0
      PROVE  /\ wait' = w /\ Lasts'
             /\ order' \in {Runtime, NoOrder}
             /\ order' = Runtime => cursor' = End
  <2>1. Ready(from, w) = {} /\ cursor' = End
    BY <1>3, <1>e DEF LaunchNone
  <2>2. wait' = w
    BY <1>3, <2>1 DEF LaunchNone, Recorded
  <2>3. \/ order' = Runtime /\ rt' = budget - 1 /\ budget > 0
        \/ order' = NoOrder /\ sched' = Pause /\ ~(budget > 0)
    BY <1>3, <2>2 DEF LaunchNone, Pause
  <2>4. ASSUME NEW e \in Entry, cert'[e] # NoCert PROVE cert'[e] > Left(e)'
    <3>1. Left(e)' = Slots(budget + e) + Pause
      <4>1. CASE order' = Runtime /\ rt' = budget - 1 /\ budget > 0
        <5>1. Left(e)' = ORDER_TIME + (Slots(budget - 1 + e) + Pause)
          BY <1>3, <1>a, <2>1, <4>1 DEF Left
        <5>3. budget - 1 + e \in Int /\ budget - 1 + e + 1 = budget + e
          BY <1>a
        <5>2. /\ Slots(budget - 1 + e + 1) = Slots(budget - 1 + e) + ORDER_TIME
              /\ Slots(budget - 1 + e) \in Int
          BY <5>3, SlotsTyped, SlotsNext
        <5> QED BY <1>a, <1>b, <5>1, <5>2, <5>3
      <4>2. CASE order' = NoOrder /\ sched' = Pause /\ ~(budget > 0)
        <5>1. Left(e)' = Pause + Slots(e) /\ budget + e = e
          BY <1>a, <4>2 DEF Left
        <5>2. Slots(e) \in Int
          BY <1>a, SlotsTyped
        <5> QED BY <1>b, <5>1, <5>2
      <4> QED BY <2>3, <4>1, <4>2
    <3>2. budget + e \in Int /\ Slots(budget + e) \in Int
      BY <1>a, SlotsTyped
    <3>3. CASE e >= from
      <4>1. cert'[e] > RENEW
        BY <1>1, <2>1, <2>4, <3>3
      <4>2. Slots(budget + e) + Pause <= RENEW
        BY <1>a, <1>d
      <4> QED BY <1>a, <1>b, <1>c, <2>4, <3>1, <3>2, <4>1, <4>2
    <3>4. CASE e < from
      <4> DEFINE m == End - from + budget + e
      <4>1. m \in Int /\ budget + e <= m
        BY <1>a
      <4>2. cert'[e] > Slots(m) + Pause
        BY <2>4, <3>4
      <4> HIDE DEF m
      <4>3. Slots(budget + e) <= Slots(m) /\ Slots(m) \in Int
        BY <3>2, <4>1, SlotsGrow, SlotsTyped
      <4> QED BY <1>b, <1>c, <2>4, <3>1, <3>2, <4>2, <4>3
    <3> QED BY <1>a, <3>3, <3>4
  <2> QED BY <2>1, <2>2, <2>3, <2>4 DEF Lasts
<1>4. Runtime \notin Entry /\ NoOrder \notin Entry /\ Runtime # NoOrder
  BY <1>a
<1> QED BY <1>2, <1>3, <1>4 DEF sched_pump

(* What Lasts says of a certificate, with the numbers it speaks of. *)
LEMMA LeftCovers ==
  ASSUME SchedInv, Undisturbed, Lasts, NEW e \in Entry, cert[e] # NoCert
  PROVE  /\ armed /\ ca_of(e) \in live /\ cert[e] \in Nat /\ cert[e] > Left(e)
         /\ order = NoOrder => sched \in Nat /\ Left(e) = sched + Slots(e)
         /\ order # NoOrder => order \in Entry \/ order = Runtime
         /\ Left(e) \in Nat
<1>a. /\ Entry = 1 .. (CAS * PER_CA) /\ End = CAS * PER_CA + 1 /\ Runtime = End
      /\ CAS * PER_CA \in Nat /\ ORDER_TIME \in Nat /\ NoOrder = 0
  BY Numbers, SchedAssumption DEF Entry, End, Runtime, NoOrder
<1>b. Pause \in Nat
  BY PauseRuns
<1>1. armed /\ ca_of(e) \in live /\ cert[e] > Left(e)
  BY DEF Lasts
<1>2. cert[e] \in Nat
  BY SchedAssumption DEF SchedInv, TypeOK
<1>3. order = NoOrder => sched \in Nat /\ Left(e) = sched + Slots(e)
  BY <1>1 DEF SchedInv, Beat, OneBeat, TypeOK, Undisturbed, Left
<1>4. order # NoOrder => order \in Entry \/ order = Runtime
  BY DEF SchedInv, TypeOK
<1>c. \A n \in Nat : Slots(n) \in Nat
  <2> SUFFICES ASSUME NEW n \in Nat PROVE Slots(n) \in Nat
    OBVIOUS
  <2> QED BY <1>a DEF Slots
<1>5. Left(e) \in Nat
  <2>1. CASE order = NoOrder
    <3>1. e \in Nat
      BY Numbers
    <3>2. Slots(e) \in Nat
      BY <1>c, <3>1
    <3> QED BY <1>3, <2>1, <3>2
  <2>2. CASE order # NoOrder
    <3>1. ORDER_TIME - age \in Nat /\ rt \in Nat /\ cursor \in 1 .. End
            /\ order \in Nat
      BY <1>4, <1>a, <2>2, SchedAssumption DEF SchedInv, TypeOK
    <3>2. CASE e >= order
      <4>1. e - order \in Nat
        BY <1>a, <3>1, <3>2
      <4>2. Left(e) = (ORDER_TIME - age) + Slots(e - order)
        BY <2>2, <3>2 DEF Left
      <4> QED BY <1>c, <3>1, <4>1, <4>2
    <3>3. CASE ~(e >= order)
      <4>1. End - cursor + rt + e \in Nat
        BY <1>a, <3>1
      <4>2. Left(e) = (ORDER_TIME - age) + (Slots(End - cursor + rt + e) + Pause)
        BY <2>2, <3>3 DEF Left
      <4> QED BY <1>b, <1>c, <3>1, <4>1, <4>2
    <3> QED BY <3>2, <3>3
  <2> QED BY <2>1, <2>2
<1> QED BY <1>1, <1>2, <1>3, <1>4, <1>5

(* Time takes from a certificate what it takes from the way to its renewal. *)
LEMMA TickLasts ==
  ASSUME SchedInv, EnoughTime, Undisturbed, Lasts, Tick
  PROVE  Undisturbed' /\ Lasts'
<1>1. UNCHANGED <<armed, live, cursor, order, rt, exiting>>
  BY DEF Tick, accounts
<1>2. Undisturbed'
  <2>1. wait' = [e \in Entry |-> 0]
    BY DEF Tick, Undisturbed, Down
  <2> QED BY <1>1, <2>1 DEF Undisturbed
<1>3. ASSUME NEW e \in Entry, cert'[e] # NoCert
      PROVE  armed' /\ ca_of(e) \in live' /\ cert'[e] > Left(e)'
  <2>1. cert'[e] = Down(cert[e])
    BY DEF Tick
  <2>2. cert[e] # NoCert
    BY <1>3, <2>1 DEF Down, NoCert
  <2>3. /\ armed /\ ca_of(e) \in live /\ cert[e] \in Nat /\ cert[e] > Left(e)
        /\ order = NoOrder => sched \in Nat /\ Left(e) = sched + Slots(e)
        /\ Left(e) \in Nat
    BY <2>2, LeftCovers
  <2>4. cert'[e] = cert[e] - 1
    BY <2>1, <2>3 DEF Down
  <2>5. Left(e)' = Left(e) - 1
    <3>1. CASE order = NoOrder
      <4>1. sched \in Nat /\ sched # 0 /\ sched' = Down(sched)
        BY <2>3, <3>1 DEF Tick
      <4>2. sched' = sched - 1
        BY <4>1 DEF Down
      <4>3. Left(e)' = sched' + Slots(e)
        BY <1>1, <3>1 DEF Left
      <4>4. Slots(e) \in Int
        BY SlotsTyped, Numbers
      <4> QED BY <2>3, <3>1, <4>1, <4>2, <4>3, <4>4
    <3>2. CASE order # NoOrder
      <4> DEFINE rest == IF e >= order THEN Slots(e - order)
                         ELSE Slots(End - cursor + rt + e) + Pause
      <4>1. Left(e) = (ORDER_TIME - age) + rest
        BY <3>2 DEF Left
      <4>2. Left(e)' = (ORDER_TIME - (age + 1)) + rest
        BY <1>1, <3>2 DEF Left, Tick
      <4>3. age \in Nat /\ ORDER_TIME \in Nat
        BY SchedAssumption DEF SchedInv, TypeOK
      <4>4. rest \in Int
        <5>1. order \in Int /\ e \in Int /\ End \in Int /\ cursor \in Int /\ rt \in Int
          BY Numbers, SchedAssumption DEF SchedInv, TypeOK, NoOrder
        <5>2. e - order \in Int /\ End - cursor + rt + e \in Int
          BY <5>1
        <5>3. Slots(e - order) \in Int /\ Slots(End - cursor + rt + e) \in Int
          BY <5>2, SlotsTyped
        <5> QED BY <5>3, PauseRuns
      <4> HIDE DEF rest
      <4> QED BY <4>1, <4>2, <4>3, <4>4
    <3> QED BY <3>1, <3>2
  <2> QED BY <1>1, <2>3, <2>4, <2>5
<1> QED BY <1>2, <1>3 DEF Lasts

(* The bootstrap of a CA disturbs no sweep: it starts the scheduler when     *)
(* there is no certificate yet.                                              *)
LEMMA ChainLasts ==
  ASSUME SchedInv, EnoughTime, Undisturbed, Lasts, KickFires \/ Account
  PROVE  Undisturbed' /\ Lasts'
<1>1. /\ UNCHANGED <<cursor, order, age, wait, cert, rt, exiting>>
      /\ live \subseteq live'
  BY DEF KickFires, Account, AccountDone, backoff
<1>2. armed => armed' /\ sched' = sched
  BY DEF KickFires, Account, AccountDone, Undisturbed, bootstrap_ca,
         bootstrap_end
<1>3. Undisturbed'
  BY <1>1 DEF Undisturbed
<1>4. ASSUME NEW e \in Entry, cert'[e] # NoCert
      PROVE  armed' /\ ca_of(e) \in live' /\ cert'[e] > Left(e)'
  <2>1. armed /\ ca_of(e) \in live /\ cert[e] > Left(e)
    BY <1>1, <1>4 DEF Lasts
  <2>2. Left(e)' = Left(e)
    BY <1>1, <1>2, <2>1 DEF Left
  <2> QED BY <1>1, <1>2, <2>1, <2>2
<1> QED BY <1>3, <1>4 DEF Lasts

(* A new sweep begins at the first entry when the timer is down. *)
LEMMA SchedFiresLasts ==
  ASSUME SchedInv, EnoughTime, Undisturbed, Lasts, SchedFires
  PROVE  Undisturbed' /\ Lasts'
<1>1. /\ sched = 0 /\ sched # Off /\ armed /\ ~exiting
      /\ UNCHANGED <<armed, live, cert, exiting>>
  BY DEF SchedFires, Off, SchedInv, Beat, Undisturbed, accounts
<1>2. order = NoOrder
  BY <1>1 DEF SchedInv, Beat, OneBeat
<1>3. PICK budget \in 0 .. RT_MAX :
        sched_pump(1, [e \in Entry |-> 0], fails, Off, budget)
  BY <1>1, <1>2 DEF SchedFires, Undisturbed
<1>4. ASSUME NEW e \in Entry, cert'[e] # NoCert
      PROVE  /\ ca_of(e) \in live /\ cert'[e] > Slots(e - 1 + 1) /\ ~(e < 1)
  <2>1. ca_of(e) \in live /\ cert[e] > Left(e) /\ Left(e) = sched + Slots(e)
    BY <1>1, <1>2, <1>4, LeftCovers
  <2>2. e - 1 + 1 = e /\ ~(e < 1) /\ e \in Int
    BY Numbers
  <2>3. Left(e) = Slots(e)
    BY <1>1, <2>1, <2>2, SlotsTyped
  <2> QED BY <1>1, <2>1, <2>2, <2>3
<1>5. 1 \in 1 .. End /\ cert' \in [Entry -> {NoCert} \cup (0 .. LIFE)] /\ TypeOK
  BY <1>1, Numbers DEF SchedInv, TypeOK
<1>6. /\ wait' = [e \in Entry |-> 0] /\ Lasts'
      /\ order' \in Entry => ca_of(order') \in live /\ cursor' = order' + 1
      /\ order' = Runtime => cursor' = End
  BY <1>1, <1>3, <1>4, <1>5, PumpLasts
<1> QED BY <1>1, <1>6 DEF Undisturbed

(* The sweep goes on after an order: the entry that was issued has a whole   *)
(* lifetime, the others what they had.                                       *)
LEMMA OrderLasts ==
  ASSUME SchedInv, EnoughTime, Undisturbed, Lasts, Order
  PROVE  Undisturbed' /\ Lasts'
<1>0. OrderOk \/ RuntimeDone
  BY DEF Order, OrderFails, EnoughTime
<1>a. /\ Entry = 1 .. (End - 1) /\ End \in Nat \ {0} /\ Runtime = End
      /\ NoOrder = 0 /\ ORDER_TIME \in Nat /\ RT_MAX \in Nat /\ LIFE \in Nat
      /\ End - 1 = CAS * PER_CA
  <2>1. End - 1 = CAS * PER_CA
    BY Numbers DEF End
  <2> QED BY <2>1, Numbers, SchedAssumption DEF NoOrder
<1>b. Pause \in Nat
  BY PauseRuns
<1>1. /\ order # NoOrder /\ order \in Entry \cup {Runtime} /\ armed /\ ~exiting
      /\ UNCHANGED <<armed, live, exiting>>
      /\ rt \in 0 .. RT_MAX /\ age \in 0 .. ORDER_TIME /\ cursor \in 1 .. End
  BY <1>0, <1>a
  DEF OrderOk, RuntimeDone, SchedInv, Beat, TypeOK, Undisturbed, accounts
<1>2. sched = Off
  BY <1>1 DEF SchedInv, Beat, OneBeat
<1>3. PICK f : sched_pump(cursor, [e \in Entry |-> 0], f, Off, rt)
  <2>1. CASE OrderOk
    <3>1. [wait EXCEPT ![order] = 0] = [e \in Entry |-> 0]
      BY <2>1 DEF OrderOk, Undisturbed
    <3> QED BY <1>1, <1>2, <2>1, <3>1 DEF OrderOk, GoesOn
  <2>2. CASE RuntimeDone
    BY <1>1, <1>2, <2>2 DEF RuntimeDone, GoesOn, Undisturbed
  <2> QED BY <1>0, <2>1, <2>2
<1>4. cert' = IF order \in Entry THEN [cert EXCEPT ![order] = LIFE] ELSE cert
  BY <1>0, <1>a DEF OrderOk, RuntimeDone
<1>5. cert' \in [Entry -> {NoCert} \cup (0 .. LIFE)] /\ TypeOK
  BY <1>4, <1>a DEF SchedInv, TypeOK
<1>6. /\ order \in Entry => cursor = order + 1 /\ ca_of(order) \in live
      /\ order = Runtime => cursor = End
  BY DEF Undisturbed
<1>7. \A e \in Entry : e >= cursor => cert'[e] = cert[e]
  BY <1>1, <1>4, <1>6, <1>a DEF SchedInv, TypeOK
<1>8. ASSUME NEW e \in Entry, cert'[e] # NoCert
      PROVE  /\ ca_of(e) \in live
             /\ e >= cursor => cert'[e] > Slots(e - cursor + 1)
             /\ e < cursor => cert'[e] > Slots(End - cursor + rt + e) + Pause
  <2>1. CASE e = order
    <3> DEFINE n == End - cursor + rt + e
               m == CAS * PER_CA + RT_MAX
    <3>1. cert'[e] = LIFE /\ ca_of(e) \in live /\ e < cursor
      BY <1>4, <1>6, <1>a, <2>1 DEF SchedInv, TypeOK
    <3>2. n \in Int /\ m \in Int /\ n <= m
      BY <1>1, <1>6, <1>a, <2>1
    <3>3. Slots(m) + Pause < LIFE
      BY DEF EnoughTime, Cycle
    <3> HIDE DEF n, m
    <3>4. Slots(n) <= Slots(m) /\ Slots(n) \in Int /\ Slots(m) \in Int
      BY <3>2, SlotsGrow, SlotsTyped
    <3>5. LIFE > Slots(n) + Pause
      BY <1>a, <1>b, <3>3, <3>4
    <3> QED BY <1>a, <1>1, <3>1, <3>5 DEF n
  <2>2. CASE e # order
    <3>1. cert'[e] = cert[e]
      BY <1>4, <2>2 DEF SchedInv, TypeOK
    <3>2. ca_of(e) \in live /\ cert[e] \in Nat /\ cert[e] > Left(e)
      BY <1>8, <3>1, LeftCovers
    <3>3. CASE e >= cursor
      <4>1. order \in Entry /\ e >= order /\ e - order = e - cursor + 1
        BY <1>1, <1>6, <1>a, <3>3
      <4>2. Left(e) = (ORDER_TIME - age) + Slots(e - cursor + 1)
        BY <1>1, <4>1 DEF Left
      <4>3. e - cursor + 1 \in Int
        BY <1>1, <1>a
      <4>4. Slots(e - cursor + 1) \in Int
        BY <4>3, SlotsTyped
      <4>5. cert[e] > Slots(e - cursor + 1)
        BY <1>1, <1>a, <3>2, <4>2, <4>4
      <4> QED BY <1>1, <1>a, <3>1, <3>2, <3>3, <4>5
    <3>4. CASE e < cursor
      <4> DEFINE n == End - cursor + rt + e
      <4>1. ~(e >= order)
        BY <1>1, <1>6, <1>a, <2>2, <3>4
      <4>2. Left(e) = (ORDER_TIME - age) + (Slots(n) + Pause)
        BY <1>1, <4>1 DEF Left
      <4>3. n \in Int
        BY <1>1, <1>a
      <4> HIDE DEF n
      <4>4. Slots(n) \in Int
        BY <4>3, SlotsTyped
      <4>5. cert[e] > Slots(n) + Pause
        BY <1>1, <1>a, <1>b, <3>2, <4>2, <4>4
      <4> QED BY <1>1, <1>a, <3>1, <3>2, <3>4, <4>5 DEF n
    <3> QED BY <1>1, <1>a, <3>3, <3>4
  <2> QED BY <2>1, <2>2
<1>9. /\ wait' = [e \in Entry |-> 0] /\ Lasts'
      /\ order' \in Entry => ca_of(order') \in live /\ cursor' = order' + 1
      /\ order' = Runtime => cursor' = End
  BY <1>1, <1>3, <1>5, <1>7, <1>8, PumpLasts
<1> QED BY <1>1, <1>9 DEF Undisturbed

(* A certificate is renewed in time, for any number of CAs, entries and      *)
(* runtime orders: while the CA answers, it is enough that the renewal       *)
(* window and the lifetime have room for one pause of the scheduler and for  *)
(* every order of a sweep, which all share one slot (NeverExpires).          *)
THEOREM RenewedInTime == Spec => [](EnoughTime => NeverExpires)
<1>1. Init => RenewInv
  <2> SUFFICES ASSUME Init PROVE RenewInv
    OBVIOUS
  <2>1. Undisturbed /\ Lasts
    BY Numbers DEF Init, Undisturbed, Lasts, NoOrder
  <2> QED BY <2>1, SchedInvInit DEF RenewInv
<1>2. RenewInv /\ [Next]_vars => RenewInv'
  <2> SUFFICES ASSUME RenewInv, [Next]_vars PROVE RenewInv'
    OBVIOUS
  <2>1. SchedInv /\ SchedInv'
    BY SchedInvNext DEF RenewInv
  <2>2. ASSUME EnoughTime PROVE Undisturbed' /\ Lasts'
    <3>1. Undisturbed /\ Lasts
      BY <2>2 DEF RenewInv
    <3>2. CASE UNCHANGED vars
      BY <3>1, <3>2 DEF vars, Undisturbed, Lasts, Left, backoff, accounts
    <3>3. ~Quit /\ ~Replaced
      BY <2>2 DEF Quit, Replaced, EnoughTime
    <3> QED BY <2>1, <2>2, <3>1, <3>2, <3>3, TickLasts, ChainLasts,
               SchedFiresLasts, OrderLasts DEF Next
  <2>3. EnoughTime' <=> EnoughTime
    BY DEF EnoughTime, Cycle, Pause, Slots
  <2> QED BY <2>1, <2>2, <2>3 DEF RenewInv
<1>3. RenewInv => (EnoughTime => NeverExpires)
  <2> SUFFICES ASSUME RenewInv, EnoughTime, NEW e \in Entry
               PROVE  cert[e] # 0
    BY DEF NeverExpires
  <2>1. cert[e] # NoCert => cert[e] \in Nat /\ cert[e] > Left(e) /\ Left(e) \in Nat
    BY LeftCovers DEF RenewInv
  <2> QED BY <2>1 DEF NoCert
<1> QED BY <1>1, <1>2, <1>3, PTL DEF Spec
=============================================================================
