------------------------------ MODULE LoadCap ------------------------------
(***************************************************************************)
(* The cap on certificate loads during TLS handshakes: the per-worker,     *)
(* per-second budget of src/src/ngx_autocert_loadcap.h and the part of the *)
(* certificate callback in src/src/ngx_autocert_serve.c that asks it.  The *)
(* budget is split into a general pool and a reserve only names that were  *)
(* denied before may use.  Each worker has its own budget and its own      *)
(* cache, so one worker is modelled; its handshakes are serial.            *)
(***************************************************************************)
EXTENDS Integers, FiniteSets

CONSTANTS
  Name,     \* names with a cache entry (they passed the matched gate)
  LIMIT,    \* autocert_handshake_load_limit; 0: no cap
  SLOTS,    \* slot_count: key types that are loaded for a name
  Regular   \* names some client asks for at least once a second

ASSUME LoadCapAssumption ==
  /\ IsFiniteSet(Name)
  /\ LIMIT \in Nat
  /\ SLOTS \in Nat \ {0}
  /\ Regular \subseteq Name

VARIABLES
  current,    \* cap->second = now: the counters are of this second
  spent,      \* cap->spent
  spent_res,  \* cap->spent_res
  fresh,      \* names with cert->checked = now: loaded in this second
  deferred,   \* names with cert->deferred
  asked       \* history: names that had a handshake in this second

cap == <<current, spent, spent_res>>
vars == <<cap, fresh, deferred, asked>>

-----------------------------------------------------------------------------
(* ngx_autocert_loadcap_reserve *)
reserve(limit) ==
  IF limit < 2 THEN 0 ELSE IF limit \div 4 > 0 THEN limit \div 4 ELSE 1

Reserve == reserve(LIMIT)
General == LIMIT - Reserve

(* MUTANT: a new second does not reset the counter. *)
Spent_NoReset == spent

(* The counters after the reset that a new second brings. *)
Spent == IF current THEN spent ELSE 0
SpentRes == IF current THEN spent_res ELSE 0

(* The batch never fits the pool that everybody may use. *)
Wedged == SLOTS > General

(* The ways ngx_autocert_loadcap_admit_retry_n admits a batch. *)
NoCap == LIMIT = 0

WedgeAdmits == Wedged /\ Spent = 0 /\ SpentRes = 0

GeneralAdmits == ~Wedged /\ Spent <= General - SLOTS

(* MUTANT: the reserve is not used up. *)
ReserveAdmits_Free(retry) ==
  ~Wedged /\ ~GeneralAdmits /\ retry /\ SLOTS <= Reserve

ReserveAdmits(retry) ==
  ~Wedged /\ ~GeneralAdmits /\ retry /\ SLOTS <= Reserve - SpentRes

Admits(retry) ==
  NoCap \/ WedgeAdmits \/ GeneralAdmits \/ ReserveAdmits(retry)

(* What an admission charges: nothing without a cap, both pools for a batch  *)
(* that fits neither, the general pool first, the reserve last.  A denial    *)
(* still moves the counters to this second.                                  *)
Charge(admitted) ==
  /\ IF NoCap THEN UNCHANGED current ELSE current' = TRUE
  /\ spent' = CASE NoCap -> spent
                [] ~NoCap /\ admitted /\ WedgeAdmits -> General
                [] ~NoCap /\ admitted /\ GeneralAdmits -> Spent + SLOTS
                [] OTHER -> Spent
  /\ spent_res' = CASE NoCap -> spent_res
                    [] ~NoCap /\ admitted /\ WedgeAdmits -> Reserve
                    [] ~NoCap /\ admitted /\ ~Wedged /\ ~GeneralAdmits
                         -> SpentRes + SLOTS
                    [] OTHER -> SpentRes

-----------------------------------------------------------------------------
Init ==
  /\ current = FALSE /\ spent = 0 /\ spent_res = 0
  /\ fresh = {} /\ deferred = {} /\ asked = {}

(* A handshake for a name that was loaded in this second: the per-name       *)
(* throttle, the budget is not asked.                                        *)
Cached(m) ==
  /\ m \in fresh
  /\ asked' = asked \cup {m}
  /\ UNCHANGED <<cap, fresh, deferred>>

(* Admitted: checked = now, no longer owed a retry. *)
Load(m) ==
  /\ m \notin fresh
  /\ Admits(m \in deferred)
  /\ Charge(TRUE)
  /\ fresh' = fresh \cup {m}
  /\ deferred' = deferred \ {m}
  /\ asked' = asked \cup {m}

(* MUTANT: a denied name is not owed a retry. *)
Defer_Drops(m) ==
  /\ m \notin fresh
  /\ ~Admits(m \in deferred)
  /\ Charge(FALSE)
  /\ asked' = asked \cup {m}
  /\ UNCHANGED <<fresh, deferred>>

(* Denied: checked stays, the name is owed a retry. *)
Defer(m) ==
  /\ m \notin fresh
  /\ ~Admits(m \in deferred)
  /\ Charge(FALSE)
  /\ deferred' = deferred \cup {m}
  /\ asked' = asked \cup {m}
  /\ UNCHANGED fresh

(* ngx_time() moves on.  The regular names have been asked for by then. *)
Second ==
  /\ Regular \subseteq asked
  /\ current' = FALSE
  /\ fresh' = {} /\ asked' = {}
  /\ UNCHANGED <<spent, spent_res, deferred>>

Handshake(m) == Cached(m) \/ Load(m) \/ Defer(m)

Next == Second \/ \E m \in Name : Handshake(m)

(* Time passes; a second ends when the regular clients have had their say.   *)
Fairness ==
  /\ WF_vars(Second)
  /\ \A m \in Regular : WF_vars(m \notin asked /\ Handshake(m))

Spec == Init /\ [][Next]_vars

FairSpec == Spec /\ Fairness

-----------------------------------------------------------------------------
(* TYPE INVARIANT. *)
TypeOK ==
  /\ current \in BOOLEAN
  /\ spent \in 0 .. General /\ spent_res \in 0 .. Reserve
  /\ fresh \subseteq Name /\ deferred \subseteq Name
  /\ asked \subseteq Name

(* The budget holds whoever asks and in whatever order, retries included: a  *)
(* worker loads at most LIMIT key pairs a second, or a single name's batch   *)
(* if that alone is too big for the pool everybody shares.                   *)
LoadsBounded ==
  LIMIT > 0 =>
    \/ Cardinality(fresh) * SLOTS <= LIMIT
    \/ Wedged /\ Cardinality(fresh) <= 1

(* An idle worker never refuses: as long as nothing was loaded in this       *)
(* second, the next name to ask is loaded, be it a first attempt or a retry  *)
(* (the reserve redistributes under contention only, loadcap.h).             *)
IdleAdmits == fresh = {} => \A retry \in BOOLEAN : Admits(retry)

(* A handshake went without a load; a later one gets it. *)
Served(m) == m \in asked \ fresh ~> m \in fresh

Batches == (General \div SLOTS) + (Reserve \div SLOTS)

(* The reserve ends starvation: a regular name that was denied is loaded     *)
(* although others, and others every time, may come before it and more than  *)
(* once in every second, as long as they are fewer in a second than the      *)
(* batches the two pools hold.  Without the reserve, or with one that first  *)
(* attempts may use, the name that always comes last is never loaded.        *)
DeferredServed ==
  \A m \in Regular :
    <>[](Cardinality(asked \ {m}) < Batches) => Served(m)
=============================================================================
