--------------------------- MODULE LoadCapProofs ---------------------------
(***************************************************************************)
(* The budget of the handshake path, for every limit, every number of key  *)
(* types and every finite set of names.                                    *)
(***************************************************************************)
EXTENDS LoadCap, FiniteSetTheorems, TLAPS

(* The reserve is a part of the limit, never the whole of it. *)
LEMMA Split ==
  /\ Reserve \in Nat /\ General \in Nat
  /\ General + Reserve = LIMIT
  /\ LIMIT > 0 => General > 0
BY LoadCapAssumption DEF Reserve, General, reserve

(* What the counters mean: nothing is fresh before the second's first        *)
(* request; after it the two pools have paid for exactly the fresh names, or *)
(* one batch that fits no pool has closed the second.                        *)
Paid ==
  LIMIT > 0 =>
    /\ ~current => fresh = {}
    /\ current /\ ~Wedged => Cardinality(fresh) * SLOTS = spent + spent_res
    /\ Wedged => Cardinality(fresh) <= 1
    /\ current /\ Wedged /\ fresh = {} => spent = 0 /\ spent_res = 0
    /\ current /\ Wedged /\ fresh # {} => spent # 0 \/ spent_res # 0

CapInv == TypeOK /\ Paid

(* Sets of names are finite, and loading one more adds one. *)
LEMMA FreshCount ==
  ASSUME fresh \subseteq Name
  PROVE  /\ Cardinality(fresh) \in Nat
         /\ fresh = {} => Cardinality(fresh) = 0
         /\ \A m \in Name \ fresh :
              Cardinality(fresh \cup {m}) = Cardinality(fresh) + 1
<1>1. IsFiniteSet(fresh)
  BY LoadCapAssumption, FS_Subset
<1> QED BY <1>1, FS_CardinalityType, FS_EmptySet, FS_AddElement

(* An admitted load is paid for. *)
LEMMA LoadStep ==
  ASSUME CapInv, NEW m \in Name, Load(m)
  PROVE  CapInv'
<1> USE LoadCapAssumption, Split
<1> DEFINE c == Cardinality(fresh)
<1>1. /\ c \in Nat
      /\ fresh = {} => c = 0
      /\ Cardinality(fresh') = c + 1
  BY FreshCount DEF CapInv, TypeOK, Load
<1>2. CASE NoCap
  BY <1>2 DEF Load, Charge, NoCap, CapInv, TypeOK, Paid
<1>3. CASE ~NoCap /\ Wedged
  <2>1. Spent = 0 /\ SpentRes = 0
    BY <1>3 DEF Load, Admits, WedgeAdmits, GeneralAdmits, ReserveAdmits
  <2>2. fresh = {}
    BY <1>3, <2>1 DEF Spent, SpentRes, CapInv, TypeOK, Paid, NoCap
  <2>3. /\ current' = TRUE
        /\ spent' = General /\ spent_res' = Reserve
        /\ fresh' = {m}
    <3>1. WedgeAdmits /\ ~GeneralAdmits
      BY <1>3, <2>1 DEF WedgeAdmits, GeneralAdmits
    <3> QED BY <1>3, <2>2, <3>1 DEF Load, Charge
  <2>4. TypeOK'
    BY <2>3 DEF Load, CapInv, TypeOK
  <2>5. Paid'
    BY <1>1, <1>3, <2>2, <2>3 DEF Paid, NoCap, Wedged
  <2> QED BY <2>4, <2>5 DEF CapInv
<1>4. CASE ~NoCap /\ ~Wedged
  <2>1. /\ Spent \in 0 .. General /\ SpentRes \in 0 .. Reserve
        /\ c * SLOTS = Spent + SpentRes
    BY <1>1, <1>4 DEF Spent, SpentRes, CapInv, TypeOK, Paid, NoCap
  <2>2. (c + 1) * SLOTS = c * SLOTS + SLOTS
    BY <1>1
  <2>3. CASE GeneralAdmits
    <3>1. current' = TRUE /\ spent' = Spent + SLOTS /\ spent_res' = SpentRes
      BY <1>4, <2>3 DEF Load, Charge, WedgeAdmits
    <3>2. spent' \in 0 .. General
      BY <2>1, <2>3, <3>1 DEF GeneralAdmits
    <3> HIDE DEF c
    <3> QED BY <1>1, <1>4, <2>1, <2>2, <3>1, <3>2
        DEF Load, CapInv, TypeOK, Paid, NoCap, Wedged
  <2>4. CASE ~GeneralAdmits
    <3>1. SLOTS <= Reserve - SpentRes
      BY <1>4, <2>4 DEF Load, Admits, WedgeAdmits, ReserveAdmits
    <3>2. current' = TRUE /\ spent' = Spent /\ spent_res' = SpentRes + SLOTS
      BY <1>4, <2>4 DEF Load, Charge, WedgeAdmits
    <3> HIDE DEF c
    <3> QED BY <1>1, <1>4, <2>1, <2>2, <3>1, <3>2
        DEF Load, CapInv, TypeOK, Paid, NoCap, Wedged
  <2> QED BY <2>3, <2>4
<1> QED BY <1>2, <1>3, <1>4

(* A denial charges nothing. *)
LEMMA DeferStep ==
  ASSUME CapInv, NEW m \in Name, Defer(m)
  PROVE  CapInv'
<1> USE LoadCapAssumption, Split
<1>1. ~NoCap
  BY DEF Defer, Admits
<1>2. current' = TRUE /\ spent' = Spent /\ spent_res' = SpentRes
  BY <1>1 DEF Defer, Charge
<1>3. fresh = {} => Cardinality(fresh) = 0
  BY FreshCount DEF CapInv, TypeOK
<1>4. TypeOK'
  BY <1>2 DEF Defer, CapInv, TypeOK, Spent, SpentRes
<1>5. Paid'
  BY <1>2, <1>3 DEF Defer, CapInv, TypeOK, Paid, Spent, SpentRes, Wedged
<1> QED BY <1>4, <1>5 DEF CapInv

(* The invariant holds of every behaviour. *)
LEMMA CapInvariant == Spec => []CapInv
<1> USE LoadCapAssumption, Split
<1>1. Init => CapInv
  <2> SUFFICES ASSUME Init PROVE TypeOK /\ Paid
    BY DEF CapInv
  <2>1. fresh = {} /\ current = FALSE /\ Cardinality(fresh) = 0
    BY FS_EmptySet DEF Init
  <2>2. TypeOK
    <3>1. spent \in 0 .. General /\ spent_res \in 0 .. Reserve
      BY DEF Init
    <3>2. /\ current \in BOOLEAN
          /\ fresh \subseteq Name /\ deferred \subseteq Name
          /\ asked \subseteq Name
      BY Zenon DEF Init
    <3> QED BY <3>1, <3>2 DEF TypeOK
  <2>3. Paid
    BY <2>1 DEF Paid
  <2> QED BY <2>2, <2>3
<1>2. CapInv /\ [Next]_vars => CapInv'
  <2> SUFFICES ASSUME CapInv, [Next]_vars PROVE CapInv'
    OBVIOUS
  <2>1. CASE Second
    <3>1. fresh' = {} /\ current' = FALSE /\ Cardinality(fresh') = 0
      BY <2>1, FS_EmptySet DEF Second
    <3>2. TypeOK'
      BY <2>1 DEF Second, CapInv, TypeOK
    <3>3. Paid'
      BY <3>1 DEF Paid
    <3> QED BY <3>2, <3>3 DEF CapInv
  <2>2. ASSUME NEW m \in Name, Cached(m) PROVE CapInv'
    BY <2>2 DEF Cached, cap, CapInv, TypeOK, Paid, Wedged
  <2>3. CASE UNCHANGED vars
    BY <2>3 DEF vars, cap, CapInv, TypeOK, Paid, Wedged
  <2> QED BY <2>1, <2>2, <2>3, LoadStep, DeferStep DEF Next, Handshake
<1> QED BY <1>1, <1>2, PTL DEF Spec

(* The counters stay within their pools, so that the unsigned subtractions   *)
(* of the cap never wrap.                                                    *)
THEOREM PoolsBounded == Spec => []TypeOK
<1>1. CapInv => TypeOK
  BY DEF CapInv
<1> QED BY <1>1, CapInvariant, PTL

(* A worker never loads more than its limit in a second, whoever asks. *)
THEOREM BudgetHolds == Spec => []LoadsBounded
<1>1. CapInv => LoadsBounded
  <2> SUFFICES ASSUME CapInv, LIMIT > 0 PROVE LoadsBounded
    BY DEF LoadsBounded
  <2>1. CASE Wedged
    BY <2>1 DEF CapInv, Paid, LoadsBounded
  <2>2. CASE ~Wedged /\ ~current
    <3>1. Cardinality(fresh) = 0
      BY <2>2, FreshCount DEF CapInv, TypeOK, Paid
    <3> QED BY <3>1, LoadCapAssumption DEF LoadsBounded
  <2>3. CASE ~Wedged /\ current
    <3>1. Cardinality(fresh) * SLOTS = spent + spent_res
      BY <2>3 DEF CapInv, Paid
    <3>2. spent + spent_res <= LIMIT
      BY Split, LoadCapAssumption DEF CapInv, TypeOK
    <3> QED BY <3>1, <3>2 DEF LoadsBounded
  <2> QED BY <2>1, <2>2, <2>3
<1> QED BY <1>1, CapInvariant, PTL

(* An idle worker refuses nobody, whatever the limit and the batch size. *)
THEOREM NeverWedged == Spec => []IdleAdmits
<1>1. CapInv => IdleAdmits
  <2> SUFFICES ASSUME CapInv, fresh = {}, NEW retry \in BOOLEAN
               PROVE  Admits(retry)
    BY DEF IdleAdmits
  <2>1. CASE NoCap
    BY <2>1 DEF Admits
  <2>2. CASE ~NoCap
    <3>1. LIMIT > 0
      BY <2>2, LoadCapAssumption DEF NoCap
    <3>2. Cardinality(fresh) = 0
      BY FreshCount DEF CapInv, TypeOK
    <3>3. CASE ~current
      <4>1. Spent = 0 /\ SpentRes = 0
        BY <3>3 DEF Spent, SpentRes
      <4> QED BY <4>1, Split, LoadCapAssumption
          DEF Admits, WedgeAdmits, GeneralAdmits, Wedged
    <3>4. CASE current
      <4>1. spent = 0 /\ spent_res = 0
        BY <3>1, <3>2, <3>4, Split, LoadCapAssumption
           DEF CapInv, TypeOK, Paid
      <4> QED BY <3>4, <4>1, Split, LoadCapAssumption
          DEF Admits, WedgeAdmits, GeneralAdmits, Wedged, Spent, SpentRes
    <3> QED BY <3>3, <3>4
  <2> QED BY <2>1, <2>2
<1> QED BY <1>1, CapInvariant, PTL
=============================================================================
