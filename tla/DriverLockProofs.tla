-------------------------- MODULE DriverLockProofs --------------------------
(***************************************************************************)
(* The driver lock is exclusive for any number of processes and of stores, *)
(* on POSIX and on win32 hosts.                                            *)
(***************************************************************************)
EXTENDS DriverLock, TLAPS

(* What the kernel guarantees of flock(): one holder of a store's lock. *)
Exclusive ==
  \A p, q \in Proc : flock[p] = flock[q] /\ flock[p] # NoStore => p = q

(* Types, the lock file belongs to armed drivers, and has one holder.  The   *)
(* second part is needed because exclusion is a fact about lock files while  *)
(* the property is about armed engines.                                      *)
LockInv == TypeOK /\ LockIsDriver /\ Exclusive

(* It holds before any process was forked. *)
LEMMA LockInvInit == Init => LockInv
BY DEF Init, LockInv, TypeOK, Modes, LockIsDriver, Exclusive, Driver

(* Every step preserves the invariant. *)
LEMMA LockInvNext == LockInv /\ [Next]_vars => LockInv'
<1> SUFFICES ASSUME LockInv, [Next]_vars PROVE LockInv'
  OBVIOUS
<1> USE LockAssumption
<1> USE DEF LockInv, TypeOK, Modes, LockIsDriver, Exclusive, Driver
<1>1. ASSUME NEW p \in Proc, Fork(p) \/ Quit(p) PROVE LockInv'
  BY <1>1 DEF Fork, Quit
<1>2. ASSUME NEW p \in Proc, TryError(p) \/ TryGate(p) \/ TryGateAgain(p)
      PROVE LockInv'
  BY <1>2 DEF TryError, TryGate, TryGateAgain, Trying, Win32
<1>3. ASSUME NEW p \in Proc, TryFlock(p) PROVE LockInv'
  <2>1. mode[p] = "gated" /\ Free(flock, store[p]) /\ store[p] \in Store
    BY <1>3 DEF TryFlock
  <2>2. TypeOK'
    BY <1>3 DEF TryFlock
  <2>3. LockIsDriver'
    BY <1>3 DEF TryFlock
  <2>4. Exclusive'
    BY <1>3, <2>1 DEF TryFlock, Free
  <2> QED BY <2>2, <2>3, <2>4
<1>4. ASSUME NEW p \in Proc, TryFlockAgain(p) \/ TryFlockError(p) PROVE LockInv'
  BY <1>4 DEF TryFlockAgain, TryFlockError
<1>5. ASSUME NEW p \in Proc, ExitProcess(p) \/ Crash(p) PROVE LockInv'
  BY <1>5 DEF ExitProcess, Crash, Gone
<1>6. ASSUME NEW p \in Proc, NEW s \in Store, DriverReload(p, s) PROVE LockInv'
  BY <1>6 DEF DriverReload
<1>7. CASE UNCHANGED vars
  BY <1>7 DEF vars
<1> QED
  BY <1>1, <1>2, <1>3, <1>4, <1>5, <1>6, <1>7 DEF Next, trylock, Attempt

(* The lock is given up by every path that leaves the driver, and never left *)
(* behind by one that does not drive: the lock file of a store is held by    *)
(* exactly the processes that drive it (LockIsDriver).                       *)
THEOREM LockFollowsDriver == Spec => []LockIsDriver
<1>1. LockInv => LockIsDriver
  BY DEF LockInv
<1> QED
  BY <1>1, LockInvInit, LockInvNext, PTL DEF Spec

(* One driver per store, for every set of processes and stores: the engine   *)
(* is only armed behind trylock(), which leaves one process with the lock    *)
(* (OneDriverPerStore).                                                      *)
THEOREM OneDriver == Spec => []OneDriverPerStore
<1>1. LockInv => OneDriverPerStore
  <2> SUFFICES ASSUME LockInv, NEW p \in Proc, NEW q \in Proc,
                      Driver(p), Driver(q), store[p] = store[q]
               PROVE  p = q
    BY DEF OneDriverPerStore, LockInv
  <2>1. flock[p] = store[p] /\ flock[q] = store[q]
    BY DEF LockInv, LockIsDriver
  <2>2. store[p] # NoStore
    BY LockAssumption DEF LockInv, TypeOK
  <2> QED BY <2>1, <2>2 DEF LockInv, Exclusive
<1> QED
  BY <1>1, LockInvInit, LockInvNext, PTL DEF Spec
=============================================================================
