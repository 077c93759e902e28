---------------------------- MODULE DriverLock -----------------------------
(***************************************************************************)
(* Which process is the ACME driver, src/src/ngx_autocert_driver.c: every  *)
(* generation's worker 0 asks for the lock in its store, the loser asks    *)
(* again on a slow timer, a retiring or dying holder gives it up.  On      *)
(* win32 a named mutex is taken before the flock, and every worker asks    *)
(* (ngx_worker is never set there).                                        *)
(*                                                                         *)
(* A process is a worker 0 of some generation, of some nginx instance.     *)
(* Hosts of both kinds are modelled side by side: a store is on one host.  *)
(* The two locks are kernel objects: a holder that is gone holds nothing.  *)
(***************************************************************************)
CONSTANTS
  Proc,    \* the worker processes there will have been
  Store,   \* store directories a configuration may name
  NoStore, \* no directory: a lock that is not held
  WIN32,   \* the stores on hosts with the win32 build
  Faults   \* events the instance allows

ASSUME LockAssumption ==
  /\ NoStore \notin Store
  /\ WIN32 \subseteq Store
  /\ Faults \subseteq {"error", "crash", "single"}

VARIABLES
  mode,   \* where the process is with the lock
  store,  \* acf.path of the process's cycle
  quit,   \* ngx_quit, ngx_terminate or ngx_exiting
  mutex,  \* ngx_autocert_win32_mutex: the store whose mutex is held
  flock   \* ngx_autocert_lock_fd: the store whose lock file is locked

vars == <<mode, store, quit, mutex, flock>>

(* "new": not forked yet; "boot": before init_process; "waiting": the relock *)
(* timer is set; "gated": in trylock, past the mutex; "driver": armed;       *)
(* "idle": not configured, or trylock failed; "gone".                        *)
Modes == {"new", "boot", "waiting", "gated", "driver", "idle", "gone"}

(* NGX_WIN32 of the build this process runs. *)
Win32(p) == store[p] \in WIN32

Free(lock, s) == \A q \in Proc : lock[q] # s

-----------------------------------------------------------------------------
Init ==
  /\ mode = [p \in Proc |-> "new"]
  /\ store \in [Proc -> Store]
  /\ quit = [p \in Proc |-> FALSE]
  /\ mutex = [p \in Proc |-> NoStore]
  /\ flock = [p \in Proc |-> NoStore]

(* The master forks a worker: at its start, on a reload, or for one that     *)
(* died.                                                                     *)
Fork(p) ==
  /\ mode[p] = "new"
  /\ mode' = [mode EXCEPT ![p] = "boot"]
  /\ UNCHANGED <<store, quit, mutex, flock>>

(* The master retires an older generation once a newer one is running. *)
Quit(p) ==
  /\ mode[p] \notin {"new", "gone"} /\ ~quit[p]
  /\ \E q \in Proc \ {p} : mode[q] \notin {"new", "gone"} /\ ~quit[q]
  /\ quit' = [quit EXCEPT ![p] = TRUE]
  /\ UNCHANGED <<mode, store, mutex, flock>>

(* init_process, or the relock timer of a process that is not retiring. *)
Trying(p) == mode[p] = "boot" \/ (mode[p] = "waiting" /\ ~quit[p])

(* trylock up to the mutex: not configured, a store directory that cannot be *)
(* used, or a mutex that cannot be waited for end the attempts.              *)
TryError(p) ==
  /\ "error" \in Faults
  /\ Trying(p)
  /\ mode' = [mode EXCEPT ![p] = "idle"]
  /\ UNCHANGED <<store, quit, mutex, flock>>

(* The mutex is ours already, free, or abandoned by a process that is gone. *)
GateOpen(p) == ~Win32(p) \/ mutex[p] # NoStore \/ Free(mutex, store[p])

TryGate(p) ==
  /\ Trying(p)
  /\ GateOpen(p)
  /\ mode' = [mode EXCEPT ![p] = "gated"]
  /\ mutex' = IF Win32(p) /\ mutex[p] = NoStore
              THEN [mutex EXCEPT ![p] = store[p]] ELSE mutex
  /\ UNCHANGED <<store, quit, flock>>

(* Held by somebody else: the relock timer is set. *)
TryGateAgain(p) ==
  /\ Trying(p)
  /\ ~GateOpen(p)
  /\ mode' = [mode EXCEPT ![p] = "waiting"]
  /\ UNCHANGED <<store, quit, mutex, flock>>

(* MUTANT: the flock is not asked for on top of the mutex. *)
TryFlock_Skips(p) ==
  /\ mode[p] = "gated"
  /\ mode' = [mode EXCEPT ![p] = "driver"]
  /\ flock' = [flock EXCEPT ![p] = store[p]]
  /\ UNCHANGED <<store, quit, mutex>>

(* The flock is free: seed and arm. *)
TryFlock(p) ==
  /\ mode[p] = "gated"
  /\ Free(flock, store[p])
  /\ mode' = [mode EXCEPT ![p] = "driver"]
  /\ flock' = [flock EXCEPT ![p] = store[p]]
  /\ UNCHANGED <<store, quit, mutex>>

(* Held by somebody else: the relock timer is set; the mutex is kept. *)
TryFlockAgain(p) ==
  /\ mode[p] = "gated"
  /\ ~Free(flock, store[p])
  /\ mode' = [mode EXCEPT ![p] = "waiting"]
  /\ UNCHANGED <<store, quit, mutex, flock>>

(* MUTANT: the mutex is not given back. *)
TryFlockError_KeepsMutex(p) ==
  /\ "error" \in Faults
  /\ mode[p] = "gated"
  /\ mode' = [mode EXCEPT ![p] = "idle"]
  /\ UNCHANGED <<store, quit, mutex, flock>>

(* The lock file cannot be opened or locked: the mutex is given back. *)
TryFlockError(p) ==
  /\ "error" \in Faults
  /\ mode[p] = "gated"
  /\ mode' = [mode EXCEPT ![p] = "idle"]
  /\ mutex' = [mutex EXCEPT ![p] = NoStore]
  /\ UNCHANGED <<store, quit, flock>>

(* The process is gone, and with it its locks. *)
Gone(p) ==
  /\ mode' = [mode EXCEPT ![p] = "gone"]
  /\ mutex' = [mutex EXCEPT ![p] = NoStore]
  /\ flock' = [flock EXCEPT ![p] = NoStore]
  /\ UNCHANGED <<store, quit>>

(* exit_process of a retiring worker, in its event loop. *)
ExitProcess(p) ==
  /\ quit[p] /\ mode[p] \in {"waiting", "driver", "idle"}
  /\ Gone(p)

Crash(p) ==
  /\ "crash" \in Faults
  /\ mode[p] \notin {"new", "gone"}
  /\ Gone(p)

(* MUTANT: the lock of the old store is taken along. *)
DriverReload_KeepsLock(p, s) ==
  /\ "single" \in Faults /\ ~Win32(p) /\ s \notin WIN32
  /\ mode[p] \in {"waiting", "driver", "idle"} /\ ~quit[p]
  /\ store' = [store EXCEPT ![p] = s]
  /\ mode' = [mode EXCEPT ![p] = IF flock[p] = NoStore THEN "boot"
                                                       ELSE "driver"]
  /\ UNCHANGED <<quit, mutex, flock>>

(* driver_reload (master_process off): everything is dropped, the lock too,  *)
(* and init_process starts over with the new configuration.                  *)
DriverReload(p, s) ==
  /\ "single" \in Faults /\ ~Win32(p) /\ s \notin WIN32
  /\ mode[p] \in {"waiting", "driver", "idle"} /\ ~quit[p]
  /\ store' = [store EXCEPT ![p] = s]
  /\ flock' = [flock EXCEPT ![p] = NoStore]
  /\ mode' = [mode EXCEPT ![p] = "boot"]
  /\ UNCHANGED <<quit, mutex>>

Attempt(p) ==
  TryGate(p) \/ TryGateAgain(p) \/ TryFlock(p) \/ TryFlockAgain(p)

trylock(p) == Attempt(p) \/ TryError(p) \/ TryFlockError(p)

Next ==
  \E p \in Proc :
    \/ Fork(p) \/ Quit(p) \/ ExitProcess(p) \/ Crash(p)
    \/ trylock(p)
    \/ \E s \in Store : DriverReload(p, s)

(* A handler runs on, the relock timer fires, and a retiring worker exits:   *)
(* all of the driver's timers are cancelable.  Nothing is assumed of the     *)
(* master, and no error need ever happen.                                    *)
Fairness ==
  \A p \in Proc : WF_vars(Attempt(p)) /\ WF_vars(ExitProcess(p))

Spec == Init /\ [][Next]_vars

FairSpec == Spec /\ Fairness

-----------------------------------------------------------------------------
(* TYPE INVARIANT. *)
TypeOK ==
  /\ mode \in [Proc -> Modes]
  /\ store \in [Proc -> Store]
  /\ quit \in [Proc -> BOOLEAN]
  /\ mutex \in [Proc -> Store \cup {NoStore}]
  /\ flock \in [Proc -> Store \cup {NoStore}]

Driver(p) == mode[p] = "driver"

(* Never two drivers on one store, at no point of a reload, a hot upgrade, a *)
(* crash or an in-process reload that moves to another store: two of them    *)
(* would race for the account's nonce and commit certificates over each      *)
(* other.                                                                    *)
OneDriverPerStore ==
  \A p, q \in Proc : Driver(p) /\ Driver(q) /\ store[p] = store[q] => p = q

(* The lock is neither lost nor kept by a process that does not drive: what  *)
(* is locked is exactly the store of an armed driver.                        *)
LockIsDriver ==
  \A p \in Proc : flock[p] = IF Driver(p) THEN store[p] ELSE NoStore

(* The survivor takes over: a process that stays and still asks for the lock *)
(* does not ask in vain for ever; either it drives its store or somebody     *)
(* who is not retiring does, whatever errors others met on the way.          *)
TakesOver ==
  \A p \in Proc :
    mode[p] = "waiting" ~>
      \/ quit[p] \/ mode[p] \in {"idle", "gone"}
      \/ \E q \in Proc : Driver(q) /\ ~quit[q] /\ store[q] = store[p]
=============================================================================
