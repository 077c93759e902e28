# A TLA+ model of nginx-autocert-module

The module makes nginx an ACME client: worker 0 registers accounts, orders
certificates for the configured names and for names other modules ask for at
run time, stores them on disk, and every worker serves them in its TLS
handshakes. This directory models its control logic in TLA+, checks it on
small instances with TLC and proves its central safety properties with TLAPS
for every value of the constants. Paths below are relative to the repository
(`src/ngx_autocert_driver.c` and so on).

## 1. The system

### Components, their state and their operations

| component | code | state | operations |
|---|---|---|---|
| request registry | `requests.c` | shared zone: layout stamp, tree of nodes (state, last_seen, next_eligible, fail_count), count | zone init and adoption, `ensure` (consumers, any worker), `drain`, `set_state`, `list_issued`, `gc` (driver) |
| rate caps | `ratecap.h` | rings of time stamps in the driver process | count, oldest, push |
| runtime driver path | `driver.c` | order in flight, caps, seed walk; disk: certificates and markers | drain loop, renewal scan, idle sweep, completion, marker write and removal, seed walk, hand-over on exit |
| config scheduler | `driver.c` | kick and sweep timers, cursor, per-entry back-off, per-CA account_live | bootstrap chain, sweep, rearm, back-off, in-process reload |
| driver lock | `driver.c`, `ngx_http_autocert_module.c` | flock on `<store>/.driver.lock`, win32 mutex | trylock, relock timer, release on exit and reload |
| load cap | `loadcap.h`, `serve.c` | per worker and second: two pools; per name: checked, deferred | admit, defer |
| certificate serving | `serve.c` | per-worker cache of slots | lookup, reload by change time, runtime gate, ALPN answer |
| order flow | `order.c`, `driver.c` | one order: flags, retries, timers; one key thread | start, newOrder, authorization, challenge, poll, key, finalize, download, finish, free |
| certificate store | `order.c` | `<store>/<name>/` with a key and a chain per key type, the marker of a runtime name; `<name>.tmp` for staging | clear, seed, write, fsync, exchange or publish, remove |
| dns-01 hooks | `order.c` | child process, signal mask, orphan table | spawn, poll, kill at the deadline, orphan, reap |
| challenge stores | `challenge.c`, `alpn.c` | shared maps of tokens and challenge certificates | set, lookup, remove |
| account | `account.c` | account key file, account URL, nonce, one POST slot | key load or creation, directory, nonce, newAccount, signed POST, retry after badNonce |
| HTTPS client | `acme.c` | one request: resolver, connection, timers, receive buffer and parser cursors; one in-flight pointer | request, the event handlers, parse, finalize, cancel |
| configuration, crypto, JSON, identifiers, file helpers | the rest | none that changes at run time | |

Consumers in any worker reach the driver only through the registry's shared
memory; the driver reaches the serving workers through the registry (a runtime
name is served while its node is ISSUED), the challenge maps and the store on
disk. Inside worker 0 everything runs in one event loop: timers start the
bootstrap chain and the sweep, the sweep starts an order, the completion of an
order carries the sweep on. Configured names and runtime names share one order
slot. An order is a chain of POSTs signed by the account and carried by the HTTPS
client, each continued by the handler of the one before, with timers, a hook child
or the key thread in between. The master re-maps the zone on reload, starts a new worker 0 and retires
the old one, and the lock decides which of the two drives.

### What is hard

* A registry node outlives its owner: it is claimed in one callback and written
  in another one, minutes later, and the worker can exit or die in between or the
  zone be switched inactive by a reload.
* Certificate, marker and node are three writes to two media.
* Limits are checked at one time and counted at another; they and the back-off
  decide when a host becomes eligible again, and so whether a loop ends.
* The scheduler lives on a chain of "either a timer or a completion".
* Two generations of worker 0 overlap.
* Who gets a load in a handshake depends on arrival order.
* A pair is several files, replaced by several system calls, read meanwhile by
  other processes, and any call may be the last one before the power fails.
* A request may be completed, and everything hanging on it freed, inside the call
  that starts it; the caller goes on with what that call returned.
* An order is freed while a child, a thread or a request of it is still under way;
  a thread cannot be stopped, and a killed child need not die at once.
* Any of a dozen handlers may end an order, and its end may have to wait for a hook.
* A response arrives in pieces cut at any byte, and is parsed from cursors.

`PROJECT.json` lists these places line by line under "hazards", with the
properties that cover them.

### What makes each component correct

* registry: the count is exact and bounds the table; each operation is atomic;
* runtime path: no claimed host is forgotten; ISSUED and markers never outrun
  the certificate; the caps hold; every pump returns; requests are settled;
* scheduler: exactly one beat; no CA given up; Retry-After respected; no
  certificate expires while the CA answers; no entry starves;
* lock: one driver per store, and a survivor takes over;
* load cap: budget, no refusal by an idle worker, no starvation;
* store: what was reported as stored survives; a chain is served only with its
  key; store and workers end up with a fresh pair;
* order flow: exactly one continuation at a time; the handler is called once; the
  order ends; nothing later points to it; its answer is served exactly as long as
  the CA may look at it; the key in a request is its own;
* hooks: the CA looks only after the record is there; it is removed afterwards;
* account: a repeated POST carries an unused nonce;
* HTTPS client: handler called once, or never when the start was refused; the
  in-flight pointer is exact; no peer holds a request open; framing is exact.

## 2. The modules

| module | models | used by |
|---|---|---|
| `Requests` | the registry; `ReqSpec` is its contract for arbitrary callers | `Runtime` |
| `RateCap` | the rolling windows (operators only) | `Runtime` |
| `Runtime` | driver path, consumers, master, crashes and restarts | `MCRuntime` |
| `Sched` | timers, bootstrap chain, sweep, back-off | `MCSched` |
| `DriverLock` | the lock over all generations of worker 0 | `MCDriverLock` |
| `LoadCap` | the budget and the part of the certificate callback that asks it | `MCLoadCap` |
| `Store` | the commit of an issued pair, the freshness test, the reload of a worker's cache | `MCStore` |
| `Account` | key file, registration, the signed POST and its retry | `Order` |
| `Order` | the order flow, challenge maps, hooks and orphans, key thread, reload, exit, crash | `MCOrder` |
| `Issuance` | the order as its driver sees it; abstract | refined by `Order` |
| `Framing` | the incremental response parser, and a reference that reads the whole (operators only) | `AcmeClient` |
| `AcmeClient` | one request after the other, from the call to the handler | `MCAcme` |
| `AcmeRequest` | what the client promises a caller; abstract | refined by `AcmeClient` |
| `RuntimeProofs` (also about `Requests`), `SchedProofs`, `DriverLockProofs`, `LoadCapProofs`, `StoreProofs`, `OrderProofs`, `FramingProofs`, `AcmeClientProofs` | theorems about the module of that name | |

`PROJECT.json` maps every definition to its source lines.

**Time.** The code compares time stamps with `ngx_time()` only, so the models
keep ages and remaining times instead, saturated where the code can no longer
tell values apart. The state is finite although time is not bounded.
`ngx_time()` is cached per event-loop turn, so time stands still in a handler.

**Requests.** Every operation holds the slab mutex from its first look at the
tree to its return, so each is one action. A host is a model value: names are
already normalised and valid. `drain` walks in hash order, which the model leaves
open. The layout stamps "legacy" and "foreign" stand for the arenas that
`init_body` can find. An `ensure` that finds no slab memory changes nothing and is
a stutter.

**Runtime.** `pc` is the position in the running handler; between two
operations on shared memory or disk, consumers, reloads and crashes may act.
`PumpStart .. PumpReturn` is `sched_pump_runtime`, in the order of the code: drain
loop, renewal scan, idle sweep, markers. `OrderSent`, `OrderCommits`, `OrderMarks`,
`OrderIssued` and `OrderFails` are the points of an order that the driver sees
(`rt_order_accounted`, the store, `order_complete`). `Boot`, `SeedEnsure`, `SeedSet`
are the chunked seed walk; its first chunk runs in `init_process`, before the configured
names are known. `name_due` gives the set of answers the code may give: with the fault
"read" a file that cannot be read now counts as not due, whether there is a certificate or
not. With "store" a failed order may have its certificate in place (`StoredAnyway`).
`Exit` is a graceful shutdown with `drop_order`, `Crash`
takes the process away at any step, `Restart` also the zone. `lost` and `log` are
history variables. One driver exists at a time: `DriverLock` shows this for a
store; see section 6 for a reload that changes the store.

**Sched.** A handler is one action here, since nothing else touches the state. An
entry is (CA, name, key type). `bootstrap_ca` passes over CAs that are up, or whose
registration cannot be started; `sched_pump` passes over entries that are held, not
due or of a dead CA, records launch failures, and ends with an order, a runtime
order or the timer. A failed order may leave its certificate in place, as in `Order`.
Transient read errors, which only put an entry off to the next sweep, are left out.

**DriverLock.** `mode` says where a process is in `driver_trylock`. On win32 every
worker asks, the mutex comes first and is kept while the flock is waited for. POSIX
and win32 hosts are modelled side by side: a store is on one of them.

**LoadCap.** One worker, one second at a time. `Admits` and `Charge` are
`ngx_autocert_loadcap_admit_retry_n`, split into the ways it admits.

**Store.** One name with its two key types. `pc` is the position in `order_store`: a
system call per action, so that a worker's reload, a crash or a power loss may come
between any two. A version is what one order brings; the number stands for the
bytes of its key and of its chain and for the identity of their files (inode,
change time and size: `slot_fresh` compares all three). `disk` is what the kernel
shows. `views` are earlier states of the names that a power loss can still bring
back: the model assumes a file system that keeps the order of its names' changes
(ext4, xfs, NTFS), on which an fsync of any directory is a barrier; the code relies
on it, since it removes the old pair before it fsyncs the container. The bytes of a
file that was not fsync'd (`unsynced`) may be lost, which leaves it `Torn`. On win32 the
directory fsync does nothing, and `views` is never emptied. `name_due` stands for the
driver's freshness test with `cert_not_after` and `key_pairs_with`; transient read
errors, which only delay an order, are left out. `ReloadStat .. ReloadInstall` is
`cache_reload`, one step per look at the disk. Left out: certbot's `cert.pem` and
`chain.pem` (they travel with the pair and nobody reads them), permissions, symbolic
links, and a file system without RENAME_EXCHANGE, where renewal is refused.

**Account, Order.** `pend` is the set of requests and timers worker 0 waits for, each
with the order it belongs to. A handler runs to its end in one step: an operator
with a parameter `c` is a piece of a handler, `c` the state as the handler has left it,
`Return(c)` the return to the event loop; the operators have the names of the functions.
The one exception is `new_order`, whose POST may be completed before the call
returns: `frame` remembers the call, and `ReturnNewOrder` is its rest. The handler of a
POST, the timers, the hook poll and the key completion are actions; the key
thread, hook children, the kernel and nginx's SIGCHLD handler act on their own.
All orders are for one name, the only case in which two can meet in the ALPN map.
What a CA answers is reduced to the classes each handler tells apart (`Answers`). A step
that may fail for lack of memory or by a refused request has "finish with
failure" as its other outcome. The history variables `ended`, `calls`, `counted`, `added`,
`tried`, `uaf` record what properties speak of. On posix an RSA key goes to a thread;
win32 has no threads, and its children are ended with their job object. The
configuration requires both hooks for dns-01 (`ngx_http_autocert_module.c:609`), and
a runtime name never uses it. Left out: Retry-After (in `Sched` and `Runtime`), the
contents of messages, the checks of the downloaded chain (a choice in `download_done`).
`order_store` has three outcomes there: stored, not stored, and stored with a last
fsync that failed, in which case the order fails with its certificate in place. A
crash may fall between the commit and the end of the order. A child that was killed
may die or not: the code knows of children wedged in the kernel (`order.c:4063`).

**Issuance.** Orders run one at a time; each ends once, by its handler (called
exactly once), dropped, or with the worker; the stored certificate changes only
together with the end of an order: always when it is successful, never when it is
dropped, perhaps when it fails or its worker dies. This is what `Runtime` and `Sched`
take an order to be.

**AcmeClient, Framing.** An operator of a handler gives the set of its outcomes,
one for each outcome of the calls into nginx and OpenSSL, so that a chain such as
resolve, connect, handshake, send, all completed within `request()`, is one step. The
loop of the read handler is a step per `recv()`. `frames` are the calls of `request()`
that have not returned; a handler called inside one may start the next request.
Time is counted in ticks; a wait lasts TIMEOUT of them. The first send may find the
socket full; a write event means that it takes at least a byte. A response is a sequence of bytes
in which what stands before the CRLF of a header line is one symbol (a line is
looked at only when complete), and CR, LF, digits, ";" and data are bytes of their own.
`Decoded` is the reference: RFC 7230 read from the first byte, without cursors. A URL
that is refused (syntax, origin) is a refusal; memory that runs out inside the
parser is left out (the request then fails as on a bad response).

**AcmeRequest.** A request is refused by the call and its handler never called, or
taken and its handler called exactly once, perhaps inside the call, unless it is
cancelled first; one is pending at a time.

## 3. What the runs check

Mutants (definitions marked MUTANT, never used by the models) show for every
property that it notices a plausible bug in the code.

| run | question |
|---|---|
| `runtime_faults` | Under crashes, reloads that enable and disable, restarts, failing launches, marker writes, reads and fsyncs of the store: `CountExact`, `PendingOwned` (a PENDING node has an owner), `IssuedHasCert` (with the exception of section 6), `MarkerHasCert` |
| `runtime_caps` | With a CA whose Retry-After 0 makes failed hosts eligible at once: `OrderBudget`, `FailBudget`, and `RegistryContract`, the refinement `Runtime` => `ReqSpec` |
| `runtime_live` | `PumpReturns` (the drain loop ends), `RequestedSettles` (a requested host is issued, fails or is evicted) |
| `sched_faults` | With failing registrations, launches and orders, shutdowns and reloads: `OneBeat`, `DeadCaRetried`, `RetryAfterKept`, `ReadyIsTried` |
| `sched_renewal` | `NeverExpires`: the interval rule is early enough |
| `lock` | `OneDriverPerStore`, `LockIsDriver`, `TakesOver` |
| `loadcap` | `LoadsBounded`, `IdleAdmits`, `DeferredServed` |
| `store` | `CommittedSurvives`, `NeverMissing`, `ChainNeverAhead`, `ServedPair`, `Converges`, on POSIX and win32, for configured and runtime names, with a fault at any step |
| `order` | Two orders of one name under reloads, exits, crashes, hanging hooks and any answer of the CA: `OneContinuation` (one thing carries the order on, never none, never two), `NoDangling` (nothing that will run later points to a freed order; keys are not mixed up), `AnswerUp` (also for orders that a reload or an exit drops), `HooksInOrder`, `RetryFresh`, `OrderEnds` (only an order's own hook that survives SIGKILL keeps it in flight), and `OrderContract`, the refinement `Order` => `Issuance` |
| `acme` | Two requests against any of the modelled responses, cut anywhere: `InflightExact`, `FramingExact` (the cursors give what the reference gives, at every byte), `DeadlineKept` (no event gives a request time back, and every tick takes some), `RequestEnds`, and `RequestContract`, the refinement `AcmeClient` => `AcmeRequest` |
| `store_staging`, `order_inline` | violated, see section 6 |

### Bounds, and why they are enough

* `runtime_faults`: two runtime hosts, one host that a configured name covers, and
  room for one node: the table is full, a host is evicted and another one takes
  its place while the first one's order is in flight. Lifetime 2, renewal window
  1, TTL 1 and windows of 1 let every comparison go both ways. h1 and h2 are
  symmetric. Reads of the store fail at any time, so the host that is covered is
  excepted from `IssuedHasCert` here; the theorem covers it where reads do not fail.
* `runtime_caps`: two hosts, windows of two slots and two units, so that a ring
  wraps and partly expires; the table of failures has a slot per host.
* `runtime_live`: two hosts with a node each share the order slot; ORDER_MAX is
  2 (see fairness).
* `sched_faults`: two CAs with one entry each is the least in which a live and a
  dead CA coexist; back-off 1, 2, 3 reaches its ceiling, Retry-After 2 is longer
  than the first back-off. `sched_renewal`: two entries per CA and a runtime order
  per sweep, sweep interval 5 from a renewal window of 10.
* `lock`: three processes: a retiring one, its successor, and one that errs or
  crashes; two POSIX stores to move between and a win32 one.
* `loadcap`: limit 9 and two key types give pools of 7 and 2, that is three
  batches with a rest and one batch; five names are one more than fit.
  Limits too small for one batch are covered by the theorems, for all values.

* `store`: both key types, since the commit of one carries the files of the other.
  One fault of any kind at any step (a failed call, a crash, a restarted worker, a
  power loss that keeps any subset of unflushed files); certificates age while
  fewer than two versions exist, so that a renewal follows an issuance. Five
  versions are more than these can use up: MAX_VER never stops an order
  except for a runtime name on POSIX, which never settles (section 6).
  `store_staging` needs no fault, only ageing.
* `order`: two orders are the least in which a leftover of one can disturb another,
  and with an orphan table of one entry the second orphan finds it full. POLL_MAX 1
  lets polling go on and give up. One kind of order per challenge; the http-01 one
  is a runtime name configured for dns-01, the others use RSA, so that the thread is
  used with and without hooks. `order_inline`: one order suffices.
* `acme`: requests of 2 bytes (sent at once or in parts), reads of 1 to 3 bytes, so
  that every cut of a CRLF, a size line and a trailer occurs; the first buffer (10)
  is smaller and the second (19) about as long as the longest responses, so that it
  grows, and overflows. A timer is 2 ticks and the total read time 3, so that the last
  wait is cut short. MAX_SIZE_T 255 makes a third hex digit overflow. Two requests: the
  second from inside the handler of the first.

### Fairness

* A handler that has begun runs on, and timers fire: nginx's event loop.
* Requests and orders end: polls and connections have time-outs and counts
  (`Sched` bounds an order by ORDER_TIME, `Runtime` only says it ends).
* The clock advances as long as the process keeps coming back to its loop
  (strong fairness in `Runtime`: handlers interrupt it).
* A retiring worker exits and its successor starts: the driver's timers are
  cancelable and do not hold the shutdown up.
* Load cap: the seconds pass, and the one regular client asks every second.
* Store: `order_store` does not yield and runs on, the sweep comes back to a due name,
  and the name is asked for in handshakes, each of which reloads at its own time.
* Order: the loop serves what is due (a request is completed, which `RequestEnds`
  shows of the client; timers fire) and the key thread ends its search. Nothing is
  assumed of hooks: one may run until it is killed, and a child wedged in the kernel
  does not die of that either (`order.c:4063`, `ci/tests/unit/test_orphan_reap.c`). The CA may
  go on answering "pending".
* Client: the loop over `recv()` goes on until it is left, calls return, time passes
  whatever events come (strong fairness of the tick), expired timers are handled.
  Resolver, socket and CA owe nothing.
* Nothing is assumed of consumers, reloads, crashes, errors or the CA's answers.

`RequestedSettles` needs that other hosts do not keep the global order budget full
for ever: with two hosts and ORDER_MAX = 2 it cannot be. With a smaller budget a
host may be held again each time while the other one takes the free place; the
code has no queue. `ReadyIsTried` accepts an entry that is held because its launch
failed, so that it holds under all faults.

## 4. What is proved

All theorems hold for every set of hosts, names, processes and stores and all
limits that satisfy the named assumptions of the modules.

* `RegistryCountExact` (`RuntimeProofs`): `ReqSpec => [](ReqTypeOK /\ CountExact)`.
  The two are inductive together: the type of the tree is needed for cardinality
  arithmetic, the exact count for the saturating subtraction in `gc`.
* `NoClaimForgotten` (`RuntimeProofs`): `PendingOwned`. The invariant is strengthened
  by "between drain and launch no order is in flight" (`SlotFree`), without which a
  launch could overwrite the owner of another node.
* `IssuedIsOnDisk`, `MarkerIsBacked` (`RuntimeProofs`): from `CertInv`, which adds that
  the hosts in a handler's hand refer to hosts (`Refs`), the type of the disk, and
  that the order being recorded or the entry being restored has its certificate
  (`InHand`); certificates are never removed (`CertKept`). A runtime host gets to ISSUED
  by an order or from its marker, never by a read alone, so `IssuedHasCert` holds of it
  even while the store cannot be read; of a covered host it holds if reads do not fail
  (section 6, `CoveredHasCert`).
* `DriverKeepsContract`, `RuntimeTyped`, `CountStaysExact` (`RuntimeProofs`): the refinement
  `RegistryContract` (every step of `Runtime` is a step of `ReqSpec` on the zone or leaves
  it alone), `TypeOK`, and with them `CountExact` of the whole path. A hold that
  `HoldUntilFree` computes is in range only if the rings are, so `DriverInv` ties them
  in: types of zone, process and disk, and the rings in the order in which they were
  filled (`Ring`, `Fifo`).
* `OrdersWithinBudget`, `FailuresWithinBudget` (`RuntimeProofs`): the caps are looked at when
  a host is drained and counted when its POST leaves or fails, so nothing about the
  rings alone says that a slot is free then. `BudgetInv` keeps an injection from the
  events of the window into ring slots of the same age (`Matched`), and that a ring
  which was not full at the drain is not full while its order is in flight
  (`NotFull`; the slot it takes is free because the ring is first in, first out,
  `HeadIsFree`). `FailBudget` is claimed where the table of failures has a slot for
  each host, of which there are finitely many: a full table takes up no new host.
* `SchedulerBeats`, `NoCaGivenUp`, `RetryAfterRespected`, `SchedTyped` (`SchedProofs`), from
  `SchedInv`. `OneBeat` needs that before the scheduler is armed there is neither an
  order nor a timer (`Beat`); `RetryAfterKept` is about the moment of a launch and needs
  that a hold covers what the CA asked for all along (`HoldCovers`).
* `RenewedInTime` (`SchedProofs`): `NeverExpires` whenever `EnoughTime` holds: registrations
  may fail but orders do not, the process stays, and the renewal window and the
  lifetime have room for a `Cycle`, that is one pause of the scheduler and one slot of
  ORDER_TIME for every entry and runtime order of a sweep. `Left` is the time until
  the next order of an entry is over at the latest, from wherever the sweep stands,
  and the invariant (`Lasts`) is that each certificate lasts longer than that. The
  bound is sharp: `sched_renewal` with RENEW 9 (cycle 9) passes, with RENEW 8 (cycle
  9) TLC finds a certificate that expires.
* `PoolsBounded`, `BudgetHolds`, `NeverWedged` (`LoadCapProofs`): from `Paid`, which ties
  the number of names loaded in this second to what the two pools have spent. That the
  pools are not overdrawn, so that the unsigned subtractions do not wrap, is `TypeOK`.
* `OneDriver`, `LockFollowsDriver` (`DriverLockProofs`): `OneDriverPerStore` and
  `LockIsDriver`, from the exclusion of the lock file (`Exclusive`) and types.
* `KeyBeforeChain`, `NothingGoesMissing` (`StoreProofs`): `ChainNeverAhead` and the
  action property `NeverMissing`, on POSIX and win32. Both speak of every state a
  power loss can bring back and need `LiveInv`: in all of them a live file is flushed
  and no newer than `ver`, and its chain no newer than its key (`LiveSound`); the
  version being written is nowhere live yet, so that its unflushed bytes belong to
  no live file (`Early`); staging holds the other key types' live files and what has
  been written (`Staged`); the files of the version are flushed from their fsync on
  (`Flushed`); between the two renames of win32 the key is in place (`Landed`). Every
  step then either leaves the live pairs alone (`KeepsLive`; a power loss too, since
  there is nothing to tear) or replaces files by flushed ones of the new version,
  the chain only after its key (`Replaces`).
* `StoredSurvives` (`StoreProofs`): `CommittedSurvives`, from `SafeInv`, which adds to
  `LiveInv`, on POSIX, that a reported pair is a pair in every such state (`Reported`)
  and that the new pair is live, as one directory, before success is reported
  (`Placed`).
* `ServesPairs` (`StoreProofs`): `ServedPair`, inductive with the type invariant
  (`StoreTyped`): only `ReloadInstall` changes a slot, and it compares what it read.
* `PointerExact`, `ClientKeepsContract` (`AcmeClientProofs`): `InflightExact`, and the
  refinement `RequestContract`. A handler may end a request only if its caller has not
  been told, which `InflightExact` does not say; `ClientInv` adds it: a request is either
  armed, not done and the only pending one (`Armed`), or over with nothing armed (`Over`),
  and a handler not yet called has a count of zero (`CallersInv`). The handlers call each
  other in many orders, so each has one lemma, from the write handler back to
  `request()`: begun with a live request it leaves an armed one or one that is over and
  told exactly once (`Leads`), or it reports a failed start with nothing armed and
  nobody told (`Fails`). The parser is uninterpreted: whatever it returns, this holds.
* `ParseReads` (`FramingProofs`): the parser, resumed with its cursors on what it knows of
  some bytes and given any continuation of them, has the result and the body of
  `Decoded`, which reads from the first byte. The argument is what a cursor means: `Good`
  says, for each place the parser may stop at, a fact that every continuation keeps.
  Before the end of the headers the scan may resume because the mark is not in what was
  scanned; between chunks the total is the data of the whole chunks behind the cursor
  and the reference adds exactly them to whatever it reads after it (`InChunks`); in
  a trailer line the cursor is before a CR that may be half of a CRLF, and the state
  says whether the line so far is empty (`InTrailers`). The copy of the second pass is
  what the reference decodes (`CopyDecodes`), so its length is the total. Trailers,
  chunks, copy and reference are recursive functions; that each has the value its
  equation says, and induction along it, come from two lemmas about any recursion
  along which a rank decreases (`RecursionExists`, `RankInduction`).
* `FramingIsExact` (`AcmeClientProofs`): `FramingExact`. `FrameInv` adds to `ClientInv` that
  a request under way has bytes that end no response yet and cursors that are `Good` for
  them (`Going`), and that for a request that is over the property holds (`Exact`); at a
  close only a response without another delimiter is taken as whole (`CloseReads`). Of the
  responses it needs only that they are sequences of bytes (`AcmeAssumption`); they may have
  any length and be cut anywhere.
* `NotDrawnOut` (`AcmeClientProofs`): `DeadlineKept`, the safety part of `RequestEnds`. What
  a request has left (`TimeLeft`) is the running timer, a TIMEOUT for every wait until it
  is sent, and the total read time; at most SEND_LEN + 3 timers and READ_TOTAL from the
  call. `Timed` is what a waiting request keeps: before the reads the timer is at most
  TIMEOUT, during them at most what is left of the total, which is what the cut of
  the last wait is for. A handler may enter the next ones and arm a timer in any of
  them, so each has a lemma that bounds what its chain leaves by the waits it still
  owes (`Within`, `Allowed`); with it no step gains time (`NoGain`), and a tick, which
  runs only while a timer does, takes one. It rests on a write event meaning that the
  socket takes a byte; one that takes none would arm the timer again for nothing.

* `OrderProofs`, about every number of orders, polls and orphans and all faults:
  `FlowContinues` (`OneContinuation`), `NothingDangles` (`NoDangling`), `AnswersServed`
  (`AnswerUp`), `HooksOrdered` (`HooksInOrder`), `RetriesFresh` (`RetryFresh`), `Types`
  (`TypeOK`), all from `Invariant`, and `Implements`, the refinement `OrderContract`. None
  of them is inductive: which event may come next, and what its handler may
  assume, is in the flags of the order. `FlowInv` is about a handler's state record
  `c`: the world around the order is in order (`World`: account, key task, other
  orders' answers and hooks, children, orphans), and the order runs, waiting for
  exactly one thing that its flags fit (`Running`: `Waits`, `WaitsHook`, `WaitsKey`, with
  what is published and counted at that stage, `Stage`), or there is none (`Free`).
  Handlers call each other in many orders, so the proof goes by function: begun in
  a state where the event was taken and nothing else is pending (`Held`), every
  operator leaves, by whatever path, a record from which the loop may go on
  (`Keeps`); the lemmas follow the calls from `order_complete` and `finish` back to
  the handlers. Children, the key thread and the kernel touch the world only in
  ways the order cannot see (`Outside`, `ChildrenKeep`); a reload, an exit and a crash
  leave neither an order nor anything of it (`DropFacts`, `Reborn`). The refinement needs no
  further invariant but the one of the pending call of `new_order` (`FrameInv`): each
  step is silent for the contract, counts, launches, or ends an order, by its handler, by
  a drop or by the death of the worker, and leaves a certificate that end allows
  (`EndedAs`, `Ends`, `Moves`).

The library's theorems by induction take a predicate, which the provers cannot
instantiate. Where a fact needs induction, it is taken from a theorem about sets: that
a set of times has a least element from the well-founded order of the naturals
(`LeastIsLeast`), that a power of two is a natural number from the size of a power set
(`PowerOfTwo`), and what a loop of the parser computes from the set of offsets at which
it does not (`RankInduction`).

Only model-checked: the liveness properties (`PumpReturns`, `RequestedSettles`,
`ReadyIsTried`, `TakesOver`, `DeferredServed`, `Converges`, `OrderEnds`, `RequestEnds`), which
rest on fairness; that a request has only so many ticks, the core of `RequestEnds`, is
proved (`NotDrawnOut`). What holds of `Order`, of `Runtime` and so on is proved for the
modules as they are: that the operators say what the code says is for a reader
to check, with the map.

## 5. What is not modelled, and what remains

* X.509, JWS, EAB, CSR and key encoding: OpenSSL computations without control of
  their own. The JSON reader, URL and identifier syntax: predicates on characters,
  present as the classes of answers, refusals and sets of names they decide.
* Lookup of a name in a worker's certificate cache, wildcard matching, eviction:
  within one callback of one worker; what may change under it is in `Store`.
* Directive parsing, merging and CA grouping, which run once at start.
* File-system helpers (`shared.h`, `win32.h`): pinned opens, renames, locks; their
  guarantees are assumptions of `Store` and `DriverLock`. Log messages, the ci/ tests.
* In `Runtime` the in-process reload (`master_process off`) is left out; unlike an
  exit it keeps the rings of the rate caps. `Order`, `Sched`, `AcmeClient` and
  `DriverLock` have it.
* `Order` has one CA, one account and one name; several CAs are in `Sched`.

Every invariant, every refinement and every action property that a passing run checks
is proved. What remains: the caps under an in-process reload, which keeps the rings,
and the properties of the composition of `Runtime` with `Sched`, whose runtime orders
are a budget there.

## 6. Where the code and its documentation disagree

Shown by runs that end in a violation:

* `store_staging`: the live directory of a runtime name holds the marker
  `.autocert-runtime`, which is not among the files `rm_staging_at` removes. After the
  first renewal the exchanged old directory stays behind as `<name>.tmp`, and
  `mkdirat` of the second renewal, and of every later one, fails on it. The comment
  on the removal says that it removes every file that can be left there because "a
  leftover file keeps rmdir failing and blocks the next renewal's mkdirat".
  `Converges` excepts these names; win32, which publishes file by file, is not
  affected.
* `order_inline`: `new_order` reads `order->on_new_order` after `account_post` has returned
  NGX_OK. When the CA's address is at hand (a literal, or cached by the resolver) and
  the connection or handshake fails at once, the POST is completed inside that call,
  the order ends, and `order_complete` frees it and the pool the struct is in: the field
  is read from freed memory, and what is found there decides whether anything is
  called. `acme.c:822`: "Callers must therefore treat completion as signalled by the
  handler, not by the return value of ngx_autocert_acme_request()." The other
  steps of the flow return what `account_post` returned, or look at a failure only.

Stated in the modules and refuted by TLC when added to the configuration named:

* `PendingEnds` (`runtime_live.cfg` with one host, the only fault "crash" and TTL 1): a lost
  completion leaves a node PENDING; `requests.c:711` "Protect it for the TTL, not forever", but
  `ensure` refreshes the idle clock of any node, so a consumer that re-asserts its host,
  as the README asks, keeps it.
* `RenewalKeepsServed` (`runtime_faults.cfg` with LIFE 3): the renewal scan sets a due
  name back to REQUESTED, and the certificate callback serves a runtime name only
  while it is ISSUED, so a renewal takes a live name back to the bootstrap
  certificate. (`serve.c:1014`, "we keep serving the last-good cert rather than dropping
  to the bootstrap one", is reached only after that test.)
* `OneFlow` (`sched_faults.cfg`): a dead CA is retried by a timer that does not look at
  the order in flight, so an account bootstrap and an order have requests pending
  together; `acme.c:64` keeps one in-flight pointer because there is "exactly one
  ACME flow". The pointer then names only the request started last, and a reload
  cancels only that one. `InflightExact` is checked for one flow at a time.

* `CoveredHasCert` (`runtime_faults.cfg`): before the dedupe `driver.c:1890` says "Only
  report ISSUED if a valid cert is actually on disk", and the test is `!name_due`. But
  `cert_read_due` (`driver.c:1312`) makes a file that cannot be read now (no descriptors, no
  permission, an I/O error) not due as well, so that no order is spent on it. A read
  error at that moment reports ISSUED for a host that has no certificate, and the
  renewal scan does not look at covered hosts. For the other caller, the seed walk,
  the answer does no harm: its marker says that the certificate was stored.
  `IssuedHasCert` excepts just this (`Misread`).

Further observations, made while modelling:

* `dns_hook_timer` polls its child every 20 ms with no last try (`order.c:1418`). A hook that
  SIGKILL does not end therefore keeps its order, and the one order slot of the driver,
  until it goes or the configuration is reloaded; `order_free` then leaves the child
  to the orphan reaper. `OrderEnds` names it as the only way an order stays in flight;
  without that alternative TLC finds the behaviour.
* Hooks. When the last orphan is reaped SIGCHLD is unblocked even if a later order's
  hook child is outstanding, contrary to `order.c:1190` ("SIGCHLD stays blocked in this
  worker while the raw child is outstanding"); nginx may then take its status, and
  the order fails (`HooksInOrder` holds: an unknown status never counts as done). An
  order that spawned while SIGCHLD was blocked for an orphan puts that mask back at
  its end, and SIGCHLD stays blocked until another orphan is reaped. A reload stops
  the orphan timer, which only the next orphan starts again. A reload or exit
  removes the challenge answers in shared memory but not the TXT record, and after
  a crash http-01 tokens stay in the map.
* A crash while the account key is being written leaves a file that every later
  registration refuses; it has to be removed by hand.
* The read event is armed with the read handler before anything is sent, but its
  buffer is allocated when all is sent (`acme.c:1089` reads through NULL if a peer
  makes the connection readable earlier); `AcmeClient` counts it among the crashes.
* The marker that stays in `<name>.tmp` is also found by the seed walk, which goes by
  the host written in the marker and not by the directory's name: after a restart
  a name that `gc` evicted, with its marker in the live directory, comes back.
* `win32.h:461` says that every caller of the directory fsync treats it as best effort;
  `order.c:3448` says "NOT best-effort", and a failure does end the order. The pair
  is in place by then: the order counts as failed and the next sweep finds it fresh.
* `requests.h:316` and `driver.c:2045` say that `gc` skips PENDING nodes; it evicts them
  after the TTL, in the pump that launched the order too, since `drain` does not
  touch `last_seen`. The completion is then written nowhere; the certificate is
  stored and found again at the next request.
* The seed walk leaves out names whose certificate is due but valid, so such a name
  is not served after a restart until it is asked for again; the README says a
  restart does not strand a previously issued name.
* `loadcap.h:42` says only names denied in an earlier second use the reserve; a
  denial counts at once. The starvation bound of `loadcap.h:71`, D < (G + 2R) / n, is
  not met at limit 3 with two key types, where the reserve is less than a batch.
  `DeferredServed` states the bound in whole batches, and with it the code is right.
* The lock file is in the store, so a reload that changes `autocert_store_path` lets
  the retiring and the new worker 0 drive at once until the old one is gone.
* Rate-cap rings and config back-off are kept in the process and start anew with
  the next worker 0. `fail_count` is never reset by a success. A Retry-After of 0
  makes a failed node eligible at once. Holds of runtime nodes do not enter the
  rearm interval, so a held host may wait for the next sweep. `driver.c:891` speaks
  of LRU eviction; a slot whose window still binds is never evicted. A hard error
  of the relock timer ends the attempts of that process.
