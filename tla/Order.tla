------------------------------- MODULE Order -------------------------------
(***************************************************************************)
(* The order flow of worker 0, src/src/ngx_autocert_order.c, from the      *)
(* driver's launch (ngx_autocert_driver.c) to the completion that frees    *)
(* it: the ACME steps over the signed POST of Account.tla, the challenge   *)
(* answers in shared memory (ngx_autocert_challenge.c, _alpn.c), the       *)
(* dns-01 hooks run as child processes and their orphans, the key          *)
(* generated on a thread, and what a reload, an exit and a crash leave.    *)
(* All orders are for one name, the case in which they can disturb each    *)
(* other; the store of the certificate is Store.tla.                       *)
(*                                                                         *)
(* The event loop runs one handler at a time and to its end.  An operator  *)
(* that takes c is a piece of a handler: c is the state as the handler has *)
(* left it so far, Now what it finds, and Return(c) ends it.  Meanwhile    *)
(* the key thread, the hook children and the CA go on by themselves.       *)
(***************************************************************************)
EXTENDS Account

CONSTANTS
  MaxOrders,    \* bound: orders started
  POLL_MAX,     \* NGX_AUTOCERT_ORDER_POLL_MAX and _FIN_POLL_MAX
  ORPHAN_MAX,   \* NGX_AUTOCERT_ORPHAN_MAX
  Kinds,        \* kinds of orders: challenge, RSA key or not, runtime name
  Platforms,    \* "posix", "win32"
  Faults        \* "reload", "exit", "crash"

ASSUME OrderAssumption ==
  /\ {MaxOrders, POLL_MAX, ORPHAN_MAX} \subseteq Nat \ {0}
  /\ Kinds \subseteq [mode : {"http", "alpn", "dns"}, rsa : BOOLEAN,
                     runtime : BOOLEAN]
  /\ Platforms \subseteq {"posix", "win32"}
  /\ Faults \subseteq {"reload", "exit", "crash"}

VARIABLES
  platform,  \* what the module was built for
  ord,       \* ngx_autocert_order and what it points to, or NoOrder
  frame,     \* the order whose new_order() call has not returned, or 0
  kg,        \* ngx_autocert_keygen, the slot of the key thread
  child,     \* hook processes: what the kernel knows of each
  masked,    \* SIGCHLD is blocked in worker 0
  orphans,   \* ngx_autocert_orphans: children of freed orders
  tokens,    \* shared memory: http-01 answers, by the order they are for
  alpn,      \* shared memory: the name's tls-alpn-01 answer, 0 for none
  cert,      \* disk: the order whose certificate is stored, 0 for none
  ended,     \* history: how each order ended
  calls,     \* history: calls of its completion handler
  counted,   \* history: orders that on_new_order was called for
  added,     \* history: orders whose add hook ended with status 0
  tried,     \* history: orders whose remove hook was called for
  uaf        \* history: memory of a freed order was read

flow == <<ord, frame, kg, child, masked, orphans, tokens, alpn, cert, ended,
          calls, counted, added, tried, uaf>>
vars == <<accountVars, platform, flow>>

-----------------------------------------------------------------------------
Orders == 1 .. MaxOrders
Hooks == Orders \X {"add", "remove"}
Dead == {"exit0", "exit1", "reaped"}

NoOrder == [id |-> 0]

(* The order of start_order_for as order_start resets it; a runtime name is  *)
(* never validated by DNS.                                                   *)
NewOrder(o, kind) ==
  [id |-> o, rsa |-> kind.rsa, runtime |-> kind.runtime,
   mode |-> IF kind.runtime /\ kind.mode = "dns" THEN "http" ELSE kind.mode,
   done |-> FALSE, set |-> FALSE, dns_set |-> FALSE,
   hook |-> "none", is_add |-> FALSE, cleanup |-> FALSE,
   after_authz |-> FALSE, timed_out |-> FALSE, mask |-> FALSE,
   finish_rc |-> "none", poll_tries |-> 0, order_poll_tries |-> 0,
   finalize_retried |-> FALSE, download_retried |-> FALSE, cert_key |-> 0]

KgIdle == [busy |-> FALSE, order |-> 0, by |-> 0, key |-> "none"]

Now == [ord |-> ord, pend |-> pend, acct |-> acct, kg |-> kg, child |-> child,
        masked |-> masked, orphans |-> orphans, tokens |-> tokens,
        alpn |-> alpn, cert |-> cert, ended |-> ended, calls |-> calls,
        frame |-> frame, added |-> added, tried |-> tried]

(* The handler returns to the event loop.  (The singleton makes TLC compute  *)
(* the state once.)                                                          *)
Return(result) ==
  \E c \in {result} :
    /\ ord' = c.ord /\ pend' = c.pend /\ acct' = c.acct /\ kg' = c.kg
    /\ child' = c.child /\ masked' = c.masked /\ orphans' = c.orphans
    /\ tokens' = c.tokens /\ alpn' = c.alpn /\ cert' = c.cert
    /\ ended' = c.ended /\ calls' = c.calls /\ frame' = c.frame
    /\ added' = c.added /\ tried' = c.tried
    /\ UNCHANGED <<platform, keyfile, counted, uaf>>

Timer(c, k) == [c EXCEPT !.pend = @ \cup {Event(k, c.ord.id)}]
DelTimers(c, ks) == [c EXCEPT !.pend = {e \in @ : e.k \notin ks}]
FlowTimers == {"poll_timer", "order_timer", "delay_timer"}
HookTimers == {"hook_timer", "deadline_timer"}

-----------------------------------------------------------------------------
(* The answers in shared memory *)

(* ngx_autocert_challenge_set, _remove and _get: token -> key authorization, *)
(* a set replaces, a remove of what is not there does nothing.               *)
challenge_set(c) == [c EXCEPT !.tokens = @ \cup {c.ord.id}, !.ord.set = TRUE]
challenge_remove(c) ==
  [c EXCEPT !.tokens = @ \ {c.ord.id}, !.ord.set = FALSE]
challenge_get(o) == o \in tokens

(* ngx_autocert_alpn_set, _remove and _get: name -> challenge certificate. *)
alpn_set(c) == [c EXCEPT !.alpn = c.ord.id, !.ord.set = TRUE]
alpn_remove(c) == [c EXCEPT !.alpn = 0, !.ord.set = FALSE]
alpn_get(o) == alpn = o

(* MUTANT: the answers stay. *)
unpublish_Not(c) == [c EXCEPT !.ord.set = FALSE, !.ord.dns_set = FALSE]

(* order_unpublish; of a dns-01 answer only the flag is dropped. *)
unpublish(c) ==
  LET d == IF ~c.ord.set THEN c
           ELSE IF c.ord.mode = "http" THEN challenge_remove(c)
           ELSE alpn_remove(c)
  IN  [d EXCEPT !.ord.dns_set = FALSE]

-----------------------------------------------------------------------------
(* Hook children *)

(* dns_hook_spawn: the child runs; on posix SIGCHLD is blocked, and the mask *)
(* found is kept.                                                            *)
dns_hook_spawn(c, h) ==
  [c EXCEPT !.child[<<c.ord.id, h>>] = "running",
            !.ord.mask = c.masked,
            !.masked = (platform = "posix")]

(* dns_hook, NGX_AGAIN: the exit of the child is polled, with a deadline. *)
dns_hook(c, h) ==
  LET d == [dns_hook_spawn(c, h) EXCEPT !.ord.hook = h,
                                        !.ord.is_add = (h = "add"),
                                        !.ord.timed_out = FALSE]
  IN  Timer(Timer(d, "hook_timer"), "deadline_timer")

Killed(st) == IF st = "running" THEN "killed" ELSE st

(* MUTANT: the table is taken to be as large as needed. *)
orphan_hook_Unbounded(c) ==
  LET p == <<c.ord.id, c.ord.hook>>
  IN  IF c.ord.hook = "none" THEN c
      ELSE [c EXCEPT !.child[p] = Killed(@), !.ord.hook = "none",
                     !.orphans = @ \cup {p},
                     !.pend = @ \cup {Event("orphan_timer", 0)}]

(* order_orphan_hook: the child is killed and left to the orphan table; a    *)
(* full table leaves it to a single try.  On win32 the job is ended.         *)
orphan_hook(c) ==
  LET p == <<c.ord.id, c.ord.hook>>
      k == [c EXCEPT !.child[p] = Killed(@), !.ord.hook = "none"]
  IN  IF c.ord.hook = "none" THEN c
      ELSE IF platform = "win32"
        THEN [k EXCEPT !.child[p] = "reaped"]
      ELSE IF Cardinality(c.orphans) < ORPHAN_MAX
        THEN [k EXCEPT !.orphans = @ \cup {p},
                       !.pend = @ \cup {Event("orphan_timer", 0)}]
      ELSE [k EXCEPT !.child[p] = IF @ \in Dead THEN "reaped" ELSE @]

(* MUTANT: the key thread keeps its pointer to the order. *)
keygen_abandon_Not(c) == c

(* keygen_abandon: a task in flight forgets the order. *)
keygen_abandon(c) ==
  IF c.kg.busy /\ c.kg.order = c.ord.id THEN [c EXCEPT !.kg.order = 0] ELSE c

(* order_free, and the pool that holds the order. *)
order_free(c) ==
  [keygen_abandon(DelTimers(unpublish(DelTimers(orphan_hook(c), HookTimers)),
                            FlowTimers))
     EXCEPT !.ord = NoOrder]

(* order->handler = order_complete: the outcome is recorded (Runtime.tla,    *)
(* Sched.tla) and the order freed.                                           *)
Complete(c, rc) ==
  Return(order_free([c EXCEPT !.ended[c.ord.id] = rc,
                              !.calls[c.ord.id] = @ + 1]))

(* The remove hook is called for. *)
Removing(c) == [c EXCEPT !.tried = @ \cup {c.ord.id}]

(* order_finish: a dns-01 record that may be there is removed first; if the  *)
(* hook starts, the handler is called when it has ended.                     *)
finish(c, rc) ==
  LET d == DelTimers([c EXCEPT !.ord.done = TRUE], FlowTimers)
  IN  IF c.ord.done THEN Return(c)
      ELSE IF d.ord.dns_set
        THEN \/ Return(dns_hook([Removing(d) EXCEPT !.ord.cleanup = TRUE,
                                                   !.ord.finish_rc = rc],
                               "remove"))
             \/ Complete(unpublish(Removing(d)), rc)
      ELSE Complete(unpublish(d), rc)

-----------------------------------------------------------------------------
(* The steps of the flow: each sends its POST or ends the order. *)

post(c, k) ==
  \/ /\ CanPost(c.acct)
     /\ Return([c EXCEPT !.acct = account_post(@, k, c.ord.id),
                         !.pend = @ \cup {Event("post", c.ord.id)}])
  \/ finish(c, "failed")

(* finalize_csr *)
finalize_csr(c) == post(c, "finalize")

(* keygen_inline *)
keygen_inline(c) ==
  \/ finalize_csr([c EXCEPT !.ord.cert_key = c.ord.id])
  \/ finish(c, "failed")

(* keygen_post: inline if the task of a freed order still runs, if there is  *)
(* no pool, and if the task cannot be posted.                                *)
keygen_post(c) ==
  IF c.kg.busy /\ c.kg.order # 0 THEN finish(c, "failed")
  ELSE \/ keygen_inline(c)
       \/ /\ ~c.kg.busy
          /\ Return([c EXCEPT !.kg = [KgIdle EXCEPT !.busy = TRUE,
                                                    !.order = c.ord.id,
                                                    !.by = c.ord.id]])

(* order_finalize: a key of an earlier try is freed; RSA goes to the thread  *)
(* where there are threads.                                                  *)
finalize(c) ==
  LET d == [c EXCEPT !.ord.cert_key = 0]
  IN  IF d.ord.rsa /\ platform = "posix" THEN keygen_post(d)
      ELSE keygen_inline(d)

(* publish_alpn, challenge_set and respond; publish_dns starts the add hook. *)
publish(c) ==
  CASE c.ord.mode = "dns" ->
         LET d == [c EXCEPT !.ord.dns_set = TRUE]
         IN  Return(dns_hook(d, "add")) \/ finish(d, "failed")
    [] c.ord.mode = "http" -> post(challenge_set(c), "respond")
    [] c.ord.mode = "alpn" -> post(alpn_set(c), "respond")

(* poll_done, valid: the answer is taken back, then the order is finalized.  *)
authorized(c) ==
  IF c.ord.dns_set
  THEN \/ Return(dns_hook([Removing(c) EXCEPT !.ord.after_authz = TRUE],
                         "remove"))
       \/ finalize([Removing(c) EXCEPT !.ord.dns_set = FALSE])
  ELSE finalize(unpublish(c))

(* MUTANT: a hook whose status is unknown counts as done. *)
hook_done_Trusts(c, rc) ==
  LET d == DelTimers([c EXCEPT !.ord.hook = "none"], HookTimers)
  IN  IF d.ord.is_add THEN Return(Timer(d, "delay_timer"))
      ELSE IF d.ord.after_authz
        THEN finalize([d EXCEPT !.ord.after_authz = FALSE,
                                !.ord.dns_set = FALSE])
      ELSE Complete([d EXCEPT !.ord.dns_set = FALSE], d.ord.finish_rc)

(* dns_hook_done and dns_delay_start: after the add hook the propagation     *)
(* delay; after a remove hook, however it ended, what it was started for.    *)
hook_done(c, rc) ==
  LET d == DelTimers([c EXCEPT !.ord.hook = "none"], HookTimers)
      r == [d EXCEPT !.ord.dns_set = FALSE]
  IN  IF d.ord.is_add
        THEN IF rc # "ok" THEN finish(d, "failed")
             ELSE Return(Timer(d, "delay_timer"))
      ELSE IF d.ord.after_authz
        THEN finalize([r EXCEPT !.ord.after_authz = FALSE])
      ELSE IF d.ord.cleanup
        THEN Complete([r EXCEPT !.ord.cleanup = FALSE], d.ord.finish_rc)
      ELSE Return(r)

-----------------------------------------------------------------------------
(* What the CA can answer to each POST, as far as the handler tells it       *)
(* apart; Lost is what a failed transport or a failed retry looks like.      *)
Answers(k) ==
  CASE k = "authz" -> {"valid", "ok", "bad"}
    [] k = "poll" -> {"valid", "again", "bad"}
    [] k = "finalize" -> {"ok", "early", "bad"}
    [] k = "orderPoll" -> {"valid", "ready", "again", "bad"}
    [] k = "download" -> {"ok", "again", "bad"}
    [] OTHER -> {"ok", "bad"}

Lost(k) == IF k \in {"orderPoll", "download"} THEN "again" ELSE "bad"

(* new_order_done *)
new_order_done(c, ans) ==
  IF ans = "ok" THEN post(c, "authz") ELSE finish(c, "failed")

(* authz_done: an authorization the CA still holds valid skips the           *)
(* challenge.                                                                *)
authz_done(c, ans) ==
  CASE ans = "valid" -> finalize(c)
    [] ans = "ok" -> publish(c) \/ finish(c, "failed")
    [] ans = "bad" -> finish(c, "failed")

(* respond_done: 200, 202 and 400 go on to poll. *)
respond_done(c, ans) ==
  IF ans = "ok" THEN Return(Timer(c, "poll_timer")) ELSE finish(c, "failed")

(* poll_done *)
poll_done(c, ans) ==
  CASE ans = "valid" -> authorized(c)
    [] ans = "again" -> Return(Timer(c, "poll_timer"))
    [] ans = "bad" -> finish(c, "failed")

(* finalize_done: 400 and 403 may mean too early; after the retry they do    *)
(* not.                                                                      *)
finalize_done(c, ans) ==
  IF ans = "ok" \/ (ans = "early" /\ ~c.ord.finalize_retried)
  THEN Return(Timer(c, "order_timer"))
  ELSE finish(c, "failed")

(* poll_order_done: pending, processing and no usable answer poll again. *)
poll_order_done(c, ans) ==
  CASE ans = "valid" -> post(c, "download")
    [] ans = "ready" ->
         IF c.ord.finalize_retried THEN finish(c, "failed")
         ELSE finalize([c EXCEPT !.ord.finalize_retried = TRUE])
    [] ans = "again" -> Return(Timer(c, "order_timer"))
    [] ans = "bad" -> finish(c, "failed")

(* MUTANT: the retry of a download is not remembered. *)
download_done_Forgets(c, ans) ==
  CASE ans = "ok" -> finish([c EXCEPT !.cert = c.ord.id], "ok")
    [] ans = "again" ->
         Return(Timer([c EXCEPT !.ord.order_poll_tries = 0], "order_timer"))
    [] ans = "bad" -> finish(c, "failed")

(* The certificate of the order is in place. *)
Stored(c) == [c EXCEPT !.cert = c.ord.id]

(* MUTANT: what order_store returns is not looked at. *)
download_done_Ignores(c, ans) ==
  CASE ans = "ok" -> finish(Stored(c), "ok") \/ finish(c, "ok")
    [] ans = "again" /\ ~c.ord.download_retried ->
         Return(Timer([c EXCEPT !.ord.download_retried = TRUE,
                                !.ord.order_poll_tries = 0], "order_timer"))
    [] OTHER -> finish(c, "failed")

(* download_done: a chain that validate_cert accepts and order_store stores  *)
(* ends the order well; one failed transfer goes back to polling.  If only   *)
(* the last fsync of order_store fails, the order fails with its certificate *)
(* in place.                                                                 *)
download_done(c, ans) ==
  CASE ans = "ok" ->
         finish(Stored(c), "ok") \/ finish(c, "failed")
                                 \/ finish(Stored(c), "failed")
    [] ans = "again" /\ ~c.ord.download_retried ->
         Return(Timer([c EXCEPT !.ord.download_retried = TRUE,
                                !.ord.order_poll_tries = 0], "order_timer"))
    [] OTHER -> finish(c, "failed")

(* post_handler of the POST that was answered. *)
handler(c, k, ans) ==
  CASE k = "newOrder" -> new_order_done(c, ans)
    [] k = "authz" -> authz_done(c, ans)
    [] k = "respond" -> respond_done(c, ans)
    [] k = "poll" -> poll_done(c, ans)
    [] k = "finalize" -> finalize_done(c, ans)
    [] k = "orderPoll" -> poll_order_done(c, ans)
    [] k = "download" -> download_done(c, ans)

-----------------------------------------------------------------------------
(* The event loop *)

(* e is due and the loop takes it. *)
Due(e, k) == frame = 0 /\ e \in pend /\ e.k = k
Taken(e) == [Now EXCEPT !.pend = @ \ {e}]

(* start_order_for and order_start: the directory is requested.  (A launch   *)
(* that is refused leaves nothing; Runtime.tla and Sched.tla have it.)  The  *)
(* driver also launches from within the completion of the order before.      *)
StartOrder ==
  \E o \in Orders, kind \in Kinds :
    /\ ord = NoOrder /\ acct.st = "ready"
    /\ ended[o] = "unused" /\ \A p \in 1 .. (o - 1) : ended[p] # "unused"
    /\ Return([Now EXCEPT !.ord = NewOrder(o, kind),
                          !.pend = @ \cup {Event("directory", o)}])

(* directory_done and new_order: the newOrder POST; the call is counted      *)
(* when it returns.  A request that is completed before the call that starts *)
(* it returns has failed.                                                    *)
DirectoryDone ==
  \E e \in pend :
    /\ e.k = "directory"
    /\ LET c == Taken(e)
       IN  \/ /\ frame = 0 /\ CanPost(acct)
              /\ Return([c EXCEPT !.acct = account_post(@, "newOrder", e.o),
                                  !.pend = @ \cup {Event("post", e.o)},
                                  !.frame = e.o])
           \/ finish(c, "failed")

(* The end of new_order: order->on_new_order is read.  If the POST was       *)
(* completed inside the call the order has been freed, and what is read from *)
(* its memory decides whether anything is counted.                           *)
ReturnNewOrder ==
  /\ frame # 0
  /\ IF ord.id = frame
     THEN /\ counted' = IF ord.runtime THEN counted \cup {frame} ELSE counted
          /\ UNCHANGED uaf
     ELSE /\ counted' \in {counted, counted \cup {frame}}
          /\ uaf' = TRUE
  /\ frame' = 0
  /\ UNCHANGED <<accountVars, platform, ord, kg, child, masked, orphans,
                 tokens, alpn, cert, ended, calls, added, tried>>

(* post_done: the answer goes to the handler of the POST; in the call that   *)
(* started it only a failure can arrive.                                     *)
PostDone ==
  \E e \in pend, n \in {acct.nonce, "fresh"} :
    /\ e.k = "post"
    /\ \E ans \in IF frame = 0 THEN Answers(acct.post.k) ELSE {"bad"} :
         handler([Taken(e) EXCEPT !.acct = delivered(set_nonce(@, n))],
                 acct.post.k, ans)

(* post_fail: no nonce came for the retry, or the POST could not be sent     *)
(* again: the handler gets the failure kept for it, with no answer.          *)
PostFail ==
  \E e \in pend :
    /\ frame = 0 /\ e.k \in {"post", "renonce"}
    /\ handler([Taken(e) EXCEPT !.acct = delivered(@)], acct.post.k,
               Lost(acct.post.k))

(* poll_timer *)
PollTimer ==
  \E e \in pend :
    /\ Due(e, "poll_timer")
    /\ LET c == [Taken(e) EXCEPT !.ord.poll_tries = @ + 1]
       IN  IF c.ord.poll_tries > POLL_MAX THEN finish(c, "failed")
           ELSE post(c, "poll")

(* poll_order_timer *)
OrderTimer ==
  \E e \in pend :
    /\ Due(e, "order_timer")
    /\ LET c == [Taken(e) EXCEPT !.ord.order_poll_tries = @ + 1]
       IN  IF c.ord.order_poll_tries > POLL_MAX THEN finish(c, "failed")
           ELSE post(c, "orderPoll")

(* dns_delay_timer and respond *)
DelayTimer ==
  \E e \in pend : Due(e, "delay_timer") /\ post(Taken(e), "respond")

(* dns_hook_timer: a child that still runs is polled again.  waitpid() says  *)
(* how it ended, or that nginx's own handler was faster; the signal mask is  *)
(* put back as the spawn found it.                                           *)
HookTimer ==
  \E e \in pend :
    LET p == <<ord.id, ord.hook>>
        c == [Taken(e) EXCEPT
                !.child[p] = "reaped",
                !.masked = IF platform = "posix" THEN ord.mask ELSE @]
        ok == /\ child[p] = "exit0"
              /\ platform = "win32" => ~ord.timed_out
    IN  /\ Due(e, "hook_timer")
        /\ child[p] \in Dead
        /\ hook_done(c, IF ok THEN "ok" ELSE "failed")

(* dns_hook_deadline *)
DeadlineTimer ==
  \E e \in pend :
    /\ Due(e, "deadline_timer")
    /\ Return([Taken(e) EXCEPT !.ord.timed_out = TRUE,
                               !.child[<<ord.id, ord.hook>>] = Killed(@)])

(* orphan_timer_handler and orphan_reap: SIGCHLD is let through when the     *)
(* last orphan is gone.                                                      *)
OrphanTimer ==
  \E e \in pend :
    LET gone == {p \in orphans : child[p] \in Dead}
        left == orphans \ gone
    IN  /\ Due(e, "orphan_timer")
        /\ Return([Now EXCEPT
             !.child = [p \in Hooks |-> IF p \in gone THEN "reaped" ELSE @[p]],
             !.orphans = left,
             !.masked = IF left = {} THEN FALSE ELSE @,
             !.pend = IF left = {} THEN @ \ {e} ELSE @])

(* keygen_completion: the slot is free before the flow goes on. *)
KeygenCompletion ==
  /\ frame = 0 /\ kg.busy /\ kg.key # "none"
  /\ LET c == [Now EXCEPT !.kg = KgIdle]
     IN  IF kg.order = 0 THEN Return(c)
         ELSE IF kg.key = "failed" THEN finish(c, "failed")
         ELSE finalize_csr([c EXCEPT !.ord.cert_key = kg.by])

-----------------------------------------------------------------------------
(* Outside the event loop *)

(* keygen_thread *)
KeygenThread ==
  /\ kg.busy /\ kg.key = "none"
  /\ \E r \in {"ok", "failed"} : Return([Now EXCEPT !.kg.key = r])

(* A hook ends by itself, or is ended by SIGKILL, unless it is wedged in     *)
(* uninterruptible I/O.                                                      *)
ChildExits ==
  \E p \in Hooks :
    /\ child[p] = "running"
    /\ \E r \in {"exit0", "exit1"} :
         Return([Now EXCEPT !.child[p] = r,
                            !.added = IF r = "exit0" /\ p[2] = "add"
                                      THEN @ \cup {p[1]} ELSE @])

KilledDies ==
  \E p \in Hooks :
    child[p] = "killed" /\ Return([Now EXCEPT !.child[p] = "exit1"])

(* nginx's SIGCHLD handler waits for every child. *)
NginxReaps ==
  /\ platform = "posix" /\ ~masked
  /\ \E p \in Hooks : child[p] \in {"exit0", "exit1"}
  /\ Return([Now EXCEPT !.child =
       [p \in Hooks |-> IF @[p] \in Dead THEN "reaped" ELSE @[p]]])

(* drop_order and drop_ca_states after acme_cancel_inflight: no request of   *)
(* the order is left, its handler is not called, the account is gone.        *)
Dropped(c) ==
  LET d == [c EXCEPT !.acct = NoAccount,
                     !.pend = {e \in @ : e.k \notin Registration \cup
                                 {"directory", "post", "renonce"}}]
  IN  IF d.ord = NoOrder THEN d
      ELSE order_free([d EXCEPT !.ended[d.ord.id] = "dropped"])

(* driver_reload, in the process that goes on (posix): the timer of the      *)
(* orphans is stopped first and comes back with the next orphan.             *)
Reload ==
  /\ "reload" \in Faults /\ platform = "posix" /\ frame = 0
  /\ Return(Dropped(DelTimers(Now, {"orphan_timer"})))

(* What a new process starts with; init takes the children over. *)
NewProcess(c) ==
  [c EXCEPT !.pend = {}, !.kg = KgIdle, !.masked = FALSE, !.orphans = {},
            !.acct = NoAccount, !.ord = NoOrder, !.frame = 0,
            !.child = [p \in Hooks |-> IF @[p] = "none" THEN @[p]
                                       ELSE "reaped"]]

(* driver_exit_process, and the next worker 0. *)
Exit ==
  /\ "exit" \in Faults /\ frame = 0
  /\ Return(NewProcess(Dropped(Now)))

(* The answer to the download has come, and may be being stored. *)
Storing == acct.post.k = "download" /\ \E e \in pend : e.k = "post"

(* Worker 0 dies: shared memory and disk stay as they are, an account key    *)
(* that was being written half written.  In the middle of download_done the  *)
(* certificate may be in place and the handler not called yet.               *)
Crash ==
  LET c == NewProcess(Now)
  IN  /\ "crash" \in Faults
      /\ ord' = c.ord /\ pend' = c.pend /\ acct' = c.acct /\ kg' = c.kg
      /\ child' = c.child /\ masked' = c.masked /\ orphans' = c.orphans
      /\ frame' = 0
      /\ ended' = [o \in Orders |-> IF o = ord.id THEN "died" ELSE ended[o]]
      /\ cert' \in {cert} \cup (IF Storing THEN {ord.id} ELSE {})
      /\ \/ UNCHANGED keyfile
         \/ SaveInterrupted
      /\ UNCHANGED <<platform, tokens, alpn, calls, counted, added, tried, uaf>>

-----------------------------------------------------------------------------
Init ==
  /\ platform \in Platforms
  /\ acct = NoAccount /\ pend = {} /\ keyfile = "absent"
  /\ ord = NoOrder /\ frame = 0 /\ kg = KgIdle
  /\ child = [p \in Hooks |-> "none"] /\ masked = FALSE /\ orphans = {}
  /\ tokens = {} /\ alpn = 0 /\ cert = 0
  /\ ended = [o \in Orders |-> "unused"] /\ calls = [o \in Orders |-> 0]
  /\ counted = {} /\ added = {} /\ tried = {} /\ uaf = FALSE

EventLoop ==
  \/ frame = 0 /\ (AccountStep \/ PostStep) /\ UNCHANGED <<platform, flow>>
  \/ StartOrder \/ DirectoryDone \/ ReturnNewOrder \/ PostDone \/ PostFail
  \/ PollTimer \/ OrderTimer \/ DelayTimer \/ HookTimer \/ DeadlineTimer
  \/ OrphanTimer \/ KeygenCompletion

Next ==
  \/ EventLoop
  \/ KeygenThread \/ ChildExits \/ KilledDies \/ NginxReaps
  \/ Reload \/ Exit \/ Crash

Spec == Init /\ [][Next]_vars

(* The loop serves what is due: requests are completed (AcmeClient.tla),     *)
(* timers fire.  The thread ends its search.  Nothing is assumed of hooks: a *)
(* child wedged in the kernel does not die on SIGKILL.                       *)
FairSpec == Spec /\ WF_vars(EventLoop) /\ WF_vars(KeygenThread)

-----------------------------------------------------------------------------
(* Properties *)

TypeOK ==
  /\ AccountTypeOK
  /\ pend \subseteq [k : Registration \cup {"directory", "post", "renonce",
                        "orphan_timer"} \cup FlowTimers \cup HookTimers,
                     o : 0 .. MaxOrders]
  /\ platform \in Platforms
  /\ frame \in 0 .. MaxOrders
  /\ ord \in {NoOrder} \cup
       [id : Orders, mode : {"http", "alpn", "dns"}, rsa : BOOLEAN,
        runtime : BOOLEAN, done : BOOLEAN, set : BOOLEAN, dns_set : BOOLEAN,
        hook : {"none", "add", "remove"}, is_add : BOOLEAN,
        cleanup : BOOLEAN, after_authz : BOOLEAN, timed_out : BOOLEAN,
        mask : BOOLEAN, finish_rc : {"none", "ok", "failed"},
        poll_tries : 0 .. POLL_MAX + 1, order_poll_tries : 0 .. POLL_MAX + 1,
        finalize_retried : BOOLEAN, download_retried : BOOLEAN,
        cert_key : 0 .. MaxOrders]
  /\ kg \in [busy : BOOLEAN, order : 0 .. MaxOrders, by : 0 .. MaxOrders,
             key : {"none", "ok", "failed"}]
  /\ child \in [Hooks -> {"none", "running", "killed"} \cup Dead]
  /\ masked \in BOOLEAN /\ orphans \subseteq Hooks
  /\ Cardinality(orphans) <= ORPHAN_MAX
  /\ tokens \subseteq Orders /\ {alpn, cert} \subseteq 0 .. MaxOrders
  /\ ended \in [Orders -> {"unused", "ok", "failed", "dropped", "died"}]
  /\ calls \in [Orders -> Nat]
  /\ counted \subseteq Orders /\ added \subseteq Orders /\ tried \subseteq Orders
  /\ uaf \in BOOLEAN

Requests == {"directory", "post", "renonce"}
Alive == ord # NoOrder

(* The flow of an order never stops and never forks: exactly one thing will  *)
(* carry it on, a request, a timer, its hook child or the key thread, with   *)
(* the deadline only beside the hook; and the account's one POST slot is     *)
(* taken while a POST is in flight and free before the next is sent (the     *)
(* "concurrent kid-signed POST" that account_post rejects does not occur).   *)
OneContinuation ==
  LET events == {e \in pend : e.k \in Requests \cup FlowTimers
                                          \cup {"hook_timer"}}
      thread == kg.busy /\ kg.order # 0
  IN  /\ Alive => Cardinality(events) + (IF thread THEN 1 ELSE 0) = 1
      /\ Event("deadline_timer", ord.id) \in pend =>
           Event("hook_timer", ord.id) \in pend
      /\ acct.post # NoPost <=> \E e \in pend : e.k \in {"post", "renonce"}
      /\ \A e \in pend : e.k \in {"post", "renonce"} => acct.post.o = e.o

(* Nothing that will run later points to an order that was freed: no         *)
(* request, no timer, no hook and no key task, whatever ended the order.     *)
(* And the key an order puts in its request was made for it, although a task *)
(* of an order dropped before may still be running.                          *)
NoDangling ==
  /\ \A e \in pend : e.o \in {0, ord.id}
  /\ kg.order \in {0, ord.id}
  /\ acct.post.o \in {0, ord.id}
  /\ Alive => ord.cert_key \in {0, ord.id}

(* While the CA may be validating the name its answer is served, and once    *)
(* the order has ended it is not, by itself or dropped by a reload or an     *)
(* exit; only a worker that died leaves it.                                  *)
Validating ==
  Alive /\ (Event("poll_timer", ord.id) \in pend
              \/ acct.post.k \in {"respond", "poll"})

AnswerUp ==
  /\ Validating => CASE ord.mode = "http" -> challenge_get(ord.id)
                     [] ord.mode = "alpn" -> alpn_get(ord.id)
                     [] ord.mode = "dns" -> ord.dns_set
  /\ \A o \in Orders :
       ended[o] \in {"ok", "failed", "dropped"} =>
         ~challenge_get(o) /\ ~alpn_get(o)

(* The record of a dns-01 order: the CA is asked to look only after the      *)
(* order's own add hook ended with status 0, although nginx's SIGCHLD        *)
(* handler may take the status away; the remove hook is not started while    *)
(* the add hook runs; and an order that ended by itself has started it.      *)
HooksInOrder ==
  /\ Validating /\ ord.mode = "dns" => ord.id \in added
  /\ \A o \in Orders : child[<<o, "remove">>] # "none" =>
       child[<<o, "add">>] \in {"none", "reaped"}
  /\ \A o \in Orders :
       /\ ended[o] \in {"ok", "failed"}
       /\ child[<<o, "add">>] # "none"
       => o \in tried

(* A POST repeated after badNonce is signed with a nonce that was not used.  *)
RetryFresh ==
  (\E e \in pend : e.k = "post") /\ acct.post.retried => acct.post.fresh

(* The order flow implements its contract (Issuance.tla): orders run one at  *)
(* a time, the handler is called exactly once for each that is not dropped,  *)
(* the certificate changes only when an order ends, to the one of that       *)
(* order, and it does change when the handler is told of success.            *)
Contract == INSTANCE Issuance
  WITH Order <- Orders,
       phase <- [o \in Orders |-> IF o = ord.id THEN "running" ELSE ended[o]]

OrderContract == Contract!ASpec

(* The hook of the order was killed and does not die. *)
Wedged(o) ==
  /\ ord.id = o
  /\ ord.hook # "none"
  /\ child[<<o, ord.hook>>] = "killed"

(* Every order ends: no answer of the CA, no hook that hangs, no key task or *)
(* wedged hook of another order and no retry keeps it in flight for ever.    *)
(* Only its own hook can, when SIGKILL does not end it: dns_hook_timer has   *)
(* no last try.                                                              *)
OrderEnds ==
  \A o \in Orders : <>[]Wedged(o) \/ (ord.id = o ~> ord.id # o)

(* A call that starts a request does not touch its order afterwards, since   *)
(* the request may have been completed, and the order freed, in the call.    *)
NoUseAfterFree == ~uaf
=============================================================================
