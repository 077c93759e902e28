---------------------------- MODULE AcmeClient -----------------------------
(***************************************************************************)
(* The HTTPS client of worker 0, src/src/ngx_autocert_acme.c: one request  *)
(* from ngx_autocert_acme_request() over name resolution, connect, TLS     *)
(* handshake, sending and reading to the handler of its caller, with its   *)
(* timers, the in-flight pointer a reload cancels by, and completions that *)
(* happen inside the call that starts the request.                         *)
(*                                                                         *)
(* An operator that takes w is a piece of a handler: w is the client as    *)
(* the handler has left it so far.  It gives the set of clients it may     *)
(* leave, one for each outcome of the calls into nginx and OpenSSL; where  *)
(* the code has a return value, the set of pairs [w, rc].                  *)
(***************************************************************************)
EXTENDS Framing

CONSTANTS
  MaxRequests,  \* bound: requests made
  Replies,      \* what the CA may send
  SEND_LEN,     \* length of a request
  SEGMENT,      \* bound: bytes one recv() returns
  RECV_INIT,    \* NGX_AUTOCERT_RECV_INIT
  RECV_MAX,     \* NGX_AUTOCERT_RECV_MAX
  TIMEOUT,      \* client->timeout, the timer of each wait
  READ_TOTAL    \* NGX_AUTOCERT_READ_TOTAL

ASSUME AcmeAssumption ==
  /\ {MaxRequests, SEND_LEN, SEGMENT, RECV_INIT, RECV_MAX, TIMEOUT, READ_TOTAL}
       \subseteq Nat \ {0}
  /\ RECV_INIT <= RECV_MAX
  /\ Replies \subseteq Seq(STRING)

VARIABLES
  client,  \* the requests and the in-flight pointer
  frames   \* requests whose ngx_autocert_acme_request() has not returned

vars == <<client, frames>>

-----------------------------------------------------------------------------
Requests == 1 .. MaxRequests
None == 0

(* ngx_autocert_acme_request_t and what hangs on it.  phase is what the      *)
(* request waits for, timer the ticks until its timer expires, left those    *)
(* until read_deadline; sent and got count bytes, cap is the size of recv.   *)
NewRequest(i) ==
  [id |-> i, phase |-> "none", done |-> FALSE,
   resolve |-> FALSE, conn |-> FALSE, timer |-> NULL, left |-> 0,
   sent |-> 0, recv |-> FALSE, cap |-> RECV_INIT, reply |-> <<>>, got |-> 0,
   parse |-> Result(AGAIN, Unparsed), eof |-> FALSE]

(* inflight is ngx_autocert_acme_inflight, pools the requests whose memory   *)
(* is not freed, status and calls what their callers have been told.         *)
Idle ==
  [r |-> NewRequest(None), inflight |-> None, pools |-> {},
   status |-> [i \in Requests |-> "new"], calls |-> [i \in Requests |-> 0]]

Received(r) == SubSeq(r.reply, 1, r.got)

Ret(w, rc) == [w |-> w, rc |-> rc]
Clear(w) == [w EXCEPT !.inflight = IF @ = w.r.id THEN None ELSE @]
Close(w) == [w EXCEPT !.r.conn = FALSE, !.r.resolve = FALSE,
                      !.r.timer = NULL, !.r.phase = "none"]

(* The handler of the caller (account.c, order.c; what it does on its side   *)
(* is in Account.tla and Order.tla): it is told the result and destroys the  *)
(* request's pool.                                                           *)
handler(w, rc) ==
  [w EXCEPT !.status[w.r.id] = rc, !.calls[w.r.id] = @ + 1,
            !.pools = @ \ {w.r.id}]

(* ngx_autocert_acme_finalize *)
finalize(w, rc) ==
  IF w.r.done THEN w
  ELSE handler(Close(Clear([w EXCEPT !.r.done = TRUE])), rc)

Fail(w) == {finalize(w, "error")}

Wait(w, phase, ticks) ==
  [w EXCEPT !.r.phase = phase, !.r.timer = ticks]

Lesser(a, b) == IF a < b THEN a ELSE b

-----------------------------------------------------------------------------
(* ngx_autocert_acme_write_handler: some of the request is sent and the      *)
(* socket is full, sending fails, or all is sent: recv is allocated, the     *)
(* total read time begins and the read handler is entered.  At first the     *)
(* socket may be full already; a write event comes when it takes more.       *)
write_handler(w) ==
  LET least == IF w.r.phase = "sending" THEN w.r.sent + 1 ELSE 0
      blocked == {Wait([w EXCEPT !.r.sent = n], "sending", TIMEOUT) :
                    n \in least .. (SEND_LEN - 1)}
      all == Wait([w EXCEPT !.r.sent = SEND_LEN, !.r.recv = TRUE,
                            !.r.left = READ_TOTAL],
                  "recv", Lesser(READ_TOTAL, TIMEOUT))
  IN  blocked \cup Fail(w) \cup {all}

(* ngx_autocert_acme_ssl_handshake_handler: the handshake has timed out or   *)
(* failed, the certificate is not trusted or for another name, the request   *)
(* cannot be built; or it is built and sent.                                 *)
ssl_handshake_handler(w) ==
  Fail(w) \cup write_handler([w EXCEPT !.r.timer = NULL])

(* MUTANT: a handshake that fails at once is reported as a failed start. *)
ssl_init_Reports(w) ==
  {Ret(w, "error"), Ret(Wait(w, "handshaking", TIMEOUT), "ok")}
  \cup {Ret(v, IF v.r.done THEN "error" ELSE "ok") :
          v \in ssl_handshake_handler(w)}

(* ngx_autocert_acme_ssl_init: TLS cannot be set up, the handshake is under  *)
(* way, or it is over, well or not, and its handler is called here.          *)
ssl_init(w) ==
  {Ret(w, "error"), Ret(Wait(w, "handshaking", TIMEOUT), "ok")}
  \cup {Ret(v, "ok") : v \in ssl_handshake_handler(w)}

(* ngx_autocert_acme_connect: no connection, one under way, or one at once.  *)
connect(w) ==
  LET c == [w EXCEPT !.r.conn = TRUE, !.inflight = w.r.id]
  IN  {Ret(w, "error"), Ret(Wait(c, "connecting", TIMEOUT), "ok")}
      \cup {IF o.rc = "ok" THEN o ELSE Ret(Close(Clear(o.w)), "error") :
              o \in ssl_init(c)}

(* ngx_autocert_acme_connect_handler: timed out, not connected, or on to TLS *)
connect_handler(w) ==
  Fail(w) \cup {IF o.rc = "ok" THEN o.w ELSE finalize(o.w, "error") :
                  o \in ssl_init([w EXCEPT !.r.timer = NULL])}

(* ngx_autocert_acme_resolve_handler: no address, or one to connect to. *)
resolve_handler(w) ==
  LET d == [w EXCEPT !.r.resolve = FALSE]
  IN  Fail(d) \cup {IF o.rc = "ok" THEN o.w ELSE finalize(o.w, "error") :
                      o \in connect(d)}

(* MUTANT: the pointer is set once the resolver has taken the request. *)
start_resolve_Late(w) ==
  LET n == [w EXCEPT !.r.resolve = TRUE]
      Set(v) == [v EXCEPT !.inflight = w.r.id]
  IN  {Ret(Close(Clear(n)), "error"),
       Ret(Set(Wait(n, "resolving", TIMEOUT)), "ok")}
      \cup {Ret(Set(v), "ok") : v \in resolve_handler(n)}

(* ngx_resolve_name(): it fails, it goes on by itself with its own timeout,  *)
(* or it knows the answer and calls the handler here.                        *)
start_resolve(w) ==
  LET n == [w EXCEPT !.r.resolve = TRUE, !.inflight = w.r.id]
  IN  {Ret(Close(Clear(n)), "error"), Ret(Wait(n, "resolving", TIMEOUT), "ok")}
      \cup {Ret(v, "ok") : v \in resolve_handler(n)}

(* ngx_autocert_acme_request: the URL is not acceptable or leaves the CA's   *)
(* origin, there is no resolver, a literal address is connected to at once,  *)
(* a name is resolved.                                                       *)
request(w) == {Ret(w, "error")} \cup connect(w) \cup start_resolve(w)

-----------------------------------------------------------------------------
(* The event loop *)

Free == frames = <<>> /\ client.r.phase # "recv"

(* An event handler leaves the client v. *)
Event(v) == client' = v /\ UNCHANGED frames

(* A caller makes a request, from an event of its own or from the handler of *)
(* the request before.  A start failure is returned to it, and it frees the  *)
(* pool itself.  If the request is over, or already reading, the call has    *)
(* not returned yet.                                                         *)
Request(i) ==
  /\ client.status[i] = "new"
  /\ \A j \in 1 .. i - 1 : client.status[j] # "new"
  /\ client.r.phase = "none"
  /\ \E o \in request([client EXCEPT !.r = NewRequest(i),
                                     !.pools = @ \cup {i}]) :
         IF o.rc = "error"
         THEN /\ client' = [o.w EXCEPT !.status[i] = "refused",
                                       !.pools = @ \ {i}]
              /\ UNCHANGED frames
         ELSE /\ client' = [o.w EXCEPT !.status[i] =
                              IF @ = "new" THEN "pending" ELSE @]
              /\ frames' = IF o.w.r.phase \in {"none", "recv"}
                           THEN Append(frames, i) ELSE frames

(* The call returns; nothing is done to the request on the way. *)
Return ==
  /\ frames # <<>> /\ client.r.phase # "recv"
  /\ frames' = Front(frames)
  /\ UNCHANGED client

ResolveHandler ==
  /\ Free /\ client.r.phase = "resolving"
  /\ \E v \in resolve_handler([client EXCEPT !.r.timer = NULL]) : Event(v)

ConnectHandler ==
  /\ Free /\ client.r.phase = "connecting"
  /\ \E v \in connect_handler(client) : Event(v)

HandshakeHandler ==
  /\ Free /\ client.r.phase = "handshaking"
  /\ \E v \in ssl_handshake_handler(client) : Event(v)

(* A write event; once all is sent it is ignored. *)
WriteHandler ==
  /\ Free /\ client.r.phase = "sending"
  /\ \E v \in write_handler(client) : Event(v)

(* A read event enters the loop of ngx_autocert_acme_read_handler. *)
ReadHandler ==
  /\ Free /\ client.r.phase = "reading"
  /\ Event([client EXCEPT !.r.phase = "recv"])

(* The top of the loop: a full buffer grows once, if there is memory; a      *)
(* response that does not fit the larger one ends the request.               *)
Full(r) == r.got = r.cap

GrowBuffer ==
  /\ client.r.phase = "recv" /\ Full(client.r)
  /\ \/ Event(finalize(client, "error"))
     \/ client.r.cap < RECV_MAX /\ Event([client EXCEPT !.r.cap = RECV_MAX])

(* The CA, external to the client, answers the request. *)
Reply(reply) == Event([client EXCEPT !.r.reply = reply])

(* recv() returns n bytes, and all that has come is parsed. *)
RecvData(n) ==
  /\ client.r.phase = "recv"
  /\ client.r.got + n <= Lesser(client.r.cap, Len(client.r.reply))
  /\ LET r == [client.r EXCEPT !.got = @ + n]
     IN  \E p \in {parse_response(Received(r), r.parse.r)} :
           LET v == [client EXCEPT !.r = [r EXCEPT !.parse = p]]
           IN  Event(CASE p.rc = DONE  -> finalize(v, "ok")
                       [] p.rc = ERROR -> finalize(v, "error")
                       [] OTHER -> v)

(* MUTANT: every byte that comes buys another timeout. *)
recv_again_Drip(w) == Wait(w, "reading", TIMEOUT)

(* MUTANT: the last wait is not cut at the total time. *)
recv_again_Whole(w) ==
  IF w.r.left = 0 THEN finalize(w, "error") ELSE Wait(w, "reading", TIMEOUT)

(* recv() has nothing: the total time is over, or the next wait is bounded   *)
(* by what is left of it.                                                    *)
recv_again(w) ==
  IF w.r.left = 0 THEN finalize(w, "error")
  ELSE Wait(w, "reading", Lesser(w.r.left, TIMEOUT))

RecvAgain ==
  /\ client.r.phase = "recv" /\ ~Full(client.r)
  /\ Event(recv_again(client))

(* The peer has closed, perhaps before the response was complete. *)
RecvEof ==
  LET r == client.r
      p == r.parse.r
      short == \/ ~p.headers_done \/ p.chunked
               \/ p.content_length # NULL
                    /\ r.got - p.body_offset < p.content_length
      v == [client EXCEPT !.r.eof = TRUE]
      body == SubSeq(r.reply, p.body_offset + 1, r.got)
  IN  /\ r.phase = "recv" /\ ~Full(r)
      /\ IF short THEN Event(finalize(v, "error"))
         ELSE Event(finalize([v EXCEPT !.r.parse.body = body,
                                       !.r.parse.len = Len(body)], "ok"))

(* recv() fails, or the read event cannot be armed again. *)
RecvError ==
  /\ client.r.phase = "recv" /\ ~Full(client.r)
  /\ Event(finalize(client, "error"))

(* What recv() returns, sooner or later, after at most RECV_MAX bytes. *)
NoData == GrowBuffer \/ RecvAgain \/ RecvEof \/ RecvError

-----------------------------------------------------------------------------
(* Time, reload and the end of the process *)

Tick ==
  /\ Free /\ client.r.timer > 0
  /\ Event([client EXCEPT !.r.timer = @ - 1,
                          !.r.left = IF @ = 0 THEN 0 ELSE @ - 1])

(* The timer of the phase has expired: each handler, and the resolver, then  *)
(* ends the request.                                                         *)
TimedOut ==
  /\ Free /\ client.r.timer = 0
  /\ Event(finalize(client, "error"))

(* ngx_autocert_acme_cancel_inflight: as finalize, but the handler is not    *)
(* called.                                                                   *)
cancel_inflight(w) ==
  IF w.inflight = None THEN w
  ELSE [Close([w EXCEPT !.r.done = TRUE, !.inflight = None])
         EXCEPT !.pools = @ \ {w.inflight},
                !.status[w.inflight] = "cancelled"]

(* A reload within the process, and exit_process. *)
Reload ==
  /\ Free
  /\ Event(cancel_inflight(client))

(* The process dies.  Among the reasons: a read event while the request is   *)
(* still being sent, as the read handler then has no buffer.                 *)
Crash ==
  /\ client' = [Idle EXCEPT !.calls = client.calls,
                  !.status = [i \in Requests |->
                                IF client.status[i] = "pending"
                                THEN "cancelled" ELSE client.status[i]]]
  /\ frames' = <<>>

-----------------------------------------------------------------------------
Init == client = Idle /\ frames = <<>>

Next ==
  \/ \E i \in Requests : Request(i)
  \/ Return
  \/ ResolveHandler \/ ConnectHandler \/ HandshakeHandler \/ WriteHandler
  \/ ReadHandler \/ (\E n \in 1 .. SEGMENT : RecvData(n)) \/ NoData
  \/ /\ client.r.phase \in {"recv", "reading"} /\ client.r.reply = <<>>
     /\ \E reply \in Replies : Reply(reply)
  \/ Tick \/ TimedOut \/ Reload \/ Crash

(* The loop over recv() goes on until it is left, and the calls it was       *)
(* entered from return; time passes whatever events come; expired timers are *)
(* handled.  The CA and the resolver owe nothing.                            *)
Fairness ==
  /\ WF_vars(NoData) /\ WF_vars(Return)
  /\ SF_vars(Tick) /\ WF_vars(TimedOut)

Spec == Init /\ [][Next]_vars
FairSpec == Spec /\ Fairness

-----------------------------------------------------------------------------
(* The pointer a reload cancels by names exactly the request whose events,   *)
(* connection or resolver context are armed, whatever completed inside       *)
(* whichever call: never one whose memory is freed, never none while one     *)
(* is armed, and no memory is left without an event that will free it.       *)
InflightExact ==
  LET armed == IF client.r.phase = "none" THEN {} ELSE {client.r.id}
  IN  /\ client.pools = armed
      /\ armed = {client.inflight} \ {None}
      /\ client.r.conn \/ client.r.resolve <=> armed # {}

(* However a response is cut into reads, the parser with its cursors has at  *)
(* every point the result of reading all that has come from its first byte,  *)
(* the body it hands out has the length it says, and a response that ends    *)
(* early is never taken for a whole one.                                     *)
FramingExact ==
  LET r   == client.r
      ref == Decoded(Received(r))
  IN  r.id # None /\ r.got > 0 =>
        /\ r.parse.rc = ref.rc
        /\ r.parse.len = Len(r.parse.body)
        /\ ref.rc = DONE => r.parse.body = ref.body
        /\ client.status[r.id] = "ok" =>
             \/ ref.rc = DONE
             \/ r.eof /\ ref.by = "close" /\ r.parse.body = ref.body

(* The client keeps the contract of AcmeRequest. *)
Contract == INSTANCE AcmeRequest
  WITH Id <- Requests, status <- client.status, calls <- client.calls

RequestContract == Contract!ASpec

(* Every request that is taken ends, although a peer may send a byte, or     *)
(* only wake the read event, before each timer expires.                      *)
RequestEnds ==
  \A i \in Requests :
    client.status[i] = "pending" ~> client.status[i] # "pending"

(* The timers that may still be armed, after the one that runs, until the    *)
(* request is sent.                                                          *)
Waits(r) ==
  CASE r.phase = "resolving"   -> SEND_LEN + 2
    [] r.phase = "connecting"  -> SEND_LEN + 1
    [] r.phase = "handshaking" -> SEND_LEN
    [] OTHER -> SEND_LEN - 1 - r.sent

(* The ticks a request has left at most. *)
TimeLeft(r) ==
  IF r.phase \in {"recv", "reading"} THEN r.left
  ELSE r.timer + Waits(r) * TIMEOUT + READ_TOTAL

(* A request cannot be drawn out: whatever the resolver, the socket and the  *)
(* peer do, no event gives back time, every tick takes some, and it is never *)
(* overdrawn; so a request under way is over after as many ticks as it had   *)
(* at its start.  Re-arming a timer with every event, and the handlers that  *)
(* enter one another, must keep to this.                                     *)
DeadlineKept ==
  [][client.r.phase # "none" /\ client'.r.phase # "none" =>
       /\ TimeLeft(client'.r) \in 0 .. TimeLeft(client.r)
       /\ Tick => TimeLeft(client'.r) < TimeLeft(client.r)]_vars
=============================================================================
