-------------------------- MODULE AcmeClientProofs --------------------------
(***************************************************************************)
(* The HTTPS client's in-flight pointer is exact, the client keeps the     *)
(* contract of AcmeRequest, its parser agrees with the reference at every  *)
(* point, and no request is drawn out, for any number of requests, any     *)
(* responses and any sizes and times.  The bookkeeping is proved first,    *)
(* with the parser left uninterpreted; the framing rests on FramingProofs. *)
(***************************************************************************)
EXTENDS AcmeClient, FramingProofs, TLAPS

Phases == {"none", "resolving", "connecting", "handshaking", "sending",
           "reading", "recv"}
Statuses == {"new", "pending", "refused", "ok", "error", "cancelled"}

(* The fields of a client.  Those the bookkeeping does not look at may have  *)
(* any value.                                                                *)
RequestShape(r) ==
  r \in [id : Requests \cup {None}, phase : Phases, done : BOOLEAN,
         resolve : BOOLEAN, conn : BOOLEAN, timer : {r.timer},
         left : {r.left}, sent : {r.sent}, recv : {r.recv}, cap : {r.cap},
         reply : {r.reply}, got : {r.got}, parse : {r.parse}, eof : {r.eof}]

Shape(w) ==
  /\ w \in [r : {w.r}, inflight : Requests \cup {None}, pools : SUBSET Requests,
            status : [Requests -> Statuses], calls : [Requests -> Nat]]
  /\ RequestShape(w.r)

(* The request of w exists and its caller has not been told anything. *)
Held(w) ==
  /\ Shape(w) /\ w.r.id \in Requests /\ ~w.r.done
  /\ w.pools = {w.r.id}

(* Nothing of the request is armed. *)
Bare(w) ==
  /\ w.r.phase = "none" /\ w.r.timer = NULL
  /\ ~w.r.conn /\ ~w.r.resolve
  /\ w.inflight = None

(* A held request in the middle of a handler, with the pointer set or not. *)
Pointed(w) == Held(w) /\ w.inflight \in {None, w.r.id}

Live(w) == Held(w) /\ w.inflight = w.r.id /\ (w.r.conn \/ w.r.resolve)

Armed(w) == Live(w) /\ w.r.phase # "none"

Over(w) == Shape(w) /\ Bare(w) /\ w.pools = {}

SameCallers(w, v) ==
  v.r.id = w.r.id /\ v.status = w.status /\ v.calls = w.calls

(* The caller of w's request has been told rc, once. *)
Told(w, v, rc) ==
  /\ v.status = [w.status EXCEPT ![w.r.id] = rc]
  /\ v.calls = [w.calls EXCEPT ![w.r.id] = @ + 1]

(* What a handler that began with w may leave: a request that waits for an   *)
(* event, or one that is over and whose caller knows.                        *)
Leads(w, v) ==
  \/ Armed(v) /\ SameCallers(w, v)
  \/ Over(v) /\ v.r.id = w.r.id /\ \E rc \in {"ok", "error"} : Told(w, v, rc)

(* What it may leave when it reports a failure to start: nothing is armed    *)
(* that was not before, and the caller frees the request.                    *)
Fails(w, v) ==
  /\ Pointed(v) /\ SameCallers(w, v)
  /\ Bare(w) => Bare(v)

-----------------------------------------------------------------------------
(* The request of a client is replaced by another one. *)
LEMMA PutRequest ==
  ASSUME NEW w, Shape(w), NEW q, RequestShape(q)
  PROVE  LET v == [w EXCEPT !.r = q]
         IN  /\ Shape(v) /\ v.r = q /\ v.inflight = w.inflight
             /\ v.pools = w.pools /\ v.status = w.status /\ v.calls = w.calls
BY DEF Shape

(* What closing does to the request, and to the client. *)
LEMMA CloseRequest ==
  ASSUME NEW r, RequestShape(r)
  PROVE  LET q == [r EXCEPT !.conn = FALSE, !.resolve = FALSE, !.timer = NULL,
                            !.phase = "none"]
         IN  /\ RequestShape(q) /\ q.id = r.id /\ q.done = r.done
             /\ ~q.conn /\ ~q.resolve /\ q.timer = NULL /\ q.phase = "none"
BY DEF RequestShape, Phases

(* Close disarms the request and leaves the rest of the client. *)
LEMMA CloseFacts ==
  ASSUME NEW w, Shape(w)
  PROVE  /\ Shape(Close(w)) /\ Close(w).r.id = w.r.id
         /\ Close(w).r.done = w.r.done
         /\ ~Close(w).r.conn /\ ~Close(w).r.resolve
         /\ Close(w).r.timer = NULL /\ Close(w).r.phase = "none"
         /\ Close(w).inflight = w.inflight /\ Close(w).pools = w.pools
         /\ Close(w).status = w.status /\ Close(w).calls = w.calls
<1> DEFINE q == [w.r EXCEPT !.conn = FALSE, !.resolve = FALSE, !.timer = NULL,
                            !.phase = "none"]
<1>1. Close(w) = [w EXCEPT !.r = q]
  BY DEF Close, Shape, RequestShape
<1>2. /\ RequestShape(q) /\ q.id = w.r.id /\ q.done = w.r.done
      /\ ~q.conn /\ ~q.resolve /\ q.timer = NULL /\ q.phase = "none"
  BY CloseRequest DEF Shape
<1> HIDE DEF q
<1> QED BY <1>1, <1>2, PutRequest

(* Clear only takes the request off the pointer. *)
LEMMA ClearFacts ==
  ASSUME NEW w, Shape(w)
  PROVE  /\ Shape(Clear(w)) /\ Clear(w).r = w.r
         /\ Clear(w).inflight = (IF w.inflight = w.r.id THEN None ELSE w.inflight)
         /\ Clear(w).pools = w.pools
         /\ Clear(w).status = w.status /\ Clear(w).calls = w.calls
BY DEF Shape, Clear

(* Marking the request done changes nothing else. *)
LEMMA DoneFacts ==
  ASSUME NEW w, Shape(w)
  PROVE  LET v == [w EXCEPT !.r.done = TRUE]
         IN  /\ Shape(v) /\ v.r.id = w.r.id /\ v.inflight = w.inflight
             /\ v.pools = w.pools /\ v.status = w.status /\ v.calls = w.calls
BY DEF Shape, RequestShape

(* Wait changes what the request waits for and nothing else. *)
LEMMA WaitFacts ==
  ASSUME NEW w, Shape(w), NEW ph \in Phases, NEW t
  PROVE  /\ Shape(Wait(w, ph, t)) /\ Wait(w, ph, t).r.id = w.r.id
         /\ Wait(w, ph, t).r.done = w.r.done
         /\ Wait(w, ph, t).r.conn = w.r.conn
         /\ Wait(w, ph, t).r.resolve = w.r.resolve
         /\ Wait(w, ph, t).r.phase = ph
         /\ Wait(w, ph, t).inflight = w.inflight
         /\ Wait(w, ph, t).pools = w.pools
         /\ Wait(w, ph, t).status = w.status
         /\ Wait(w, ph, t).calls = w.calls
BY DEF Shape, RequestShape, Wait, Phases

(* The caller is told, and frees the request. *)
LEMMA HandlerFacts ==
  ASSUME NEW w, Shape(w), w.r.id \in Requests, w.pools = {w.r.id},
         NEW rc \in {"ok", "error"}
  PROVE  LET v == handler(w, rc)
         IN  /\ Shape(v) /\ v.r = w.r /\ v.inflight = w.inflight
             /\ v.pools = {} /\ Told(w, v, rc)
<1> DEFINE S == [w.status EXCEPT ![w.r.id] = rc]
           C == [w.calls EXCEPT ![w.r.id] = @ + 1]
<1>1. handler(w, rc) = [w EXCEPT !.status = S, !.calls = C, !.pools = {}]
  BY DEF handler, Shape
<1>2. S \in [Requests -> Statuses] /\ C \in [Requests -> Nat]
  BY DEF Shape, Statuses
<1> HIDE DEF S, C
<1>3. LET v == [w EXCEPT !.status = S, !.calls = C, !.pools = {}]
      IN  /\ Shape(v) /\ v.r = w.r /\ v.inflight = w.inflight
          /\ v.pools = {} /\ v.status = S /\ v.calls = C
  BY <1>2 DEF Shape
<1> QED BY <1>1, <1>3 DEF Told, S, C

(* finalize ends a request from any point at which it is held. *)
LEMMA FinalizeLeads ==
  ASSUME NEW w, Pointed(w), NEW rc \in {"ok", "error"}
  PROVE  Leads(w, finalize(w, rc)) /\ Over(finalize(w, rc))
<1> DEFINE a == [w EXCEPT !.r.done = TRUE]
           b == Clear(a)
           c == Close(b)
<1>1. /\ Shape(a) /\ a.r.id = w.r.id /\ a.pools = w.pools
      /\ a.inflight = w.inflight /\ a.status = w.status /\ a.calls = w.calls
  BY DoneFacts DEF Pointed, Held
<1>2. finalize(w, rc) = handler(c, rc)
  BY DEF finalize, Pointed, Held
<1> HIDE DEF a
<1>3. /\ Shape(b) /\ b.r.id = w.r.id /\ b.pools = w.pools /\ b.inflight = None
      /\ b.status = w.status /\ b.calls = w.calls
  BY <1>1, ClearFacts DEF Pointed
<1> HIDE DEF b
<1>4. /\ Shape(c) /\ c.r.id = w.r.id /\ c.pools = w.pools /\ Bare(c)
      /\ c.status = w.status /\ c.calls = w.calls
  BY <1>3, CloseFacts DEF Bare
<1> HIDE DEF c
<1>5. LET v == handler(c, rc)
      IN  /\ Shape(v) /\ v.r = c.r /\ v.inflight = c.inflight
          /\ v.pools = {} /\ Told(c, v, rc)
  BY <1>4, HandlerFacts DEF Pointed, Held
<1> HIDE DEF handler
<1> QED BY <1>2, <1>4, <1>5 DEF Leads, Over, Bare, Told

(* A live request may be finalized. *)
LEMMA LiveIsPointed == ASSUME NEW w, Live(w) PROVE Pointed(w)
BY DEF Live, Pointed

(* Arming the next wait of a live request. *)
LEMMA LiveWaits ==
  ASSUME NEW w, Live(w), NEW ph \in Phases \ {"none"}, NEW t
  PROVE  Leads(w, Wait(w, ph, t))
BY WaitFacts DEF Live, Held, Armed, Leads, SameCallers

(* Handlers compose: what w1 leads to, w leads to. *)
LEMMA LeadsOn ==
  ASSUME NEW w, NEW w1, NEW v, SameCallers(w, w1), Leads(w1, v)
  PROVE  Leads(w, v)
BY DEF SameCallers, Leads, Told

(* Ending the request with an error. *)
LEMMA Failing == ASSUME NEW w, Pointed(w), NEW v \in Fail(w) PROVE Leads(w, v)
BY FinalizeLeads DEF Fail

(* Changes to what the bookkeeping does not look at. *)
LEMMA DataKept ==
  ASSUME NEW w, Live(w), NEW q, RequestShape(q), q.id = w.r.id,
         q.done = w.r.done, q.conn = w.r.conn, q.resolve = w.r.resolve
  PROVE  LET v == [w EXCEPT !.r = q] IN Live(v) /\ SameCallers(w, v)
BY PutRequest DEF Live, Held, SameCallers

(* Some of the request is sent. *)
LEMMA SentKept ==
  ASSUME NEW w, Live(w), NEW n
  PROVE  LET v == [w EXCEPT !.r.sent = n] IN Live(v) /\ SameCallers(w, v)
<1> DEFINE q == [w.r EXCEPT !.sent = n]
<1>1. RequestShape(q) /\ q.id = w.r.id /\ q.done = w.r.done
      /\ q.conn = w.r.conn /\ q.resolve = w.r.resolve
  BY DEF Live, Held, Shape, RequestShape
<1> HIDE DEF q
<1> QED BY <1>1, DataKept DEF q

(* All of the request is sent and reading begins. *)
LEMMA AllSentKept ==
  ASSUME NEW w, Live(w), NEW n, NEW l
  PROVE  LET v == [w EXCEPT !.r.sent = n, !.r.recv = TRUE, !.r.left = l]
         IN  Live(v) /\ SameCallers(w, v)
<1> DEFINE q == [w.r EXCEPT !.sent = n, !.recv = TRUE, !.left = l]
<1>1. RequestShape(q) /\ q.id = w.r.id /\ q.done = w.r.done
      /\ q.conn = w.r.conn /\ q.resolve = w.r.resolve
  BY DEF Live, Held, Shape, RequestShape
<1>2. [w EXCEPT !.r.sent = n, !.r.recv = TRUE, !.r.left = l]
        = [w EXCEPT !.r = q]
  BY DEF Live, Held, Shape, RequestShape
<1> HIDE DEF q
<1> QED BY <1>1, <1>2, DataKept

(* The timer is deleted. *)
LEMMA TimerKept ==
  ASSUME NEW w, Live(w)
  PROVE  LET v == [w EXCEPT !.r.timer = NULL] IN Live(v) /\ SameCallers(w, v)
<1> DEFINE q == [w.r EXCEPT !.timer = NULL]
<1>1. RequestShape(q) /\ q.id = w.r.id /\ q.done = w.r.done
      /\ q.conn = w.r.conn /\ q.resolve = w.r.resolve
  BY DEF Live, Held, Shape, RequestShape
<1> HIDE DEF q
<1> QED BY <1>1, DataKept DEF q

-----------------------------------------------------------------------------
(* The handlers, from the last one of a request to the first.                *)

(* The write handler sends on, fails, or begins to read. *)
LEMMA WriteLeads ==
  ASSUME NEW w, Live(w), NEW v \in write_handler(w)
  PROVE  Leads(w, v)
<1> DEFINE a == [w EXCEPT !.r.sent = SEND_LEN, !.r.recv = TRUE,
                          !.r.left = READ_TOTAL]
<1>1. ASSUME NEW n, v = Wait([w EXCEPT !.r.sent = n], "sending", TIMEOUT)
      PROVE  Leads(w, v)
  <2> DEFINE b == [w EXCEPT !.r.sent = n]
  <2>1. Live(b) /\ SameCallers(w, b)
    BY SentKept
  <2> HIDE DEF b
  <2>2. Leads(b, Wait(b, "sending", TIMEOUT))
    BY <2>1, LiveWaits DEF Phases
  <2> QED BY <1>1, <2>1, <2>2, LeadsOn DEF b
<1>2. CASE v = Wait(a, "recv", Lesser(READ_TOTAL, TIMEOUT))
  <2>1. Live(a) /\ SameCallers(w, a)
    BY AllSentKept
  <2> HIDE DEF a
  <2>2. Leads(a, Wait(a, "recv", Lesser(READ_TOTAL, TIMEOUT)))
    BY <2>1, LiveWaits DEF Phases
  <2> QED BY <1>2, <2>1, <2>2, LeadsOn
<1>3. CASE v \in Fail(w)
  BY <1>3, Failing, LiveIsPointed
<1> QED BY <1>1, <1>2, <1>3 DEF write_handler

(* The handshake handler fails or sends. *)
LEMMA HandshakeLeads ==
  ASSUME NEW w, Live(w), NEW v \in ssl_handshake_handler(w)
  PROVE  Leads(w, v)
<1> DEFINE a == [w EXCEPT !.r.timer = NULL]
<1>1. Live(a) /\ SameCallers(w, a)
  BY TimerKept
<1>2. v \in Fail(w) \/ v \in write_handler(a)
  BY DEF ssl_handshake_handler
<1> HIDE DEF a
<1> QED BY <1>1, <1>2, Failing, LiveIsPointed, WriteLeads, LeadsOn

(* ssl_init returns an error only if nothing has happened to the request. *)
LEMMA SslInitLeads ==
  ASSUME NEW w, Live(w), NEW o \in ssl_init(w)
  PROVE  \/ o.rc = "ok" /\ Leads(w, o.w)
         \/ o.rc = "error" /\ o.w = w
<1>1. CASE o = Ret(w, "error")
  BY <1>1 DEF Ret
<1>2. CASE o = Ret(Wait(w, "handshaking", TIMEOUT), "ok")
  BY <1>2, LiveWaits DEF Ret, Phases
<1>3. ASSUME NEW v \in ssl_handshake_handler(w), o = Ret(v, "ok")
      PROVE  o.rc = "ok" /\ Leads(w, o.w)
  BY <1>3, HandshakeLeads DEF Ret
<1> QED BY <1>1, <1>2, <1>3 DEF ssl_init

(* What is cleared and closed is held by its caller only. *)
LEMMA Undone ==
  ASSUME NEW w, Live(w)
  PROVE  Pointed(Close(Clear(w))) /\ Bare(Close(Clear(w)))
           /\ SameCallers(w, Close(Clear(w)))
<1> DEFINE b == Clear(w)
<1>1. /\ Shape(b) /\ b.r = w.r /\ b.inflight = None /\ b.pools = w.pools
      /\ b.status = w.status /\ b.calls = w.calls
  BY ClearFacts DEF Live, Held
<1> HIDE DEF b
<1>2. Pointed(Close(b)) /\ Bare(Close(b)) /\ SameCallers(w, Close(b))
  BY <1>1, CloseFacts DEF Live, Held, Pointed, Bare, SameCallers
<1> QED BY <1>2 DEF b

(* connect returns an error only with nothing left armed by it. *)
LEMMA ConnectLeads ==
  ASSUME NEW w, Pointed(w), NEW o \in connect(w)
  PROVE  \/ o.rc = "ok" /\ Leads(w, o.w)
         \/ o.rc = "error" /\ Fails(w, o.w)
<1> DEFINE c == [w EXCEPT !.r.conn = TRUE, !.inflight = w.r.id]
           q == [w.r EXCEPT !.conn = TRUE]
<1>1. Live(c) /\ SameCallers(w, c)
  <2>1. RequestShape(q) /\ q.id = w.r.id /\ q.done = w.r.done /\ q.conn
    BY DEF Pointed, Held, Shape, RequestShape
  <2>2. c = [w EXCEPT !.r = q, !.inflight = w.r.id]
    OBVIOUS
  <2> HIDE DEF q
  <2> QED BY <2>1, <2>2 DEF Pointed, Held, Shape, Live, SameCallers
<1>2. \/ o = Ret(w, "error")
      \/ o = Ret(Wait(c, "connecting", TIMEOUT), "ok")
      \/ \E i \in ssl_init(c) :
           o = IF i.rc = "ok" THEN i ELSE Ret(Close(Clear(i.w)), "error")
  BY DEF connect
<1> HIDE DEF c
<1>3. CASE o = Ret(w, "error")
  BY <1>3 DEF Ret, Fails, SameCallers
<1>4. CASE o = Ret(Wait(c, "connecting", TIMEOUT), "ok")
  <2>1. Leads(c, Wait(c, "connecting", TIMEOUT))
    BY <1>1, LiveWaits DEF Phases
  <2> QED BY <1>1, <1>4, <2>1, LeadsOn DEF Ret
<1>5. ASSUME NEW i \in ssl_init(c),
             o = IF i.rc = "ok" THEN i ELSE Ret(Close(Clear(i.w)), "error")
      PROVE  \/ o.rc = "ok" /\ Leads(w, o.w)
             \/ o.rc = "error" /\ Fails(w, o.w)
  <2>1. \/ i.rc = "ok" /\ Leads(c, i.w)
        \/ i.rc = "error" /\ i.w = c
    BY <1>1, SslInitLeads
  <2>2. CASE i.rc = "ok" /\ Leads(c, i.w)
    BY <1>1, <1>5, <2>2, LeadsOn
  <2>3. CASE i.rc = "error" /\ i.w = c
    <3>1. Pointed(Close(Clear(c))) /\ Bare(Close(Clear(c)))
            /\ SameCallers(c, Close(Clear(c)))
      BY <1>1, Undone
    <3> QED BY <1>1, <1>5, <2>3, <3>1 DEF Ret, Fails, SameCallers
  <2> QED BY <2>1, <2>2, <2>3
<1> QED BY <1>2, <1>3, <1>4, <1>5

(* A start that failed inside an event handler is reported by finalize. *)
LEMMA FailedStart ==
  ASSUME NEW w, NEW v, Fails(w, v)
  PROVE  Leads(w, finalize(v, "error"))
<1>1. Leads(v, finalize(v, "error"))
  BY FinalizeLeads DEF Fails
<1> QED BY <1>1, LeadsOn DEF Fails

(* The connect handler fails or goes on to TLS. *)
LEMMA ConnectHandlerLeads ==
  ASSUME NEW w, Live(w), NEW v \in connect_handler(w)
  PROVE  Leads(w, v)
<1> DEFINE a == [w EXCEPT !.r.timer = NULL]
<1>1. Live(a) /\ SameCallers(w, a)
  BY TimerKept
<1>2. \/ v \in Fail(w)
      \/ \E o \in ssl_init(a) :
           v = IF o.rc = "ok" THEN o.w ELSE finalize(o.w, "error")
  BY DEF connect_handler
<1> HIDE DEF a
<1>3. CASE v \in Fail(w)
  BY <1>3, Failing, LiveIsPointed
<1>4. ASSUME NEW o \in ssl_init(a),
             v = IF o.rc = "ok" THEN o.w ELSE finalize(o.w, "error")
      PROVE  Leads(w, v)
  <2>1. \/ o.rc = "ok" /\ Leads(a, o.w)
        \/ o.rc = "error" /\ o.w = a
    BY <1>1, SslInitLeads
  <2>2. Leads(a, finalize(a, "error"))
    BY <1>1, LiveIsPointed, FinalizeLeads
  <2> QED BY <1>1, <1>4, <2>1, <2>2, LeadsOn
<1> QED BY <1>2, <1>3, <1>4

(* The resolve handler fails or connects. *)
LEMMA ResolveHandlerLeads ==
  ASSUME NEW w, Live(w), NEW v \in resolve_handler(w)
  PROVE  Leads(w, v)
<1> DEFINE d == [w EXCEPT !.r.resolve = FALSE]
           q == [w.r EXCEPT !.resolve = FALSE]
<1>1. Pointed(d) /\ SameCallers(w, d)
  <2>1. RequestShape(q) /\ q.id = w.r.id /\ q.done = w.r.done
    BY DEF Live, Held, Shape, RequestShape
  <2>2. d = [w EXCEPT !.r = q]
    OBVIOUS
  <2> HIDE DEF q, d
  <2> QED BY <2>1, <2>2, PutRequest DEF Live, Held, Pointed, SameCallers
<1>2. \/ v \in Fail(d)
      \/ \E o \in connect(d) :
           v = IF o.rc = "ok" THEN o.w ELSE finalize(o.w, "error")
  BY DEF resolve_handler
<1> HIDE DEF d
<1>3. CASE v \in Fail(d)
  BY <1>1, <1>3, Failing, LeadsOn
<1>4. ASSUME NEW o \in connect(d),
             v = IF o.rc = "ok" THEN o.w ELSE finalize(o.w, "error")
      PROVE  Leads(w, v)
  <2>1. \/ o.rc = "ok" /\ Leads(d, o.w)
        \/ o.rc = "error" /\ Fails(d, o.w)
    BY <1>1, ConnectLeads
  <2>2. Leads(d, v)
    BY <1>4, <2>1, FailedStart
  <2> QED BY <1>1, <2>2, LeadsOn
<1> QED BY <1>2, <1>3, <1>4

(* The resolver fails, goes on, or answers inside the call. *)
LEMMA StartResolveLeads ==
  ASSUME NEW w, Pointed(w), NEW o \in start_resolve(w)
  PROVE  \/ o.rc = "ok" /\ Leads(w, o.w)
         \/ o.rc = "error" /\ Fails(w, o.w)
<1> DEFINE n == [w EXCEPT !.r.resolve = TRUE, !.inflight = w.r.id]
           q == [w.r EXCEPT !.resolve = TRUE]
<1>1. Live(n) /\ SameCallers(w, n)
  <2>1. RequestShape(q) /\ q.id = w.r.id /\ q.done = w.r.done /\ q.resolve
    BY DEF Pointed, Held, Shape, RequestShape
  <2>2. n = [w EXCEPT !.r = q, !.inflight = w.r.id]
    OBVIOUS
  <2> HIDE DEF q
  <2> QED BY <2>1, <2>2 DEF Pointed, Held, Shape, Live, SameCallers
<1>2. \/ o = Ret(Close(Clear(n)), "error")
      \/ o = Ret(Wait(n, "resolving", TIMEOUT), "ok")
      \/ \E v \in resolve_handler(n) : o = Ret(v, "ok")
  BY DEF start_resolve
<1> HIDE DEF n
<1>3. CASE o = Ret(Close(Clear(n)), "error")
  <2>1. Pointed(Close(Clear(n))) /\ Bare(Close(Clear(n)))
          /\ SameCallers(n, Close(Clear(n)))
    BY <1>1, Undone
  <2> QED BY <1>1, <1>3, <2>1 DEF Ret, Fails, SameCallers
<1>4. CASE o = Ret(Wait(n, "resolving", TIMEOUT), "ok")
  <2>1. Leads(n, Wait(n, "resolving", TIMEOUT))
    BY <1>1, LiveWaits DEF Phases
  <2> QED BY <1>1, <1>4, <2>1, LeadsOn DEF Ret
<1>5. ASSUME NEW v \in resolve_handler(n), o = Ret(v, "ok")
      PROVE  o.rc = "ok" /\ Leads(w, o.w)
  <2>1. Leads(n, v)
    BY <1>1, ResolveHandlerLeads
  <2> QED BY <1>1, <1>5, <2>1, LeadsOn DEF Ret
<1> QED BY <1>2, <1>3, <1>4, <1>5

(* Every way a request may start. *)
LEMMA RequestLeads ==
  ASSUME NEW w, Pointed(w), NEW o \in request(w)
  PROVE  \/ o.rc = "ok" /\ Leads(w, o.w)
         \/ o.rc = "error" /\ Fails(w, o.w)
<1>1. o = Ret(w, "error") \/ o \in connect(w) \/ o \in start_resolve(w)
  BY DEF request
<1>2. CASE o = Ret(w, "error")
  BY <1>2 DEF Ret, Fails, SameCallers
<1> QED BY <1>1, <1>2, ConnectLeads, StartResolveLeads

-----------------------------------------------------------------------------
(***************************************************************************)
(* The inductive invariant.  InflightExact alone is not inductive: a       *)
(* handler may only finalize a request whose caller has not been told, and *)
(* whether it has is known from done, the phase and status together.       *)
(***************************************************************************)

(* The caller of the armed request waits, no other one does, and a handler   *)
(* that has not been called has been called zero times.                      *)
CallersInv(w) ==
  \A i \in Requests :
    /\ w.status[i] = "pending" <=> w.r.phase # "none" /\ i = w.r.id
    /\ w.status[i] \in {"new", "pending"} => w.calls[i] = 0

ClientInv(w) == (Armed(w) \/ Over(w)) /\ CallersInv(w)

(* What a step from w to v is to the callers, in the words of AcmeRequest. *)
Refused(w, v, i) ==
  /\ w.status[i] = "new" /\ v.status = [w.status EXCEPT ![i] = "refused"]
  /\ v.calls = w.calls
Taken(w, v, i) ==
  /\ w.status[i] = "new" /\ \A j \in Requests : w.status[j] # "pending"
  /\ v.status = [w.status EXCEPT ![i] = "pending"]
  /\ v.calls = w.calls
Answered(w, v, i) ==
  /\ w.status[i] \in {"new", "pending"}
  /\ \E rc \in {"ok", "error"} : v.status = [w.status EXCEPT ![i] = rc]
  /\ v.calls = [w.calls EXCEPT ![i] = 1]
Cancelled(w, v, i) ==
  /\ w.status[i] = "pending"
  /\ v.status = [w.status EXCEPT ![i] = "cancelled"]
  /\ v.calls = w.calls
CallersStep(w, v) ==
  \/ v.status = w.status /\ v.calls = w.calls
  \/ \E i \in Requests : Refused(w, v, i) \/ Taken(w, v, i)
                            \/ Answered(w, v, i) \/ Cancelled(w, v, i)

(* An event handler that leaves what Leads allows keeps the invariant. *)
LEMMA EventKeeps ==
  ASSUME NEW w, ClientInv(w), Armed(w), NEW v, Leads(w, v)
  PROVE  ClientInv(v) /\ CallersStep(w, v)
<1>1. CASE Armed(v) /\ SameCallers(w, v)
  BY <1>1 DEF ClientInv, CallersInv, Armed, SameCallers, CallersStep
<1>2. ASSUME Over(v), NEW rc \in {"ok", "error"}, Told(w, v, rc)
      PROVE  ClientInv(v) /\ CallersStep(w, v)
  <2>1. /\ w.r.id \in Requests /\ w.status[w.r.id] = "pending"
        /\ w.calls[w.r.id] = 0
        /\ w.status \in [Requests -> Statuses] /\ w.calls \in [Requests -> Nat]
    BY DEF Armed, Live, Held, Shape, ClientInv, CallersInv
  <2>2. CallersInv(v)
    BY <1>2, <2>1 DEF Told, ClientInv, CallersInv, Over, Bare, Armed
  <2>3. Answered(w, v, w.r.id)
    BY <1>2, <2>1 DEF Told, Answered
  <2> QED BY <1>2, <2>1, <2>2, <2>3 DEF ClientInv, CallersStep
<1> QED BY <1>1, <1>2 DEF Leads

(* q is the request of w with other data. *)
SameRequest(w, q) ==
  /\ RequestShape(q) /\ q.id = w.r.id /\ q.done = w.r.done
  /\ q.conn = w.r.conn /\ q.resolve = w.r.resolve /\ q.phase # "none"

(* A step that changes only data leaves the request armed. *)
LEMMA DataLeads ==
  ASSUME NEW w, Armed(w), NEW q, SameRequest(w, q)
  PROVE  LET v == [w EXCEPT !.r = q]
         IN  Armed(v) /\ SameCallers(w, v) /\ Leads(w, v)
<1> DEFINE v == [w EXCEPT !.r = q]
<1>1. Live(v) /\ SameCallers(w, v)
  BY DataKept DEF Armed, SameRequest
<1>2. v.r = q
  BY PutRequest DEF SameRequest, Armed, Live, Held
<1> HIDE DEF v
<1>3. Armed(v) /\ SameCallers(w, v) /\ Leads(w, v)
  BY <1>1, <1>2 DEF Armed, SameRequest, Leads
<1> QED BY <1>3 DEF v

(* The request may end after its data has changed. *)
LEMMA DataEnds ==
  ASSUME NEW w, Armed(w), NEW q, SameRequest(w, q), NEW rc \in {"ok", "error"}
  PROVE  Leads(w, finalize([w EXCEPT !.r = q], rc))
<1> DEFINE v == [w EXCEPT !.r = q]
<1>1. Armed(v) /\ SameCallers(w, v)
  BY DataLeads
<1> HIDE DEF v
<1>2. Leads(v, finalize(v, rc))
  BY <1>1, LiveIsPointed, FinalizeLeads DEF Armed
<1>3. Leads(w, finalize(v, rc))
  BY <1>1, <1>2, LeadsOn
<1> QED BY <1>3 DEF v

(* An armed request may end. *)
LEMMA EndLeads ==
  ASSUME NEW w, Armed(w), NEW rc \in {"ok", "error"}
  PROVE  Leads(w, finalize(w, rc))
BY LiveIsPointed, FinalizeLeads DEF Armed

-----------------------------------------------------------------------------
(* The steps. *)

(* The client begins with no request. *)
LEMMA InitInv == Init => ClientInv(client)
<1> SUFFICES ASSUME Init PROVE ClientInv(Idle)
  BY DEF Init
<1>1. Shape(Idle)
  BY DEF Idle, NewRequest, Shape, RequestShape, Phases, Statuses, None
<1>2. Over(Idle) /\ CallersInv(Idle)
  BY <1>1 DEF Over, Bare, Idle, NewRequest, CallersInv, None
<1> QED BY <1>2 DEF ClientInv

(* A new request: refused, taken, or over before the call returns. *)
LEMMA RequestStep ==
  ASSUME ClientInv(client), NEW i \in Requests, Request(i)
  PROVE  ClientInv(client') /\ CallersStep(client, client')
<1> DEFINE w == [client EXCEPT !.r = NewRequest(i), !.pools = @ \cup {i}]
<1>1. Over(client) /\ CallersInv(client) /\ client.status[i] = "new"
  BY DEF Request, ClientInv, Armed
<1>2. RequestShape(NewRequest(i))
  BY DEF NewRequest, RequestShape, Phases
<1>3. /\ Pointed(w) /\ Bare(w) /\ w.r.id = i
      /\ w.status = client.status /\ w.calls = client.calls
  BY <1>1, <1>2 DEF Over, Bare, Shape, NewRequest, Pointed, Held
<1>4. PICK o \in request(w) :
        IF o.rc = "error"
        THEN client' = [o.w EXCEPT !.status[i] = "refused", !.pools = @ \ {i}]
        ELSE client' = [o.w EXCEPT !.status[i] =
                          IF @ = "new" THEN "pending" ELSE @]
  BY DEF Request
<1> HIDE DEF w
<1>5. /\ client.status \in [Requests -> Statuses]
      /\ client.calls \in [Requests -> Nat] /\ client.calls[i] = 0
      /\ \A j \in Requests : client.status[j] # "pending"
  BY <1>1 DEF Over, Shape, CallersInv, Bare
<1>6. CASE o.rc = "error" /\ Fails(w, o.w)
  <2>1. /\ Shape(o.w) /\ Bare(o.w) /\ o.w.pools = {i} /\ o.w.r.id = i
        /\ o.w.status = client.status /\ o.w.calls = client.calls
    BY <1>3, <1>6 DEF Fails, Pointed, Held, SameCallers
  <2> DEFINE S == [client.status EXCEPT ![i] = "refused"]
  <2>2. client' = [o.w EXCEPT !.status = S, !.pools = {}]
    BY <1>4, <1>6, <2>1 DEF Shape
  <2>3. S \in [Requests -> Statuses]
    BY <1>5 DEF Statuses
  <2> HIDE DEF S
  <2>4. /\ Shape(client') /\ client'.r = o.w.r /\ client'.pools = {}
        /\ client'.inflight = o.w.inflight /\ client'.status = S
        /\ client'.calls = client.calls
    BY <2>1, <2>2, <2>3 DEF Shape
  <2>5. Over(client')
    BY <2>1, <2>4 DEF Over, Bare
  <2>6. Refused(client, client', i)
    BY <1>1, <2>4 DEF Refused, S
  <2>7. CallersInv(client')
    BY <1>1, <1>5, <2>4, <2>5 DEF CallersInv, Over, Bare, S
  <2> QED BY <2>5, <2>6, <2>7 DEF ClientInv, CallersStep
<1>7. CASE o.rc = "ok" /\ Armed(o.w) /\ SameCallers(w, o.w)
  <2>1. /\ o.w.status = client.status /\ o.w.calls = client.calls
        /\ o.w.r.id = i
    BY <1>3, <1>7 DEF SameCallers
  <2>2. client' = [o.w EXCEPT !.status = [client.status EXCEPT ![i] = "pending"]]
    BY <1>1, <1>4, <1>7, <2>1
  <2>3. Armed(client') /\ Taken(client, client', i) /\ client'.r = o.w.r
    BY <1>1, <1>5, <1>7, <2>1, <2>2
       DEF Armed, Live, Held, Shape, Taken, Statuses
  <2>4. CallersInv(client')
    BY <1>5, <2>1, <2>3, <1>7, <1>1 DEF CallersInv, Taken, Armed
  <2> QED BY <2>3, <2>4 DEF ClientInv, CallersStep
<1>8. ASSUME o.rc = "ok", Over(o.w), NEW rc \in {"ok", "error"},
             Told(w, o.w, rc)
      PROVE  ClientInv(client') /\ CallersStep(client, client')
  <2>1. /\ o.w.status = [client.status EXCEPT ![i] = rc]
        /\ o.w.calls = [client.calls EXCEPT ![i] = 1]
    BY <1>3, <1>5, <1>8 DEF Told
  <2>2. client' = [o.w EXCEPT !.status = [o.w.status EXCEPT ![i] = rc]]
    BY <1>4, <1>5, <1>8, <2>1
  <2>3. Over(client') /\ client'.status = [client.status EXCEPT ![i] = rc]
          /\ client'.calls = o.w.calls
    BY <1>5, <1>8, <2>1, <2>2 DEF Over, Shape, Bare, Statuses
  <2>4. Answered(client, client', i)
    BY <1>1, <2>1, <2>3 DEF Answered
  <2>5. CallersInv(client')
    BY <1>1, <1>5, <2>1, <2>3 DEF CallersInv, Over, Bare
  <2> QED BY <2>3, <2>4, <2>5 DEF ClientInv, CallersStep
<1> QED BY <1>3, <1>6, <1>7, <1>8, RequestLeads DEF Leads

(* A request that waits is armed. *)
LEMMA Waiting ==
  ASSUME ClientInv(client), client.r.phase # "none"
  PROVE  Armed(client)
BY DEF ClientInv, Over, Bare

(* Events of the phases before the response: each ends in what its handler   *)
(* leaves.                                                                   *)
LEMMA HandlerStep ==
  ASSUME ClientInv(client),
         ResolveHandler \/ ConnectHandler \/ HandshakeHandler \/ WriteHandler
  PROVE  ClientInv(client') /\ CallersStep(client, client')
<1>1. Armed(client) /\ Live(client)
  BY Waiting DEF ResolveHandler, ConnectHandler, HandshakeHandler,
                 WriteHandler, Armed
<1>2. Leads(client, client')
  <2>1. CASE ResolveHandler
    <3> DEFINE a == [client EXCEPT !.r.timer = NULL]
    <3>1. Live(a) /\ SameCallers(client, a)
      BY <1>1, TimerKept
    <3>2. client' \in resolve_handler(a)
      BY <2>1 DEF ResolveHandler, Event
    <3> HIDE DEF a
    <3> QED BY <3>1, <3>2, ResolveHandlerLeads, LeadsOn
  <2>2. CASE ConnectHandler
    BY <1>1, <2>2, ConnectHandlerLeads DEF ConnectHandler, Event
  <2>3. CASE HandshakeHandler
    BY <1>1, <2>3, HandshakeLeads DEF HandshakeHandler, Event
  <2>4. CASE WriteHandler
    BY <1>1, <2>4, WriteLeads DEF WriteHandler, Event
  <2> QED BY <2>1, <2>2, <2>3, <2>4
<1> QED BY <1>1, <1>2, EventKeeps

(* Steps that only change data of a request that waits or reads. *)
LEMMA DataStep ==
  ASSUME ClientInv(client),
         \/ ReadHandler
         \/ client.r.phase \in {"recv", "reading"} /\ \E x : Reply(x)
         \/ Tick /\ client.r.phase # "none"
  PROVE  ClientInv(client') /\ CallersStep(client, client')
<1>1. Armed(client)
  BY Waiting DEF ReadHandler
<1> SUFFICES Leads(client, client')
  BY <1>1, EventKeeps
<1>2. ASSUME NEW q, SameRequest(client, q), client' = [client EXCEPT !.r = q]
      PROVE  Leads(client, client')
  BY <1>1, <1>2, DataLeads
<1> USE DEF Armed, Live, Held, Shape, RequestShape, SameRequest, Phases, Event
<1>3. CASE ReadHandler
  <2> DEFINE q == [client.r EXCEPT !.phase = "recv"]
  <2>1. SameRequest(client, q)
    BY <1>1
  <2>2. client' = [client EXCEPT !.r = q]
    BY <1>3 DEF ReadHandler
  <2> HIDE DEF q, SameRequest
  <2> QED BY <1>2, <2>1, <2>2
<1>4. ASSUME NEW x, Reply(x)
      PROVE  Leads(client, client')
  <2> DEFINE q == [client.r EXCEPT !.reply = x]
  <2>1. SameRequest(client, q)
    BY <1>1
  <2>2. client' = [client EXCEPT !.r = q]
    BY <1>4 DEF Reply
  <2> HIDE DEF q, SameRequest
  <2> QED BY <1>2, <2>1, <2>2
<1>5. CASE Tick
  <2> DEFINE t == client.r.timer - 1
             l == IF client.r.left = 0 THEN 0 ELSE client.r.left - 1
             q == [client.r EXCEPT !.timer = t, !.left = l]
  <2>2. client' = [client EXCEPT !.r = q]
    BY <1>1, <1>5 DEF Tick
  <2> HIDE DEF t, l
  <2>1. SameRequest(client, q)
    BY <1>1
  <2> HIDE DEF q, SameRequest
  <2> QED BY <1>2, <2>1, <2>2
<1> HIDE DEF Armed, Live, Held, Shape, RequestShape, SameRequest, Phases, Event
<1> QED BY <1>3, <1>4, <1>5

(* The loop over recv(). *)
LEMMA RecvStep ==
  ASSUME ClientInv(client), NoData \/ \E n : RecvData(n)
  PROVE  ClientInv(client') /\ CallersStep(client, client')
<1>1. Armed(client)
  BY Waiting DEF NoData, RecvData, GrowBuffer, RecvAgain, RecvEof, RecvError
<1> SUFFICES Leads(client, client')
  BY <1>1, EventKeeps
<1>2. ASSUME NEW q, SameRequest(client, q), NEW v, v = [client EXCEPT !.r = q]
      PROVE  /\ Leads(client, v) /\ Leads(client, finalize(v, "ok"))
             /\ Leads(client, finalize(v, "error"))
  BY <1>1, <1>2, DataLeads, DataEnds
<1>3. Leads(client, finalize(client, "error"))
  BY <1>1, EndLeads
<1>4. CASE GrowBuffer
  <2> DEFINE q == [client.r EXCEPT !.cap = RECV_MAX]
  <2>1. SameRequest(client, q)
    BY <1>1 DEF Armed, Live, Held, Shape, RequestShape, SameRequest, Phases
  <2>2. \/ client' = finalize(client, "error")
        \/ client' = [client EXCEPT !.r = q]
    BY <1>4 DEF GrowBuffer, Event
  <2> HIDE DEF q
  <2> QED BY <1>2, <1>3, <2>1, <2>2
<1>5. CASE RecvAgain
  <2>1. Leads(client, Wait(client, "reading", Lesser(client.r.left, TIMEOUT)))
    BY <1>1, LiveWaits DEF Armed, Phases
  <2> QED BY <1>3, <1>5, <2>1 DEF RecvAgain, recv_again, Event
<1>6. CASE RecvError
  BY <1>3, <1>6 DEF RecvError, Event
<1>7. CASE RecvEof
  <2> DEFINE body == SubSeq(client.r.reply, client.r.parse.r.body_offset + 1,
                            client.r.got)
             q == [client.r EXCEPT !.eof = TRUE]
             p == [client.r.parse EXCEPT !.body = body, !.len = Len(body)]
             u == [q EXCEPT !.parse = p]
             v == [client EXCEPT !.r = q]
             x == [v EXCEPT !.r.parse.body = body, !.r.parse.len = Len(body)]
  <2>1. client' \in {finalize(v, "error"), finalize(x, "ok")}
    BY <1>7 DEF RecvEof, Event
  <2>2. x = [client EXCEPT !.r = u]
    <3> HIDE DEF body
    <3> QED BY <1>1 DEF Armed, Live, Held, Shape, RequestShape
  <2> HIDE DEF p, x
  <2>3. SameRequest(client, q) /\ SameRequest(client, u)
    BY <1>1 DEF Armed, Live, Held, Shape, RequestShape, SameRequest, Phases
  <2> HIDE DEF q, u
  <2> QED BY <1>2, <2>1, <2>2, <2>3
<1>8. ASSUME NEW n, RecvData(n)
      PROVE  Leads(client, client')
  <2> DEFINE r == [client.r EXCEPT !.got = @ + n]
             p == parse_response(Received(r), r.parse.r)
             q == [r EXCEPT !.parse = p]
             v == [client EXCEPT !.r = q]
  <2>1. client' \in {finalize(v, "ok"), finalize(v, "error"), v}
    <3> HIDE DEF p
    <3>1. client' = CASE p.rc = DONE  -> finalize(v, "ok")
                      [] p.rc = ERROR -> finalize(v, "error")
                      [] OTHER -> v
      BY <1>8 DEF RecvData, Event, p
    <3> HIDE DEF v
    <3> QED BY <3>1
  <2> HIDE DEF p
  <2>2. SameRequest(client, q)
    <3> DEFINE g == client.r.got + n
    <3>1. q = [client.r EXCEPT !.got = g, !.parse = p]
      BY <1>1 DEF Armed, Live, Held, Shape, RequestShape
    <3> HIDE DEF g, q
    <3> QED BY <1>1, <3>1 DEF Armed, Live, Held, Shape, RequestShape,
                              SameRequest, Phases
  <2> HIDE DEF q
  <2> QED BY <1>2, <2>1, <2>2
<1> QED BY <1>4, <1>5, <1>6, <1>7, <1>8 DEF NoData

(* Time is armed only while the request waits. *)
LEMMA TimerStep ==
  ASSUME ClientInv(client), Tick \/ TimedOut
  PROVE  ClientInv(client') /\ CallersStep(client, client')
<1>1. client.r.phase # "none"
  BY DEF ClientInv, Armed, Over, Bare, Tick, TimedOut, NULL
<1>2. CASE Tick
  BY <1>1, <1>2, DataStep
<1>3. CASE TimedOut
  BY <1>1, <1>3, Waiting, EndLeads, EventKeeps DEF TimedOut, Event
<1> QED BY <1>2, <1>3

(* The request of w is gone and its caller is told it was cancelled. *)
LEMMA CancelKeeps ==
  ASSUME NEW w, ClientInv(w), Armed(w), NEW v, Over(v), v.calls = w.calls,
         v.status = [w.status EXCEPT ![w.r.id] = "cancelled"]
  PROVE  ClientInv(v) /\ CallersStep(w, v)
<1>1. /\ w.r.id \in Requests /\ w.status[w.r.id] = "pending"
      /\ w.status \in [Requests -> Statuses] /\ w.calls \in [Requests -> Nat]
  BY DEF Armed, Live, Held, Shape, ClientInv, CallersInv
<1>2. CallersInv(v)
  BY <1>1 DEF ClientInv, CallersInv, Over, Bare
<1>3. Cancelled(w, v, w.r.id)
  BY <1>1 DEF Cancelled
<1> QED BY <1>1, <1>2, <1>3 DEF ClientInv, CallersStep

(* A reload cancels the request that is in flight, if there is one. *)
LEMMA ReloadStep ==
  ASSUME ClientInv(client), Reload
  PROVE  ClientInv(client') /\ CallersStep(client, client')
<1>1. client' = cancel_inflight(client)
  BY DEF Reload, Event
<1>2. CASE Over(client)
  <2>1. client' = client
    BY <1>1, <1>2 DEF cancel_inflight, Over, Bare
  <2> QED BY <2>1 DEF CallersStep
<1>3. CASE Armed(client)
  <2> DEFINE a == [client EXCEPT !.r.done = TRUE]
             b == [a EXCEPT !.inflight = None]
             c == Close(b)
             S == [client.status EXCEPT ![client.r.id] = "cancelled"]
  <2>1. /\ Shape(client) /\ client.inflight = client.r.id
        /\ client.pools = {client.r.id} /\ client.r.id \in Requests
        /\ client.status \in [Requests -> Statuses]
    BY <1>3 DEF Armed, Live, Held, Shape
  <2>2. /\ Shape(a) /\ a.r.id = client.r.id /\ a.pools = client.pools
        /\ a.status = client.status /\ a.calls = client.calls
    BY <2>1, DoneFacts
  <2>3. [client EXCEPT !.r.done = TRUE, !.inflight = None] = b
    BY <2>1 DEF Shape
  <2> HIDE DEF a
  <2>4. /\ Shape(b) /\ b.inflight = None /\ b.pools = client.pools
        /\ b.status = client.status /\ b.calls = client.calls
    BY <2>2 DEF Shape
  <2>5. client' = [c EXCEPT !.pools = @ \ {client.inflight},
                            !.status[client.inflight] = "cancelled"]
    <3>1. client.inflight # None
      BY <2>1 DEF None, Requests
    <3> DEFINE d == [client EXCEPT !.r.done = TRUE, !.inflight = None]
    <3>2. client' = [Close(d) EXCEPT !.pools = @ \ {client.inflight},
                                     !.status[client.inflight] = "cancelled"]
      BY <1>1, <3>1 DEF cancel_inflight
    <3> HIDE DEF d
    <3>3. d = b
      BY <2>3 DEF d
    <3> QED BY <3>2, <3>3
  <2> HIDE DEF b
  <2>6. /\ Shape(c) /\ Bare(c) /\ c.pools = client.pools
        /\ c.status = client.status /\ c.calls = client.calls
    BY <2>4, CloseFacts DEF Bare
  <2> HIDE DEF c
  <2>7. client' = [c EXCEPT !.pools = {}, !.status = S]
    <3>1. c.pools \ {client.inflight} = {}
      BY <2>1, <2>6
    <3> QED BY <2>1, <2>5, <2>6, <3>1 DEF Shape
  <2>8. S \in [Requests -> Statuses]
    BY <2>1 DEF Statuses
  <2> HIDE DEF S
  <2>9. /\ Shape(client') /\ client'.r = c.r /\ client'.inflight = c.inflight
        /\ client'.pools = {} /\ client'.status = S
        /\ client'.calls = client.calls
    BY <2>6, <2>7, <2>8 DEF Shape
  <2>10. Over(client')
    BY <2>6, <2>9 DEF Over, Bare
  <2> QED BY <1>3, <2>9, <2>10, CancelKeeps DEF S
<1> QED BY <1>2, <1>3 DEF ClientInv

(* The process dies: the request in flight is gone with it. *)
LEMMA CrashStep ==
  ASSUME ClientInv(client), Crash
  PROVE  ClientInv(client') /\ CallersStep(client, client')
<1> DEFINE S == [i \in Requests |->
                   IF client.status[i] = "pending"
                   THEN "cancelled" ELSE client.status[i]]
<1>1. client' = [Idle EXCEPT !.calls = client.calls, !.status = S]
  BY DEF Crash
<1>2. /\ client.status \in [Requests -> Statuses]
      /\ client.calls \in [Requests -> Nat]
  BY DEF ClientInv, Armed, Live, Held, Over, Shape
<1>3. S \in [Requests -> Statuses]
  BY <1>2 DEF Statuses
<1>4. Shape(Idle) /\ Bare(Idle) /\ Idle.pools = {}
  BY DEF Idle, NewRequest, Shape, RequestShape, Phases, Statuses, None, Bare
<1> HIDE DEF S
<1>5. /\ Shape(client') /\ client'.r = Idle.r
      /\ client'.inflight = Idle.inflight /\ client'.pools = {}
      /\ client'.status = S /\ client'.calls = client.calls
  BY <1>1, <1>2, <1>3, <1>4 DEF Shape
<1>6. Over(client')
  BY <1>4, <1>5 DEF Over, Bare
<1>7. CASE Armed(client)
  <2>1. S = [client.status EXCEPT ![client.r.id] = "cancelled"]
    BY <1>2, <1>7 DEF S, ClientInv, CallersInv, Armed, Live, Held
  <2> QED BY <1>5, <1>6, <1>7, <2>1, CancelKeeps
<1>8. CASE Over(client)
  <2>1. S = client.status
    BY <1>2, <1>8 DEF S, ClientInv, CallersInv, Over, Bare
  <2>2. CallersInv(client')
    BY <1>5, <1>6, <1>8, <2>1 DEF ClientInv, CallersInv, Over, Bare
  <2> QED BY <1>5, <1>6, <2>1, <2>2 DEF ClientInv, CallersStep
<1> QED BY <1>7, <1>8 DEF ClientInv

(* Every step keeps the invariant, and is a step of the callers' contract. *)
LEMMA NextStep ==
  ASSUME ClientInv(client), [Next]_vars
  PROVE  ClientInv(client') /\ CallersStep(client, client')
<1>1. ASSUME NEW i \in Requests, Request(i)
      PROVE  ClientInv(client') /\ CallersStep(client, client')
  BY <1>1, RequestStep
<1>2. CASE Return \/ UNCHANGED vars
  BY <1>2 DEF Return, vars, CallersStep
<1>3. CASE ResolveHandler \/ ConnectHandler \/ HandshakeHandler \/ WriteHandler
  BY <1>3, HandlerStep
<1>4. CASE ReadHandler
  BY <1>4, DataStep
<1>5. CASE NoData \/ \E n \in 1 .. SEGMENT : RecvData(n)
  BY <1>5, RecvStep
<1>6. CASE /\ client.r.phase \in {"recv", "reading"} /\ client.r.reply = <<>>
           /\ \E reply \in Replies : Reply(reply)
  BY <1>6, DataStep
<1>7. CASE Tick \/ TimedOut
  BY <1>7, TimerStep
<1>8. CASE Reload
  BY <1>8, ReloadStep
<1>9. CASE Crash
  BY <1>9, CrashStep
<1> QED BY <1>1, <1>2, <1>3, <1>4, <1>5, <1>6, <1>7, <1>8, <1>9 DEF Next

(* The invariant holds in every state of the client. *)
LEMMA ClientInvariant == Spec => []ClientInv(client)
<1>1. ClientInv(client) /\ [Next]_vars => ClientInv(client)'
  BY NextStep
<1> QED BY <1>1, InitInv, PTL DEF Spec

(* Whatever completes inside whichever call, the pointer by which            *)
(* ngx_autocert_acme_cancel_inflight() cancels names exactly the request     *)
(* whose resolver context, connection and timer are armed and whose pool is  *)
(* not freed, and none if nothing is armed.                                  *)
THEOREM PointerExact == Spec => []InflightExact
<1>1. ClientInv(client) => InflightExact
  BY DEF ClientInv, Armed, Live, Held, Over, Bare, InflightExact, None, Requests
<1> QED BY <1>1, ClientInvariant, PTL

(* The client keeps what acme.h promises the callers of                      *)
(* ngx_autocert_acme_request(): a request is refused and its handler never   *)
(* called, or taken and its handler called exactly once, unless it is        *)
(* cancelled; and one request at a time is under way.                        *)
THEOREM ClientKeepsContract == Spec => RequestContract
<1>1. Init => Contract!AInit
  BY DEF Init, Idle, Contract!AInit
<1>2. CallersStep(client, client') => [Contract!ANext]_(Contract!avars)
  BY DEF CallersStep, Refused, Taken, Answered, Cancelled, Contract!ANext,
         Contract!avars, Contract!Refuse, Contract!Take, Contract!Answer,
         Contract!Cancel, Contract!Told
<1>3. ClientInv(client) /\ [Next]_vars => [Contract!ANext]_(Contract!avars)
  BY <1>2, NextStep
<1> QED BY <1>1, <1>3, ClientInvariant, PTL
        DEF Spec, RequestContract, Contract!ASpec

-----------------------------------------------------------------------------
(* Only the loop over recv() touches what has been received. *)

HasData(w) ==
  "r" \in DOMAIN w /\ {"reply", "got", "parse", "cap"} \subseteq DOMAIN w.r

Kept(w, v) ==
  /\ HasData(v)
  /\ v.r.reply = w.r.reply /\ v.r.got = w.r.got /\ v.r.parse = w.r.parse
  /\ v.r.cap \in {w.r.cap, RECV_MAX}

(* It is kept along a chain of handlers. *)
LEMMA KeptOn == ASSUME NEW w, NEW u, NEW v, Kept(w, u), Kept(u, v) PROVE Kept(w, v)
BY DEF Kept

(* Each assignment of the bookkeeping keeps it. *)
LEMMA PiecesKeep ==
  ASSUME NEW w, HasData(w), NEW x, NEW y
  PROVE  /\ Kept(w, w) /\ Kept(w, Clear(w)) /\ Kept(w, Close(w))
         /\ Kept(w, [w EXCEPT !.r.done = TRUE])
         /\ Kept(w, [w EXCEPT !.r.timer = NULL])
         /\ Kept(w, [w EXCEPT !.r.sent = x])
         /\ Kept(w, [w EXCEPT !.r.resolve = FALSE])
         /\ Kept(w, [w EXCEPT !.r.sent = x, !.r.recv = TRUE, !.r.left = y])
         /\ Kept(w, [w EXCEPT !.r.conn = TRUE, !.inflight = x])
         /\ Kept(w, [w EXCEPT !.r.resolve = TRUE, !.inflight = x])
         /\ Kept(w, [w EXCEPT !.r.done = TRUE, !.inflight = None])
         /\ Kept(w, [w EXCEPT !.pools = x, !.status = y])
         /\ Kept(w, [w EXCEPT !.r.phase = x]) /\ Kept(w, [w EXCEPT !.r.cap = RECV_MAX])
         /\ Kept(w, [w EXCEPT !.r.timer = x, !.r.left = y])
         /\ Kept(w, [w EXCEPT !.r.eof = TRUE])
         /\ Kept(w, [w EXCEPT !.status = x])
BY DEF HasData, Kept, Clear, Close

(* So does waiting for the next event... *)
LEMMA WaitKeeps ==
  ASSUME NEW w, HasData(w), NEW x, NEW y PROVE Kept(w, Wait(w, x, y))
BY DEF HasData, Kept, Wait

(* ... and telling the caller. *)
LEMMA HandlerKeeps ==
  ASSUME NEW w, HasData(w), NEW x PROVE Kept(w, handler(w, x))
BY DEF HasData, Kept, handler

(* So does the end of a request... *)
LEMMA FinalizeKeeps == ASSUME NEW w, HasData(w), NEW rc PROVE Kept(w, finalize(w, rc))
<1> DEFINE a == [w EXCEPT !.r.done = TRUE]
           b == Clear(a)
           c == Close(b)
<1>1. Kept(w, w) /\ Kept(w, a)
  BY PiecesKeep
<1>2. finalize(w, rc) = w \/ finalize(w, rc) = handler(c, rc)
  BY DEF finalize
<1> HIDE DEF a
<1>3. Kept(w, b)
  BY <1>1, PiecesKeep, KeptOn DEF Kept
<1> HIDE DEF b
<1>4. Kept(w, c)
  BY <1>3, PiecesKeep, KeptOn DEF Kept
<1> HIDE DEF c
<1>5. Kept(w, handler(c, rc))
  BY <1>4, HandlerKeeps, KeptOn DEF Kept
<1> QED BY <1>1, <1>2, <1>5

(* ... and so do the handlers of all phases before reading. *)
LEMMA WriteKeeps ==
  ASSUME NEW w, HasData(w), NEW v \in write_handler(w)
  PROVE  Kept(w, v)
<1> DEFINE a == [w EXCEPT !.r.sent = SEND_LEN, !.r.recv = TRUE,
                          !.r.left = READ_TOTAL]
<1>1. ASSUME NEW n, v = Wait([w EXCEPT !.r.sent = n], "sending", TIMEOUT)
      PROVE  Kept(w, v)
  <2> DEFINE b == [w EXCEPT !.r.sent = n]
  <2>1. Kept(w, b)
    BY PiecesKeep
  <2> HIDE DEF b
  <2>2. Kept(b, Wait(b, "sending", TIMEOUT))
    BY <2>1, WaitKeeps DEF Kept
  <2> QED BY <1>1, <2>1, <2>2, KeptOn DEF b
<1>2. CASE v = Wait(a, "recv", Lesser(READ_TOTAL, TIMEOUT))
  <2>1. Kept(w, a)
    BY PiecesKeep
  <2> HIDE DEF a
  <2>2. Kept(a, Wait(a, "recv", Lesser(READ_TOTAL, TIMEOUT)))
    BY <2>1, WaitKeeps DEF Kept
  <2> QED BY <1>2, <2>1, <2>2, KeptOn
<1>3. CASE v \in Fail(w)
  BY <1>3, FinalizeKeeps DEF Fail
<1> QED BY <1>1, <1>2, <1>3 DEF write_handler

(* The handshake handler. *)
LEMMA HandshakeKeeps ==
  ASSUME NEW w, HasData(w), NEW v \in ssl_handshake_handler(w)
  PROVE  Kept(w, v)
<1> DEFINE a == [w EXCEPT !.r.timer = NULL]
<1>1. Kept(w, a)
  BY PiecesKeep
<1>2. v \in Fail(w) \/ v \in write_handler(a)
  BY DEF ssl_handshake_handler
<1> HIDE DEF a
<1>3. CASE v \in Fail(w)
  BY <1>3, FinalizeKeeps DEF Fail
<1>4. CASE v \in write_handler(a)
  <2>1. Kept(a, v)
    BY <1>1, <1>4, WriteKeeps DEF Kept
  <2> QED BY <1>1, <2>1, KeptOn
<1> QED BY <1>2, <1>3, <1>4

(* The start of TLS. *)
LEMMA SslInitKeeps ==
  ASSUME NEW w, HasData(w), NEW o \in ssl_init(w)
  PROVE  Kept(w, o.w)
<1>1. CASE o = Ret(w, "error")
  BY <1>1, PiecesKeep DEF Ret
<1>2. CASE o = Ret(Wait(w, "handshaking", TIMEOUT), "ok")
  BY <1>2, WaitKeeps DEF Ret
<1>3. ASSUME NEW v \in ssl_handshake_handler(w), o = Ret(v, "ok")
      PROVE  Kept(w, o.w)
  BY <1>3, HandshakeKeeps DEF Ret
<1> QED BY <1>1, <1>2, <1>3 DEF ssl_init

(* The start of a connection. *)
LEMMA ConnectKeeps ==
  ASSUME NEW w, HasData(w), NEW o \in connect(w)
  PROVE  Kept(w, o.w)
<1> DEFINE c == [w EXCEPT !.r.conn = TRUE, !.inflight = w.r.id]
<1>1. Kept(w, c)
  BY PiecesKeep
<1>2. \/ o = Ret(w, "error")
      \/ o = Ret(Wait(c, "connecting", TIMEOUT), "ok")
      \/ \E i \in ssl_init(c) :
           o = IF i.rc = "ok" THEN i ELSE Ret(Close(Clear(i.w)), "error")
  BY DEF connect
<1> HIDE DEF c
<1>3. CASE o = Ret(w, "error")
  BY <1>3, PiecesKeep DEF Ret
<1>4. CASE o = Ret(Wait(c, "connecting", TIMEOUT), "ok")
  <2>1. Kept(c, Wait(c, "connecting", TIMEOUT))
    BY <1>1, WaitKeeps DEF Kept
  <2>2. Kept(w, Wait(c, "connecting", TIMEOUT))
    BY <1>1, <2>1, KeptOn
  <2> QED BY <1>4, <2>2 DEF Ret
<1>5. ASSUME NEW i \in ssl_init(c),
             o = IF i.rc = "ok" THEN i ELSE Ret(Close(Clear(i.w)), "error")
      PROVE  Kept(w, o.w)
  <2> DEFINE d == i.w
             b == Clear(d)
  <2>1. Kept(c, d)
    BY <1>1, SslInitKeeps DEF Kept
  <2>2. Kept(w, d)
    BY <1>1, <2>1, KeptOn
  <2>3. o.w = d \/ o.w = Close(Clear(d))
    BY <1>5 DEF Ret
  <2> HIDE DEF d
  <2>4. Kept(w, b)
    BY <2>2, PiecesKeep, KeptOn DEF Kept
  <2> HIDE DEF b
  <2>5. Kept(w, Close(b))
    BY <2>4, PiecesKeep, KeptOn DEF Kept
  <2> QED BY <2>2, <2>3, <2>5 DEF b
<1> QED BY <1>2, <1>3, <1>4, <1>5

(* The connect handler. *)
LEMMA ConnectHandlerKeeps ==
  ASSUME NEW w, HasData(w), NEW v \in connect_handler(w)
  PROVE  Kept(w, v)
<1> DEFINE a == [w EXCEPT !.r.timer = NULL]
<1>1. Kept(w, a)
  BY PiecesKeep
<1>2. \/ v \in Fail(w)
      \/ \E o \in ssl_init(a) :
           v = IF o.rc = "ok" THEN o.w ELSE finalize(o.w, "error")
  BY DEF connect_handler
<1> HIDE DEF a
<1>3. CASE v \in Fail(w)
  BY <1>3, FinalizeKeeps DEF Fail
<1>4. ASSUME NEW o \in ssl_init(a), v = o.w \/ v = finalize(o.w, "error")
      PROVE  Kept(w, v)
  <2>1. Kept(w, o.w)
    BY <1>1, SslInitKeeps, KeptOn DEF Kept
  <2> DEFINE d == o.w
  <2> HIDE DEF d
  <2>2. Kept(w, d)
    BY <2>1 DEF d
  <2>3. Kept(w, finalize(d, "error"))
    BY <2>2, FinalizeKeeps, KeptOn DEF Kept
  <2> QED BY <1>4, <2>1, <2>3 DEF d
<1> QED BY <1>2, <1>3, <1>4

(* The resolve handler. *)
LEMMA ResolveHandlerKeeps ==
  ASSUME NEW w, HasData(w), NEW v \in resolve_handler(w)
  PROVE  Kept(w, v)
<1> DEFINE a == [w EXCEPT !.r.resolve = FALSE]
<1>1. Kept(w, a)
  BY PiecesKeep
<1>2. \/ v \in Fail(a)
      \/ \E o \in connect(a) :
           v = IF o.rc = "ok" THEN o.w ELSE finalize(o.w, "error")
  BY DEF resolve_handler
<1> HIDE DEF a
<1>3. CASE v \in Fail(a)
  <2>1. Kept(a, v)
    BY <1>1, <1>3, FinalizeKeeps DEF Fail, Kept
  <2> QED BY <1>1, <2>1, KeptOn
<1>4. ASSUME NEW o \in connect(a), v = o.w \/ v = finalize(o.w, "error")
      PROVE  Kept(w, v)
  <2>1. Kept(w, o.w)
    BY <1>1, ConnectKeeps, KeptOn DEF Kept
  <2> DEFINE d == o.w
  <2> HIDE DEF d
  <2>2. Kept(w, d)
    BY <2>1 DEF d
  <2>3. Kept(w, finalize(d, "error"))
    BY <2>2, FinalizeKeeps, KeptOn DEF Kept
  <2> QED BY <1>4, <2>1, <2>3 DEF d
<1> QED BY <1>2, <1>3, <1>4

(* The start of a request, with all that may complete inside it. *)
LEMMA RequestKeeps ==
  ASSUME NEW w, HasData(w), NEW o \in request(w)
  PROVE  Kept(w, o.w)
<1> DEFINE n == [w EXCEPT !.r.resolve = TRUE, !.inflight = w.r.id]
<1>1. Kept(w, n)
  BY PiecesKeep
<1>2. \/ o = Ret(w, "error") \/ o \in connect(w)
      \/ o = Ret(Close(Clear(n)), "error")
      \/ o = Ret(Wait(n, "resolving", TIMEOUT), "ok")
      \/ \E v \in resolve_handler(n) : o = Ret(v, "ok")
  BY DEF request, start_resolve
<1> HIDE DEF n
<1>3. CASE o = Ret(w, "error")
  BY <1>3, PiecesKeep DEF Ret
<1>4. CASE o \in connect(w)
  BY <1>4, ConnectKeeps
<1>5. CASE o = Ret(Close(Clear(n)), "error")
  <2> DEFINE b == Clear(n)
  <2>1. Kept(w, b)
    BY <1>1, PiecesKeep, KeptOn DEF Kept
  <2> HIDE DEF b
  <2>2. Kept(w, Close(b))
    BY <2>1, PiecesKeep, KeptOn DEF Kept
  <2> QED BY <1>5, <2>2 DEF Ret, b
<1>6. CASE o = Ret(Wait(n, "resolving", TIMEOUT), "ok")
  <2>1. Kept(n, Wait(n, "resolving", TIMEOUT))
    BY <1>1, WaitKeeps DEF Kept
  <2>2. Kept(w, Wait(n, "resolving", TIMEOUT))
    BY <1>1, <2>1, KeptOn
  <2> QED BY <1>6, <2>2 DEF Ret
<1>7. ASSUME NEW v \in resolve_handler(n), o = Ret(v, "ok")
      PROVE  Kept(w, o.w)
  <2>1. Kept(w, v)
    BY <1>1, ResolveHandlerKeeps, KeptOn DEF Kept
  <2> QED BY <1>7, <2>1 DEF Ret
<1> QED BY <1>2, <1>3, <1>4, <1>5, <1>6, <1>7

-----------------------------------------------------------------------------
(***************************************************************************)
(* The inductive invariant of the framing: while a request is armed, its   *)
(* parser may go on (ParsedRight, of FramingProofs); when it is over, the  *)
(* result stands.                                                          *)
(***************************************************************************)
Exact(w) ==
  LET r   == w.r
      ref == Decoded(Received(r))
  IN  r.id # None /\ r.got > 0 =>
        /\ r.parse.rc = ref.rc
        /\ r.parse.len = Len(r.parse.body)
        /\ ref.rc = DONE => r.parse.body = ref.body
        /\ w.status[r.id] = "ok" =>
             \/ ref.rc = DONE
             \/ r.eof /\ ref.by = "close" /\ r.parse.body = ref.body

Unread == {"resolving", "connecting", "handshaking", "sending"}

Sized(r) ==
  /\ r.reply \in Seq(STRING) /\ r.got \in Nat /\ r.got <= Len(r.reply)
  /\ r.cap \in Nat
Going(r) == ParsedRight(Received(r), r.parse) /\ r.parse.rc = AGAIN

FrameInv(w) ==
  /\ Sized(w.r)
  /\ w.r.phase # "none" => Going(w.r)
  /\ w.r.phase \in Unread => w.r.got = 0
  /\ w.r.phase = "none" => Exact(w)

(* What has come is the beginning of the reply. *)
LEMMA ReceivedBegins ==
  ASSUME NEW r, Sized(r)
  PROVE  /\ Received(r) \in Seq(STRING) /\ Len(Received(r)) = r.got
         /\ Begins(Received(r), r.reply)
         /\ \A i \in 1 .. r.got : Received(r)[i] = r.reply[i]
<1> DEFINE s == r.reply
           n == r.got
           u == SubSeq(s, 1, n)
<1>1. s \in Seq(STRING) /\ n \in Nat /\ n <= Len(s) /\ 1 \in Int /\ n \in Int
      /\ Len(s) \in Nat
  BY DEF Sized
<1> HIDE DEF s, n
<1>2. u \in Seq(STRING) /\ Len(u) = n /\ \A i \in 1 .. n : u[i] = s[i]
  <2>1. CASE n = 0
    <3>1. u = <<>>
      BY <1>1, <2>1, SubSeqEmpty
    <3> QED BY <1>1, <2>1, <3>1
  <2>2. CASE n # 0
    <3>1. 1 <= n /\ n - 1 + 1 = n
      BY <1>1, <2>2
    <3>2. \A i \in 1 .. n : s[i] \in STRING
      BY <1>1
    <3>3. /\ u \in Seq(STRING) /\ Len(u) = n - 1 + 1
          /\ \A i \in 1 .. n - 1 + 1 : u[i] = s[1 + i - 1]
      BY <1>1, <3>1, <3>2, SubSeqProperties
    <3> QED BY <1>1, <3>1, <3>3
  <2> QED BY <2>1, <2>2
<1> HIDE DEF u
<1>3. Begins(u, s)
  BY <1>1, <1>2 DEF Begins
<1> QED BY <1>2, <1>3 DEF Received, u, s, n

(* Nothing has come, and the parser has not been called. *)
LEMMA NothingRead ==
  ASSUME NEW r, Sized(r), r.got = 0, r.parse = Result(AGAIN, Unparsed)
  PROVE  Going(r)
<1> DEFINE s == Received(r)
<1>1. s \in Seq(STRING) /\ Len(s) = 0
  BY ReceivedBegins
<1>2. HeaderEnd(s) = NULL
  <2> HIDE DEF s
  <2>1. HeaderEnd(s) \in Nat => ~(HeaderEnd(s) + 4 <= Len(s))
    BY <1>1
  <2> QED BY <1>1, <2>1, HeaderEndType
<1>3. Decoded(s).rc = AGAIN
  BY <1>2, DecodedIs
<1>4. Unparsed = [Unparsed EXCEPT !.hdr_scan_pos = 0]
  <2>1. \A r0 \in Parsers : r0.hdr_scan_pos = 0 =>
          r0 = [r0 EXCEPT !.hdr_scan_pos = 0]
    BY DEF Parsers
  <2>2. Unparsed.hdr_scan_pos = 0
    BY DEF Unparsed
  <2> QED BY <2>1, <2>2, UnparsedType
<1>5. Good(s, Unparsed)
  BY <1>1, <1>2, <1>4 DEF Good
<1> HIDE DEF s
<1>6. Len(<<>>) = 0 /\ DONE # AGAIN
  BY DEF DONE, AGAIN
<1>7. ParsedRight(s, r.parse) /\ r.parse.rc = AGAIN
  BY <1>3, <1>5, <1>6 DEF ParsedRight, IsResult, Result
<1> QED BY <1>7 DEF Going, s

(* A request that has read nothing has the invariant. *)
LEMMA FreshFrame ==
  ASSUME NEW w, w.r.reply = <<>>, w.r.got = 0, w.r.cap \in Nat,
         w.r.parse = Result(AGAIN, Unparsed)
  PROVE  FrameInv(w)
<1>1. Sized(w.r)
  BY DEF Sized
<1>2. Going(w.r)
  BY <1>1, NothingRead
<1>3. ~(w.r.got > 0)
  OBVIOUS
<1> QED BY <1>1, <1>2, <1>3 DEF FrameInv, Exact

(* What is kept. *)
LEMMA KeptFrame ==
  ASSUME NEW w, NEW v, Kept(w, v), Sized(w.r), Going(w.r)
  PROVE  Sized(v.r) /\ Going(v.r) /\ Received(v.r) = Received(w.r)
BY AcmeAssumption DEF Kept, Sized, Going, Received

(* A request that goes on with what it has. *)
LEMMA KeptOpen ==
  ASSUME NEW w, NEW v, Kept(w, v), Sized(w.r), Going(w.r),
         v.r.phase # "none", v.r.phase \in Unread => v.r.got = 0
  PROVE  FrameInv(v)
BY KeptFrame DEF FrameInv

(* A request that has been read to where it is and ends without success. *)
LEMMA FailedFrame ==
  ASSUME NEW v, Sized(v.r), ParsedRight(Received(v.r), v.r.parse),
         v.r.phase = "none", v.status[v.r.id] # "ok"
  PROVE  FrameInv(v)
<1>1. Exact(v)
  BY DEF Exact, ParsedRight
<1> QED BY <1>1 DEF FrameInv, Unread

(* finalize tells the caller and closes. *)
LEMMA FinalizeEnds ==
  ASSUME NEW w, Armed(w), NEW rc \in {"ok", "error"}
  PROVE  LET v == finalize(w, rc)
         IN  /\ Kept(w, v) /\ v.r.phase = "none" /\ v.r.id = w.r.id
             /\ v.status[v.r.id] = rc /\ v.r.eof = w.r.eof
<1> DEFINE a == [w EXCEPT !.r.done = TRUE]
           b == Clear(a)
           c == Close(b)
           v == finalize(w, rc)
<1>1. Pointed(w) /\ Shape(w) /\ w.r.id \in Requests /\ w.pools = {w.r.id}
  BY LiveIsPointed DEF Armed, Live, Held
<1>2. HasData(w)
  BY <1>1 DEF Shape, RequestShape, HasData
<1>3. Kept(w, v)
  BY <1>2, FinalizeKeeps
<1>4. v = handler(c, rc)
  BY <1>1 DEF finalize, Pointed, Held
<1>5. /\ Shape(a) /\ a.r.id = w.r.id /\ a.pools = w.pools /\ a.r.eof = w.r.eof
  BY <1>1, DoneFacts DEF Shape, RequestShape
<1> HIDE DEF a, v
<1>6. Shape(b) /\ b.r = a.r /\ b.pools = a.pools
  BY <1>5, ClearFacts
<1> HIDE DEF b
<1>7. /\ Shape(c) /\ c.r.id = w.r.id /\ c.r.phase = "none" /\ c.pools = w.pools
      /\ c.r.eof = w.r.eof
  <2>1. Shape(c) /\ c.r.id = b.r.id /\ c.r.phase = "none" /\ c.pools = b.pools
    BY <1>6, CloseFacts
  <2>2. c.r.eof = b.r.eof
    BY <1>6 DEF Close, Shape, RequestShape
  <2> QED BY <1>5, <1>6, <2>1, <2>2
<1> HIDE DEF c
<1>8. v.r = c.r /\ Told(c, v, rc)
  <2>1. LET x == handler(c, rc) IN x.r = c.r /\ Told(c, x, rc)
    BY <1>1, <1>7, HandlerFacts
  <2> HIDE DEF handler
  <2> QED BY <1>4, <2>1
<1>9. v.status[w.r.id] = rc
  BY <1>1, <1>7, <1>8 DEF Told, Shape
<1> QED BY <1>3, <1>7, <1>8, <1>9 DEF v

(* An armed request may end with an error at any point. *)
LEMMA FailedEnd ==
  ASSUME NEW w, Armed(w), Sized(w.r), ParsedRight(Received(w.r), w.r.parse)
  PROVE  FrameInv(finalize(w, "error"))
<1> DEFINE v == finalize(w, "error")
<1>1. Kept(w, v) /\ v.r.phase = "none" /\ v.status[v.r.id] = "error"
  BY FinalizeEnds
<1> HIDE DEF v
<1>2. Sized(v.r) /\ ParsedRight(Received(v.r), v.r.parse)
  BY <1>1, AcmeAssumption DEF Kept, Sized, Received
<1>3. v.status[v.r.id] # "ok"
  BY <1>1
<1>4. FrameInv(v)
  BY <1>1, <1>2, <1>3, FailedFrame
<1> QED BY <1>4 DEF v

(* The parser returns one of three codes. *)
LEMMA DecodedCodes ==
  ASSUME NEW s \in Seq(STRING) PROVE Decoded(s).rc \in {DONE, AGAIN, ERROR}
<1> DEFINE h == HeaderEnd(s) + 4
           c == ChunkedFrom(s)[h]
<1>1. CASE HeaderEnd(s) = NULL
  BY <1>1, DecodedIs
<1>2. CASE HeaderEnd(s) # NULL /\ ~HeadBad(s, h) /\ HeadChunked(s, h)
  <2>1. h \in Offsets(s)
    BY <1>2, HeaderEndType DEF Offsets
  <2>2. c \in Decodings
    BY <2>1, ChunkedEquation
  <2>3. Decoded(s).rc = c.rc
    BY <1>2, DecodedIs
  <2> QED BY <2>2, <2>3 DEF Decodings
<1>3. CASE HeaderEnd(s) # NULL /\ (HeadBad(s, h) \/ ~HeadChunked(s, h))
  BY <1>3, DecodedIs
<1> QED BY <1>1, <1>2, <1>3

(* A new request has read nothing, whatever its start came to. *)
LEMMA RequestFrame ==
  ASSUME ClientInv(client), NEW i \in Requests, Request(i)
  PROVE  FrameInv(client')
<1> DEFINE w == [client EXCEPT !.r = NewRequest(i), !.pools = @ \cup {i}]
<1>1. Shape(client)
  BY DEF ClientInv, Armed, Live, Held, Over
<1>2. /\ HasData(w) /\ w.r.reply = <<>> /\ w.r.got = 0
      /\ w.r.parse = Result(AGAIN, Unparsed) /\ w.r.cap = RECV_INIT
  BY <1>1 DEF Shape, HasData, NewRequest
<1>3. PICK o \in request(w) :
        \/ client' = [o.w EXCEPT !.status[i] = "refused", !.pools = @ \ {i}]
        \/ client' = [o.w EXCEPT !.status[i] =
                        IF @ = "new" THEN "pending" ELSE @]
  BY DEF Request
<1> HIDE DEF w
<1>4. Kept(w, o.w)
  BY <1>2, RequestKeeps
<1>5. client'.r = o.w.r
  BY <1>3, <1>4 DEF Kept, HasData
<1> QED BY <1>2, <1>4, <1>5, FreshFrame, AcmeAssumption DEF Kept

(* Before the request is sent nothing is read. *)
LEMMA HandlerFrame ==
  ASSUME ClientInv(client), FrameInv(client),
         ResolveHandler \/ ConnectHandler \/ HandshakeHandler \/ WriteHandler
  PROVE  FrameInv(client')
<1>1. /\ Shape(client) /\ client.r.phase \in Unread /\ client.r.phase # "none"
  BY DEF ClientInv, Armed, Live, Held, Over, Unread, ResolveHandler,
         ConnectHandler, HandshakeHandler, WriteHandler
<1>2. HasData(client)
  BY <1>1 DEF Shape, RequestShape, HasData
<1>3. Kept(client, client')
  <2>1. CASE ResolveHandler
    <3> DEFINE a == [client EXCEPT !.r.timer = NULL]
    <3>1. Kept(client, a)
      BY <1>2, PiecesKeep
    <3>2. client' \in resolve_handler(a)
      BY <2>1 DEF ResolveHandler, Event
    <3> HIDE DEF a
    <3>3. Kept(a, client')
      BY <3>1, <3>2, ResolveHandlerKeeps DEF Kept
    <3> QED BY <3>1, <3>3, KeptOn
  <2>2. CASE ConnectHandler
    BY <1>2, <2>2, ConnectHandlerKeeps DEF ConnectHandler, Event
  <2>3. CASE HandshakeHandler
    BY <1>2, <2>3, HandshakeKeeps DEF HandshakeHandler, Event
  <2>4. CASE WriteHandler
    BY <1>2, <2>4, WriteKeeps DEF WriteHandler, Event
  <2> QED BY <2>1, <2>2, <2>3, <2>4
<1>4. Sized(client.r) /\ Going(client.r) /\ client.r.got = 0
  BY <1>1 DEF FrameInv
<1>5. client'.r.got = 0 /\ ~(client'.r.got > 0)
  BY <1>3, <1>4 DEF Kept
<1>6. Sized(client'.r) /\ Going(client'.r)
  BY <1>3, <1>4, KeptFrame
<1> QED BY <1>5, <1>6 DEF FrameInv, Exact

(* The reply exists before the first byte of it is read. *)
LEMMA ReplyFrame ==
  ASSUME ClientInv(client), FrameInv(client),
         client.r.phase \in {"recv", "reading"}, client.r.reply = <<>>,
         NEW reply \in Replies, Reply(reply)
  PROVE  FrameInv(client')
<1> DEFINE r == client.r
           q == client'.r
<1>1. Shape(client) /\ r.phase # "none" /\ r.phase \notin Unread
  BY DEF ClientInv, Armed, Live, Held, Over, Unread
<1>2. /\ q.reply = reply /\ q.got = r.got /\ q.parse = r.parse
      /\ q.phase = r.phase /\ q.cap = r.cap
  BY <1>1 DEF Reply, Event, Shape, RequestShape
<1>3. Sized(r) /\ Going(r) /\ reply \in Seq(STRING)
  BY <1>1, AcmeAssumption DEF FrameInv
<1>4. r.got = 0
  BY <1>3 DEF Sized
<1>5. Sized(q)
  BY <1>2, <1>3, <1>4 DEF Sized
<1>6. Received(q) = Received(r)
  <2>1. SubSeq(q.reply, 1, 0) = SubSeq(r.reply, 1, 0)
    BY <1>3, <1>5, SubSeqEmpty DEF Sized
  <2> QED BY <1>2, <1>4, <2>1 DEF Received
<1>7. Going(q)
  BY <1>2, <1>3, <1>6 DEF Going
<1> QED BY <1>1, <1>2, <1>5, <1>7 DEF FrameInv

(* Steps of a request that waits which read nothing. *)
LEMMA WaitFrame ==
  ASSUME ClientInv(client), FrameInv(client),
         \/ ReadHandler \/ RecvAgain \/ RecvError \/ GrowBuffer
         \/ (Tick \/ TimedOut) /\ client.r.phase # "none"
  PROVE  FrameInv(client')
<1>1. Armed(client) /\ client.r.phase # "none"
  BY Waiting DEF ReadHandler, RecvAgain, RecvError, GrowBuffer, Armed
<1>2. /\ Sized(client.r) /\ Going(client.r) /\ HasData(client)
      /\ Shape(client)
      /\ client.r.phase \in Unread => client.r.got = 0
  BY <1>1 DEF FrameInv, Armed, Live, Held, Shape, RequestShape, HasData
<1>3. FrameInv(finalize(client, "error"))
  BY <1>1, <1>2, FailedEnd DEF Going
<1>4. ASSUME NEW v, Kept(client, v),
             v.r.phase \in {"recv", "reading", client.r.phase}
      PROVE  FrameInv(v)
  <2>1. v.r.phase # "none" /\ (v.r.phase \in Unread => v.r.got = 0)
    BY <1>1, <1>2, <1>4 DEF Kept, Unread
  <2> QED BY <1>2, <1>4, <2>1, KeptOpen
<1>5. CASE ReadHandler
  <2>1. Kept(client, client')
    BY <1>2, <1>5, PiecesKeep DEF ReadHandler, Event
  <2>2. client'.r.phase = "recv"
    BY <1>2, <1>5 DEF ReadHandler, Event, Shape, RequestShape
  <2> QED BY <1>4, <2>1, <2>2
<1>6. CASE RecvAgain
  <2> DEFINE v == Wait(client, "reading", Lesser(client.r.left, TIMEOUT))
  <2>1. client' = finalize(client, "error") \/ client' = v
    BY <1>6 DEF RecvAgain, recv_again, Event
  <2>2. Kept(client, v) /\ v.r.phase = "reading"
    BY <1>2, WaitKeeps, WaitFacts DEF Phases
  <2> HIDE DEF v
  <2> QED BY <1>3, <1>4, <2>1, <2>2
<1>7. CASE RecvError
  BY <1>3, <1>7 DEF RecvError, Event
<1>8. CASE GrowBuffer
  <2> DEFINE v == [client EXCEPT !.r.cap = RECV_MAX]
  <2>1. client' = finalize(client, "error") \/ client' = v
    BY <1>8 DEF GrowBuffer, Event
  <2>2. Kept(client, v) /\ v.r.phase = client.r.phase
    BY <1>2, PiecesKeep DEF Shape, RequestShape
  <2> HIDE DEF v
  <2> QED BY <1>3, <1>4, <2>1, <2>2
<1>9. CASE Tick
  <2> DEFINE t == client.r.timer - 1
             l == IF client.r.left = 0 THEN 0 ELSE client.r.left - 1
             v == [client EXCEPT !.r.timer = t, !.r.left = l]
  <2>1. client' = v
    BY <1>2, <1>9 DEF Tick, Event, Shape, RequestShape
  <2> HIDE DEF t, l
  <2>2. Kept(client, v) /\ v.r.phase = client.r.phase
    BY <1>2, PiecesKeep DEF Shape, RequestShape
  <2> HIDE DEF v
  <2> QED BY <1>4, <2>1, <2>2
<1>10. CASE TimedOut
  BY <1>3, <1>10 DEF TimedOut, Event
<1> QED BY <1>5, <1>6, <1>7, <1>8, <1>9, <1>10

(* recv() returns data: the parser goes on from what it knew. *)
LEMMA DataFrame ==
  ASSUME ClientInv(client), FrameInv(client), NEW n \in 1 .. SEGMENT,
         RecvData(n)
  PROVE  FrameInv(client')
<1> DEFINE r == [client.r EXCEPT !.got = @ + n]
           p == parse_response(Received(r), r.parse.r)
           q == [r EXCEPT !.parse = p]
           v == [client EXCEPT !.r = q]
           s == Received(client.r)
           t == Received(q)
<1>1. Armed(client) /\ client.r.phase = "recv" /\ Shape(client)
  BY Waiting DEF RecvData, Armed, Live, Held
<1>2. Sized(client.r) /\ Going(client.r)
  BY <1>1 DEF FrameInv
<1>3. /\ r.reply = client.r.reply /\ r.got = client.r.got + n
      /\ r.parse = client.r.parse /\ r.phase = "recv"
  BY <1>1 DEF Shape, RequestShape
<1>4. client.r.got + n \in Nat /\ client.r.got + n <= Len(client.r.reply)
      /\ client.r.got + n > 0 /\ client.r.got <= client.r.got + n
  <2>1. /\ client.r.got \in Nat /\ n \in Nat /\ n > 0
        /\ Len(client.r.reply) \in Nat /\ client.r.cap \in Nat
    BY <1>2, AcmeAssumption DEF Sized
  <2>2. client.r.got + n <= Lesser(client.r.cap, Len(client.r.reply))
    BY DEF RecvData
  <2>3. client.r.got + n <= Len(client.r.reply)
    BY <2>1, <2>2 DEF Lesser
  <2> QED BY <2>1, <2>3
<1>5. client' = CASE p.rc = DONE  -> finalize(v, "ok")
                  [] p.rc = ERROR -> finalize(v, "error")
                  [] OTHER -> v
  BY DEF RecvData, Event
<1> HIDE DEF p
<1>6. /\ q.reply = client.r.reply /\ q.got = client.r.got + n
      /\ q.parse = p /\ q.phase = "recv" /\ SameRequest(client, q)
      /\ q.cap = client.r.cap
  <2> DEFINE g == client.r.got + n
  <2>1. q = [client.r EXCEPT !.got = g, !.parse = p]
    BY <1>1 DEF Shape, RequestShape
  <2> HIDE DEF g, q
  <2>2. /\ q.reply = client.r.reply /\ q.got = g
        /\ q.parse = p /\ q.phase = "recv" /\ SameRequest(client, q)
        /\ q.cap = client.r.cap
    BY <1>1, <2>1 DEF Armed, Live, Held, Shape, RequestShape, SameRequest, Phases
  <2> QED BY <2>2 DEF g
<1>7. t = Received(r)
  BY <1>3, <1>6 DEF Received
<1> HIDE DEF r, q
<1>8. Sized(q)
  BY <1>2, <1>4, <1>6 DEF Sized
<1>9. Begins(s, t) /\ t \in Seq(STRING)
  <2>1. /\ s \in Seq(STRING) /\ Len(s) = client.r.got
        /\ \A i \in 1 .. client.r.got : s[i] = client.r.reply[i]
    BY <1>2, ReceivedBegins
  <2>2. /\ t \in Seq(STRING) /\ Len(t) = client.r.got + n
        /\ \A i \in 1 .. (client.r.got + n) : t[i] = client.r.reply[i]
    BY <1>6, <1>8, ReceivedBegins
  <2>3. client.r.got \in Nat /\ n \in Nat
    BY <1>2 DEF Sized
  <2> HIDE DEF s, t
  <2>4. \A i \in 1 .. Len(s) : i \in 1 .. client.r.got /\ i \in 1 .. (client.r.got + n)
    BY <2>1, <2>3
  <2>5. Len(s) <= Len(t)
    BY <1>4, <2>1, <2>2
  <2> QED BY <2>1, <2>2, <2>4, <2>5 DEF Begins
<1>10. ParsedRight(t, p)
  <2>1. Good(s, client.r.parse.r)
    BY <1>2 DEF Going, ParsedRight
  <2>2. p = parse_response(t, client.r.parse.r)
    BY <1>3, <1>7 DEF p
  <2> HIDE DEF s, t
  <2> QED BY <1>9, <2>1, <2>2, ParseReads
<1>11. p.rc \in {DONE, AGAIN, ERROR}
  BY <1>9, <1>10, DecodedCodes DEF ParsedRight
<1>12. Armed(v) /\ v.r = q
  BY <1>1, <1>6, DataLeads, PutRequest DEF SameRequest
<1>13. DONE # AGAIN /\ DONE # ERROR /\ ERROR # AGAIN
  BY DEF DONE, AGAIN, ERROR
<1> HIDE DEF v
<1>14. CASE p.rc = DONE
  <2> DEFINE u == finalize(v, "ok")
  <2>1. client' = u
    BY <1>5, <1>13, <1>14
  <2>2. Kept(v, u) /\ u.r.phase = "none"
    BY <1>12, FinalizeEnds
  <2> HIDE DEF u
  <2>3. Sized(u.r) /\ Received(u.r) = t /\ u.r.parse = p
    BY <1>6, <1>8, <1>12, <2>2, AcmeAssumption DEF Kept, Sized, Received
  <2> HIDE DEF t
  <2>4. Decoded(t).rc = DONE
    BY <1>10, <1>14 DEF ParsedRight
  <2>5. Exact(u)
    BY <1>10, <1>14, <2>3, <2>4 DEF Exact, ParsedRight
  <2> QED BY <2>1, <2>2, <2>3, <2>5 DEF FrameInv, Unread
<1>15. CASE p.rc = ERROR
  <2>1. client' = finalize(v, "error")
    BY <1>5, <1>13, <1>15
  <2>2. Sized(v.r) /\ ParsedRight(Received(v.r), v.r.parse)
    BY <1>6, <1>8, <1>10, <1>12
  <2> QED BY <1>12, <2>1, <2>2, FailedEnd
<1>16. CASE p.rc = AGAIN
  <2>1. client' = v
    BY <1>5, <1>13, <1>16
  <2>2. Sized(v.r) /\ Going(v.r) /\ v.r.phase = "recv"
    BY <1>6, <1>8, <1>10, <1>12, <1>16 DEF Going
  <2> QED BY <2>1, <2>2 DEF FrameInv, Unread
<1> QED BY <1>11, <1>14, <1>15, <1>16

(* The peer closes: what has come is the response only if nothing says that  *)
(* more belongs to it.                                                       *)
LEMMA EofFrame ==
  ASSUME ClientInv(client), FrameInv(client), RecvEof
  PROVE  FrameInv(client')
<1> DEFINE r == client.r
           p == r.parse.r
           s == Received(r)
           short == \/ ~p.headers_done \/ p.chunked
                    \/ p.content_length # NULL
                         /\ r.got - p.body_offset < p.content_length
           body == SubSeq(r.reply, p.body_offset + 1, r.got)
           q == [r EXCEPT !.eof = TRUE]
           a == [r.parse EXCEPT !.body = body, !.len = Len(body)]
           u == [q EXCEPT !.parse = a]
           v == [client EXCEPT !.r = q]
           x == [v EXCEPT !.r.parse.body = body, !.r.parse.len = Len(body)]
<1>1. Armed(client) /\ r.phase = "recv" /\ Shape(client)
  BY Waiting DEF RecvEof, Armed, Live, Held
<1>2. Sized(r) /\ Going(r)
  BY <1>1 DEF FrameInv
<1>3. client' = IF short THEN finalize(v, "error") ELSE finalize(x, "ok")
  BY DEF RecvEof, Event
<1>4. x = [client EXCEPT !.r = u]
  <2> HIDE DEF body
  <2> QED BY <1>1 DEF Shape, RequestShape
<1> HIDE DEF x, a, body
<1>5. /\ SameRequest(client, q) /\ SameRequest(client, u)
      /\ q.reply = r.reply /\ q.got = r.got /\ q.cap = r.cap /\ q.parse = r.parse
      /\ u.reply = r.reply /\ u.got = r.got /\ u.cap = r.cap /\ u.parse = a
      /\ u.eof = TRUE
  BY <1>1 DEF Armed, Live, Held, Shape, RequestShape, SameRequest, Phases
<1> HIDE DEF q, u
<1>6. Armed(v) /\ v.r = q /\ Armed(x) /\ x.r = u
  BY <1>1, <1>4, <1>5, DataLeads, PutRequest DEF SameRequest
<1>7. Sized(q) /\ Received(q) = s /\ Sized(u) /\ Received(u) = s
  BY <1>2, <1>5 DEF Sized, Received
<1> HIDE DEF v
<1>8. CASE short
  <2>1. client' = finalize(v, "error")
    BY <1>3, <1>8
  <2>2. Sized(v.r) /\ ParsedRight(Received(v.r), v.r.parse)
    BY <1>2, <1>5, <1>6, <1>7 DEF Going
  <2> QED BY <1>6, <2>1, <2>2, FailedEnd
<1>9. CASE ~short
  <2> DEFINE y == finalize(x, "ok")
  <2>1. client' = y
    BY <1>3, <1>9
  <2>2. /\ Kept(x, y) /\ y.r.phase = "none" /\ y.r.id = x.r.id
        /\ y.r.eof = x.r.eof
    BY <1>6, FinalizeEnds
  <2> HIDE DEF y
  <2>3. /\ s \in Seq(STRING) /\ Len(s) = r.got /\ Begins(s, r.reply)
        /\ r.got \in Nat
    BY <1>2, ReceivedBegins DEF Sized
  <2>4. /\ Good(s, p) /\ Decoded(s).rc = AGAIN /\ r.parse.rc = AGAIN
        /\ p.headers_done /\ ~p.chunked
        /\ p.content_length = NULL \/ ~(r.got - p.body_offset < p.content_length)
    BY <1>2, <1>9 DEF Going, ParsedRight
  <2> HIDE DEF s
  <2>5. p \in Parsers
    BY <2>4, UnparsedType DEF Good, HeadersRead, Unparsed
  <2>6. p.body_offset \in Nat /\ p.content_length \in Nat \cup {NULL}
    BY <2>5 DEF Parsers
  <2>7. p.content_length = NULL \/ Len(s) - p.body_offset >= p.content_length
    BY <2>3, <2>4, <2>6
  <2>8. /\ Decoded(s).by = "close"
        /\ Decoded(s).body = SubSeq(s, p.body_offset + 1, Len(s))
    BY <2>3, <2>4, <2>7, CloseReads
  <2>9. body = SubSeq(s, p.body_offset + 1, Len(s))
    <3> DEFINE m == p.body_offset + 1
               n == r.got
               reply == r.reply
    <3>1. m \in Nat \ {0} /\ n \in Int /\ n <= Len(s) /\ Begins(s, reply)
      BY <2>3, <2>6
    <3> HIDE DEF m, n, reply
    <3>2. SubSeq(reply, m, n) = SubSeq(s, m, n)
      BY <3>1, SubSeqStays
    <3> QED BY <2>3, <3>2 DEF body, m, n, reply
  <2>10. a.rc = AGAIN /\ a.body = body /\ a.len = Len(body)
    <3>1. {"rc", "body", "len"} \subseteq DOMAIN r.parse
      BY <1>2 DEF Going, ParsedRight, IsResult
    <3> QED BY <2>4, <3>1 DEF a
  <2>11. Sized(y.r) /\ Received(y.r) = s /\ y.r.parse = a /\ y.r.eof
    BY <1>5, <1>6, <1>7, <2>2, AcmeAssumption DEF Kept, Sized, Received
  <2>12. Exact(y)
    <3>1. DONE # AGAIN
      BY DEF DONE, AGAIN
    <3> QED BY <2>4, <2>8, <2>9, <2>10, <2>11, <3>1 DEF Exact
  <2> QED BY <2>1, <2>2, <2>11, <2>12 DEF FrameInv, Unread
<1> QED BY <1>8, <1>9

(* A reload closes the request without success. *)
LEMMA ReloadFrame ==
  ASSUME ClientInv(client), FrameInv(client), Reload
  PROVE  FrameInv(client')
<1>1. client' = cancel_inflight(client)
  BY DEF Reload, Event
<1>2. CASE Over(client)
  <2>1. client' = client
    BY <1>1, <1>2 DEF cancel_inflight, Over, Bare
  <2> QED BY <2>1
<1>3. CASE Armed(client)
  <2> DEFINE b == [client EXCEPT !.r.done = TRUE, !.inflight = None]
             c == Close(b)
             i == client.r.id
  <2>1. /\ Shape(client) /\ client.inflight = i /\ i \in Requests
        /\ HasData(client) /\ client.r.phase # "none"
    BY <1>3 DEF Armed, Live, Held, Shape, RequestShape, HasData
  <2>2. client' = [c EXCEPT !.pools = @ \ {i}, !.status[i] = "cancelled"]
    <3>1. client.inflight # None
      BY <2>1 DEF None, Requests
    <3> QED BY <1>1, <2>1, <3>1 DEF cancel_inflight
  <2>3. Kept(client, b)
    BY <2>1, PiecesKeep
  <2>4. b.status = client.status /\ Shape(b) /\ b.r.id = i
    BY <2>1 DEF Shape, RequestShape, None
  <2> HIDE DEF b
  <2>5. Kept(b, c)
    BY <2>3, PiecesKeep DEF Kept
  <2>6. Kept(client, c)
    BY <2>3, <2>5, KeptOn
  <2>7. Shape(c) /\ c.r.phase = "none" /\ c.status = client.status /\ c.r.id = i
    BY <2>4, CloseFacts
  <2> HIDE DEF c
  <2>8. client'.r = c.r /\ client'.status[i] = "cancelled"
    BY <2>1, <2>2, <2>7 DEF Shape
  <2>9. /\ Sized(client'.r) /\ ParsedRight(Received(client'.r), client'.r.parse)
        /\ client'.r.phase = "none" /\ client'.status[client'.r.id] # "ok"
    <3>1. Sized(client.r) /\ Going(client.r)
      BY <2>1 DEF FrameInv
    <3>2. Sized(c.r) /\ Going(c.r)
      BY <2>6, <3>1, KeptFrame
    <3> QED BY <2>7, <2>8, <3>2 DEF Going
  <2> QED BY <2>9, FailedFrame
<1> QED BY <1>2, <1>3 DEF ClientInv

(* After a crash there is no request. *)
LEMMA CrashFrame == ASSUME Crash PROVE FrameInv(client')
<1>1. client'.r = NewRequest(None)
  BY DEF Crash, Idle
<1>2. /\ client'.r.reply = <<>> /\ client'.r.got = 0
      /\ client'.r.parse = Result(AGAIN, Unparsed) /\ client'.r.cap = RECV_INIT
  BY <1>1 DEF NewRequest
<1> QED BY <1>2, FreshFrame, AcmeAssumption

(* There is no request at first. *)
LEMMA InitFrame == Init => FrameInv(client)
<1> SUFFICES ASSUME Init PROVE FrameInv(client)
  OBVIOUS
<1>1. client.r = NewRequest(None)
  BY DEF Init, Idle
<1>2. /\ client.r.reply = <<>> /\ client.r.got = 0
      /\ client.r.parse = Result(AGAIN, Unparsed) /\ client.r.cap = RECV_INIT
  BY <1>1 DEF NewRequest
<1> QED BY <1>2, FreshFrame, AcmeAssumption

(* Every step keeps the framing. *)
LEMMA NextFrame ==
  ASSUME ClientInv(client), FrameInv(client), [Next]_vars
  PROVE  FrameInv(client')
<1>1. ASSUME NEW i \in Requests, Request(i) PROVE FrameInv(client')
  BY <1>1, RequestFrame
<1>2. CASE Return \/ UNCHANGED vars
  BY <1>2 DEF Return, vars
<1>3. CASE ResolveHandler \/ ConnectHandler \/ HandshakeHandler \/ WriteHandler
  BY <1>3, HandlerFrame
<1>4. CASE ReadHandler \/ RecvAgain \/ RecvError \/ GrowBuffer
  BY <1>4, WaitFrame
<1>5. ASSUME NEW n \in 1 .. SEGMENT, RecvData(n) PROVE FrameInv(client')
  BY <1>5, DataFrame
<1>6. CASE RecvEof
  BY <1>6, EofFrame
<1>7. CASE /\ client.r.phase \in {"recv", "reading"} /\ client.r.reply = <<>>
           /\ \E reply \in Replies : Reply(reply)
  BY <1>7, ReplyFrame
<1>8. CASE Tick \/ TimedOut
  <2>1. client.r.phase # "none"
    BY <1>8 DEF ClientInv, Armed, Over, Bare, Tick, TimedOut, NULL
  <2> QED BY <1>8, <2>1, WaitFrame
<1>9. CASE Reload
  BY <1>9, ReloadFrame
<1>10. CASE Crash
  BY <1>10, CrashFrame
<1> QED BY <1>1, <1>2, <1>3, <1>4, <1>5, <1>6, <1>7, <1>8, <1>9, <1>10
        DEF Next, NoData

(* However a CA's response is cut into reads, wherever the buffer grows, and *)
(* whenever the peer closes, a timer expires or a reload comes in between:   *)
(* the result of ngx_autocert_acme_parse_response() with its cursors is that *)
(* of reading all that has come from its first byte, the body handed to the  *)
(* caller is that of the response, and a response that ends early is never   *)
(* reported as a whole one.  For any responses, of any length.               *)
THEOREM FramingIsExact == Spec => []FramingExact
<1>1. ClientInv(client) /\ FrameInv(client) => FramingExact
  <2> SUFFICES ASSUME ClientInv(client), FrameInv(client) PROVE FramingExact
    OBVIOUS
  <2>1. CASE client.r.phase = "none"
    BY <2>1 DEF FrameInv, Exact, FramingExact
  <2>2. CASE client.r.phase # "none"
    <3>1. Going(client.r)
      BY <2>2 DEF FrameInv
    <3>2. client.r.id \in Requests /\ client.status[client.r.id] = "pending"
      BY <2>2, Waiting DEF Armed, Live, Held, ClientInv, CallersInv
    <3> QED BY <3>1, <3>2 DEF Going, ParsedRight, FramingExact
  <2> QED BY <2>1, <2>2
<1>2. ClientInv(client) /\ FrameInv(client) /\ [Next]_vars => FrameInv(client)'
  BY NextFrame
<1> QED BY <1>1, <1>2, InitFrame, ClientInvariant, PTL DEF Spec

-----------------------------------------------------------------------------
(* TIME                                                                      *)

(* The timer of a request that waits is within its bound; while it reads, it *)
(* runs out no later than the total time.                                    *)
Timed(r) ==
  /\ r.phase \in {"recv", "reading"} =>
       r.left \in Nat /\ r.timer \in Nat /\ r.timer <= r.left
  /\ r.phase \in {"resolving", "connecting", "handshaking", "sending"} =>
       r.timer \in 0 .. TIMEOUT
  /\ r.phase = "sending" => r.sent \in 0 .. (SEND_LEN - 1)

TimeInv(w) == w.r.phase # "none" => Timed(w.r)

(* A request that has to send yet, with k timers of its own before. *)
Allowed(k) == k * TIMEOUT + READ_TOTAL

Within(v, k) == v.r.phase # "none" => Timed(v.r) /\ TimeLeft(v.r) <= Allowed(k)

(* One more timer is TIMEOUT more ticks. *)
LEMMA AllowedIs ==
  ASSUME NEW k \in Nat
  PROVE  /\ Allowed(k) \in Nat /\ READ_TOTAL <= Allowed(k)
         /\ Allowed(k + 1) = TIMEOUT + Allowed(k)
<1>1. TIMEOUT \in Nat /\ READ_TOTAL \in Nat
  BY AcmeAssumption
<1>2. k * TIMEOUT \in Nat /\ (k + 1) * TIMEOUT = k * TIMEOUT + TIMEOUT
  BY <1>1
<1> QED BY <1>1, <1>2 DEF Allowed

(* More timers allow no less time. *)
LEMMA AllowedGrows ==
  ASSUME NEW j \in Nat, NEW k \in Nat, j <= k
  PROVE  Allowed(j) <= Allowed(k)
<1>1. TIMEOUT \in Nat /\ READ_TOTAL \in Nat /\ k - j \in Nat
  BY AcmeAssumption
<1>2. (k - j) * TIMEOUT \in Nat /\ j * TIMEOUT \in Nat
  BY <1>1
<1>3. k * TIMEOUT = j * TIMEOUT + (k - j) * TIMEOUT
  BY <1>1
<1> QED BY <1>1, <1>2, <1>3 DEF Allowed

(* What a request has left, by what it waits for. *)
LEMMA TimeLeftIs ==
  ASSUME NEW r, Timed(r), r.phase \in Phases \ {"none"}
  PROVE  /\ r.phase = "resolving" => TimeLeft(r) = r.timer + Allowed(SEND_LEN + 2)
         /\ r.phase = "connecting" => TimeLeft(r) = r.timer + Allowed(SEND_LEN + 1)
         /\ r.phase = "handshaking" => TimeLeft(r) = r.timer + Allowed(SEND_LEN)
         /\ r.phase = "sending" =>
              TimeLeft(r) = r.timer + Allowed(SEND_LEN - 1 - r.sent)
         /\ r.phase \in {"recv", "reading"} => TimeLeft(r) = r.left
         /\ TimeLeft(r) \in Nat
<1>1. /\ SEND_LEN \in Nat /\ SEND_LEN + 1 \in Nat /\ SEND_LEN + 2 \in Nat
      /\ TIMEOUT \in Nat /\ READ_TOTAL \in Nat
  BY AcmeAssumption
<1>2. ASSUME NEW m \in Nat, Waits(r) = m, r.timer \in Nat,
             r.phase \notin {"recv", "reading"}
      PROVE  TimeLeft(r) = r.timer + Allowed(m) /\ TimeLeft(r) \in Nat
  <2>1. TimeLeft(r) = r.timer + m * TIMEOUT + READ_TOTAL
    BY <1>2 DEF TimeLeft
  <2>2. m * TIMEOUT \in Nat
    BY <1>1, <1>2
  <2> QED BY <1>1, <1>2, <2>1, <2>2 DEF Allowed
<1>3. CASE r.phase = "resolving"
  <2>1. Waits(r) = SEND_LEN + 2 /\ r.timer \in Nat
    BY <1>1, <1>3 DEF Waits, Timed
  <2> QED BY <1>1, <1>2, <1>3, <2>1
<1>4. CASE r.phase = "connecting"
  <2>1. Waits(r) = SEND_LEN + 1 /\ r.timer \in Nat
    BY <1>1, <1>4 DEF Waits, Timed
  <2> QED BY <1>1, <1>2, <1>4, <2>1
<1>5. CASE r.phase = "handshaking"
  <2>1. Waits(r) = SEND_LEN /\ r.timer \in Nat
    BY <1>1, <1>5 DEF Waits, Timed
  <2> QED BY <1>1, <1>2, <1>5, <2>1
<1>6. CASE r.phase = "sending"
  <2>1. /\ Waits(r) = SEND_LEN - 1 - r.sent /\ r.timer \in Nat
        /\ SEND_LEN - 1 - r.sent \in Nat
    BY <1>1, <1>6 DEF Waits, Timed
  <2> QED BY <1>2, <1>6, <2>1
<1>7. CASE r.phase \in {"recv", "reading"}
  BY <1>7 DEF TimeLeft, Timed
<1> QED BY <1>3, <1>4, <1>5, <1>6, <1>7 DEF Phases

(* A longer allowance. *)
LEMMA WithinMore ==
  ASSUME NEW v, Shape(v), NEW j \in Nat, NEW k \in Nat, j <= k, Within(v, j)
  PROVE  Within(v, k)
<1>1. Allowed(j) \in Nat /\ Allowed(k) \in Nat /\ Allowed(j) <= Allowed(k)
  BY AllowedIs, AllowedGrows
<1>2. v.r.phase # "none" => TimeLeft(v.r) \in Nat
  BY TimeLeftIs DEF Within, Shape, RequestShape
<1> QED BY <1>1, <1>2 DEF Within

(* The request is over. *)
LEMMA EndedWithin ==
  ASSUME NEW w, Pointed(w), NEW rc \in {"ok", "error"}, NEW k
  PROVE  finalize(w, rc).r.phase = "none" /\ Within(finalize(w, rc), k)
BY FinalizeLeads DEF Over, Bare, Within

(* What a wait leaves of the request. *)
LEMMA WaitClock ==
  ASSUME NEW w, Shape(w), NEW ph \in Phases, NEW t
  PROVE  /\ Wait(w, ph, t).r.phase = ph /\ Wait(w, ph, t).r.timer = t
         /\ Wait(w, ph, t).r.left = w.r.left /\ Wait(w, ph, t).r.sent = w.r.sent
BY DEF Shape, RequestShape, Wait, Phases

(* A timer for the next event, with k more to come. *)
LEMMA WaitWithin ==
  ASSUME NEW w, Shape(w), NEW ph, NEW k \in Nat,
         \/ ph = "resolving" /\ k = SEND_LEN + 2
         \/ ph = "connecting" /\ k = SEND_LEN + 1
         \/ ph = "handshaking" /\ k = SEND_LEN
         \/ ph = "sending" /\ w.r.sent \in 0 .. (SEND_LEN - 1)
              /\ k = SEND_LEN - 1 - w.r.sent
  PROVE  Within(Wait(w, ph, TIMEOUT), k + 1)
<1> DEFINE v == Wait(w, ph, TIMEOUT)
<1>1. ph \in Phases \ {"none"} /\ ph \notin {"recv", "reading"}
  BY DEF Phases
<1>2. v.r.phase = ph /\ v.r.timer = TIMEOUT /\ v.r.sent = w.r.sent
  BY <1>1, WaitClock
<1> HIDE DEF v
<1>3. TIMEOUT \in 0 .. TIMEOUT
  BY AcmeAssumption
<1>4. Timed(v.r)
  BY <1>1, <1>2, <1>3 DEF Timed
<1>5. TimeLeft(v.r) = TIMEOUT + Allowed(k)
  BY <1>1, <1>2, <1>4, TimeLeftIs
<1>6. Allowed(k + 1) = TIMEOUT + Allowed(k) /\ Allowed(k + 1) \in Nat
  BY AllowedIs
<1>7. Within(v, k + 1)
  BY <1>4, <1>5, <1>6 DEF Within
<1> QED BY <1>7 DEF v

(* The write handler: a wait for each byte at most, then the total time to   *)
(* read the response.                                                        *)
LEMMA WriteWithin ==
  ASSUME NEW w, Live(w), NEW k \in 0 .. SEND_LEN,
         k = IF w.r.phase = "sending" THEN w.r.sent + 1 ELSE 0,
         NEW v \in write_handler(w)
  PROVE  Within(v, SEND_LEN - k)
<1> DEFINE a == [w EXCEPT !.r.sent = SEND_LEN, !.r.recv = TRUE,
                          !.r.left = READ_TOTAL]
<1>1. /\ SEND_LEN \in Nat /\ k \in Nat /\ SEND_LEN - k \in Nat
      /\ TIMEOUT \in Nat /\ READ_TOTAL \in Nat
  BY AcmeAssumption
<1>2. \/ \E n \in k .. (SEND_LEN - 1) :
           v = Wait([w EXCEPT !.r.sent = n], "sending", TIMEOUT)
      \/ v = Wait(a, "recv", Lesser(READ_TOTAL, TIMEOUT))
      \/ v \in Fail(w)
  BY DEF write_handler
<1>3. ASSUME NEW n \in k .. (SEND_LEN - 1),
             v = Wait([w EXCEPT !.r.sent = n], "sending", TIMEOUT)
      PROVE  Within(v, SEND_LEN - k)
  <2> DEFINE b == [w EXCEPT !.r.sent = n]
  <2>1. Live(b) /\ b.r.sent = n
    BY SentKept DEF Live, Held, Shape, RequestShape
  <2> HIDE DEF b
  <2>2. /\ n \in 0 .. (SEND_LEN - 1) /\ SEND_LEN - 1 - n \in Nat
        /\ (SEND_LEN - 1 - n) + 1 = SEND_LEN - n /\ SEND_LEN - n \in Nat
        /\ SEND_LEN - n <= SEND_LEN - k
    BY <1>1
  <2>3. Within(Wait(b, "sending", TIMEOUT), SEND_LEN - n)
    BY <2>1, <2>2, WaitWithin DEF Live, Held
  <2>4. v = Wait(b, "sending", TIMEOUT) /\ Shape(v)
    BY <1>3, <2>1, WaitFacts DEF Live, Held, Phases, b
  <2> QED BY <1>1, <2>2, <2>3, <2>4, WithinMore
<1>4. CASE v = Wait(a, "recv", Lesser(READ_TOTAL, TIMEOUT))
  <2>1. Live(a) /\ a.r.left = READ_TOTAL
    <3>1. Live(a)
      BY AllSentKept
    <3>2. w \in [r : {w.r}, inflight : {w.inflight}, pools : {w.pools},
                status : {w.status}, calls : {w.calls}]
      BY DEF Live, Held, Shape
    <3>3. "left" \in DOMAIN w.r
      BY DEF Live, Held, Shape, RequestShape
    <3>4. a.r.left = READ_TOTAL
      BY <3>2, <3>3
    <3> QED BY <3>1, <3>4
  <2> HIDE DEF a
  <2>2. /\ v.r.phase = "recv" /\ v.r.left = READ_TOTAL
        /\ v.r.timer = Lesser(READ_TOTAL, TIMEOUT)
    BY <1>4, <2>1, WaitClock DEF Live, Held, Phases
  <2>3. /\ Lesser(READ_TOTAL, TIMEOUT) \in Nat
        /\ Lesser(READ_TOTAL, TIMEOUT) <= READ_TOTAL
    BY <1>1 DEF Lesser
  <2>4. Timed(v.r) /\ TimeLeft(v.r) = READ_TOTAL
    BY <1>1, <2>2, <2>3 DEF Timed, TimeLeft
  <2> QED BY <1>1, <2>4, AllowedIs DEF Within
<1>5. CASE v \in Fail(w)
  BY <1>5, LiveIsPointed, EndedWithin DEF Fail
<1> QED BY <1>2, <1>3, <1>4, <1>5

(* The handshake handler. *)
LEMMA HandshakeWithin ==
  ASSUME NEW w, Live(w), w.r.phase # "sending",
         NEW v \in ssl_handshake_handler(w)
  PROVE  Within(v, SEND_LEN)
<1> DEFINE a == [w EXCEPT !.r.timer = NULL]
<1>1. Live(a) /\ a.r.phase # "sending"
  BY TimerKept DEF Live, Held, Shape, RequestShape
<1>2. v \in Fail(w) \/ v \in write_handler(a)
  BY DEF ssl_handshake_handler
<1> HIDE DEF a
<1>3. 0 \in 0 .. SEND_LEN /\ SEND_LEN - 0 = SEND_LEN
  BY AcmeAssumption
<1>4. CASE v \in Fail(w)
  BY <1>4, LiveIsPointed, EndedWithin DEF Fail
<1>5. CASE v \in write_handler(a)
  <2>1. Within(v, SEND_LEN - 0)
    BY <1>1, <1>3, <1>5, WriteWithin
  <2> QED BY <1>3, <2>1
<1> QED BY <1>2, <1>4, <1>5

(* The start of TLS. *)
LEMMA SslInitWithin ==
  ASSUME NEW w, Live(w), w.r.phase # "sending", NEW o \in ssl_init(w),
         o.rc = "ok"
  PROVE  Within(o.w, SEND_LEN + 1)
<1>1. SEND_LEN \in Nat /\ SEND_LEN + 1 \in Nat /\ SEND_LEN <= SEND_LEN + 1
  BY AcmeAssumption
<1>2. CASE o = Ret(Wait(w, "handshaking", TIMEOUT), "ok")
  BY <1>1, <1>2, WaitWithin DEF Ret, Live, Held
<1>3. ASSUME NEW v \in ssl_handshake_handler(w), o = Ret(v, "ok")
      PROVE  Within(o.w, SEND_LEN + 1)
  <2>1. Within(v, SEND_LEN) /\ Shape(v)
    BY HandshakeWithin, HandshakeLeads DEF Leads, Armed, Live, Held, Over
  <2> QED BY <1>1, <1>3, <2>1, WithinMore DEF Ret
<1>4. o # Ret(w, "error")
  BY DEF Ret
<1> QED BY <1>2, <1>3, <1>4 DEF ssl_init

(* The start of a connection. *)
LEMMA ConnectWithin ==
  ASSUME NEW w, Pointed(w), w.r.phase # "sending", NEW o \in connect(w),
         o.rc = "ok"
  PROVE  Within(o.w, SEND_LEN + 2)
<1> DEFINE c == [w EXCEPT !.r.conn = TRUE, !.inflight = w.r.id]
           q == [w.r EXCEPT !.conn = TRUE]
<1>1. Live(c) /\ c.r.phase # "sending"
  <2>1. /\ RequestShape(q) /\ q.id = w.r.id /\ q.done = w.r.done /\ q.conn
        /\ q.phase = w.r.phase
    BY DEF Pointed, Held, Shape, RequestShape
  <2>2. c = [w EXCEPT !.r = q, !.inflight = w.r.id]
    OBVIOUS
  <2> HIDE DEF q
  <2> QED BY <2>1, <2>2 DEF Pointed, Held, Shape, Live
<1>2. \/ o = Ret(w, "error")
      \/ o = Ret(Wait(c, "connecting", TIMEOUT), "ok")
      \/ \E i \in ssl_init(c) :
           o = IF i.rc = "ok" THEN i ELSE Ret(Close(Clear(i.w)), "error")
  BY DEF connect
<1> HIDE DEF c
<1>3. /\ SEND_LEN + 1 \in Nat /\ SEND_LEN + 2 \in Nat
      /\ SEND_LEN + 1 <= SEND_LEN + 2 /\ (SEND_LEN + 1) + 1 = SEND_LEN + 2
  BY AcmeAssumption
<1>4. CASE o = Ret(Wait(c, "connecting", TIMEOUT), "ok")
  <2>1. Within(Wait(c, "connecting", TIMEOUT), (SEND_LEN + 1) + 1)
    BY <1>1, <1>3, WaitWithin DEF Live, Held
  <2> QED BY <1>3, <1>4, <2>1 DEF Ret
<1>5. ASSUME NEW i \in ssl_init(c),
             o = IF i.rc = "ok" THEN i ELSE Ret(Close(Clear(i.w)), "error")
      PROVE  Within(o.w, SEND_LEN + 2)
  <2>1. i.rc = "ok" /\ o = i
    BY <1>5 DEF Ret
  <2>2. Within(i.w, SEND_LEN + 1)
    BY <1>1, <2>1, SslInitWithin
  <2>3. Shape(i.w)
    BY <1>1, <2>1, SslInitLeads DEF Leads, Armed, Live, Held, Over
  <2> QED BY <1>3, <2>1, <2>2, <2>3, WithinMore
<1>6. o # Ret(w, "error")
  BY DEF Ret
<1> QED BY <1>2, <1>4, <1>5, <1>6

(* The connect handler. *)
LEMMA ConnectHandlerWithin ==
  ASSUME NEW w, Live(w), w.r.phase # "sending", NEW v \in connect_handler(w)
  PROVE  Within(v, SEND_LEN + 1)
<1> DEFINE a == [w EXCEPT !.r.timer = NULL]
<1>1. Live(a) /\ a.r.phase # "sending"
  BY TimerKept DEF Live, Held, Shape, RequestShape
<1>2. \/ v \in Fail(w)
      \/ \E o \in ssl_init(a) :
           v = IF o.rc = "ok" THEN o.w ELSE finalize(o.w, "error")
  BY DEF connect_handler
<1> HIDE DEF a
<1>3. CASE v \in Fail(w)
  BY <1>3, LiveIsPointed, EndedWithin DEF Fail
<1>4. ASSUME NEW o \in ssl_init(a),
             v = IF o.rc = "ok" THEN o.w ELSE finalize(o.w, "error")
      PROVE  Within(v, SEND_LEN + 1)
  <2>1. o.rc = "ok" \/ (o.rc # "ok" /\ o.w = a)
    BY <1>1, SslInitLeads
  <2>2. Within(finalize(a, "error"), SEND_LEN + 1)
    BY <1>1, LiveIsPointed, EndedWithin
  <2> QED BY <1>1, <1>4, <2>1, <2>2, SslInitWithin
<1> QED BY <1>2, <1>3, <1>4

(* The resolve handler. *)
LEMMA ResolveHandlerWithin ==
  ASSUME NEW w, Live(w), w.r.phase # "sending", NEW v \in resolve_handler(w)
  PROVE  Within(v, SEND_LEN + 2)
<1> DEFINE d == [w EXCEPT !.r.resolve = FALSE]
           q == [w.r EXCEPT !.resolve = FALSE]
<1>1. Pointed(d) /\ d.r.phase # "sending"
  <2>1. RequestShape(q) /\ q.id = w.r.id /\ q.done = w.r.done /\ q.phase = w.r.phase
    BY DEF Live, Held, Shape, RequestShape
  <2>2. d = [w EXCEPT !.r = q]
    OBVIOUS
  <2> HIDE DEF q, d
  <2> QED BY <2>1, <2>2, PutRequest DEF Live, Held, Pointed
<1>2. \/ v \in Fail(d)
      \/ \E o \in connect(d) :
           v = IF o.rc = "ok" THEN o.w ELSE finalize(o.w, "error")
  BY DEF resolve_handler
<1> HIDE DEF d
<1>3. CASE v \in Fail(d)
  BY <1>1, <1>3, EndedWithin DEF Fail
<1>4. ASSUME NEW o \in connect(d),
             v = IF o.rc = "ok" THEN o.w ELSE finalize(o.w, "error")
      PROVE  Within(v, SEND_LEN + 2)
  <2>1. o.rc = "ok" \/ (o.rc # "ok" /\ Pointed(o.w))
    BY <1>1, ConnectLeads DEF Fails
  <2> QED BY <1>1, <1>4, <2>1, ConnectWithin, EndedWithin
<1> QED BY <1>2, <1>3, <1>4

(* The start of a request, with all that may complete inside it. *)
LEMMA RequestWithin ==
  ASSUME NEW w, Pointed(w), w.r.phase # "sending", NEW o \in request(w),
         o.rc = "ok"
  PROVE  Within(o.w, SEND_LEN + 3)
<1> DEFINE n == [w EXCEPT !.r.resolve = TRUE, !.inflight = w.r.id]
           q == [w.r EXCEPT !.resolve = TRUE]
<1>1. Live(n) /\ n.r.phase # "sending"
  <2>1. /\ RequestShape(q) /\ q.id = w.r.id /\ q.done = w.r.done /\ q.resolve
        /\ q.phase = w.r.phase
    BY DEF Pointed, Held, Shape, RequestShape
  <2>2. n = [w EXCEPT !.r = q, !.inflight = w.r.id]
    OBVIOUS
  <2> HIDE DEF q
  <2> QED BY <2>1, <2>2 DEF Pointed, Held, Shape, Live
<1>2. o # Ret(w, "error") /\ o # Ret(Close(Clear(n)), "error")
  BY DEF Ret
<1>3. \/ o \in connect(w)
      \/ o = Ret(Wait(n, "resolving", TIMEOUT), "ok")
      \/ \E v \in resolve_handler(n) : o = Ret(v, "ok")
  BY <1>2 DEF request, start_resolve
<1> HIDE DEF n
<1>4. /\ SEND_LEN + 2 \in Nat /\ SEND_LEN + 3 \in Nat
      /\ SEND_LEN + 2 <= SEND_LEN + 3 /\ (SEND_LEN + 2) + 1 = SEND_LEN + 3
  BY AcmeAssumption
<1>5. CASE o \in connect(w)
  <2>1. Within(o.w, SEND_LEN + 2)
    BY <1>5, ConnectWithin
  <2>2. Shape(o.w)
    BY <1>5, ConnectLeads DEF Leads, Armed, Live, Held, Over
  <2> QED BY <1>4, <2>1, <2>2, WithinMore
<1>6. CASE o = Ret(Wait(n, "resolving", TIMEOUT), "ok")
  <2>1. Within(Wait(n, "resolving", TIMEOUT), (SEND_LEN + 2) + 1)
    BY <1>1, <1>4, WaitWithin DEF Live, Held
  <2> QED BY <1>4, <1>6, <2>1 DEF Ret
<1>7. ASSUME NEW v \in resolve_handler(n), o = Ret(v, "ok")
      PROVE  Within(o.w, SEND_LEN + 3)
  <2>1. Within(v, SEND_LEN + 2)
    BY <1>1, ResolveHandlerWithin
  <2>2. Shape(v)
    BY <1>1, ResolveHandlerLeads DEF Leads, Armed, Live, Held, Over
  <2> QED BY <1>4, <1>7, <2>1, <2>2, WithinMore DEF Ret
<1> QED BY <1>3, <1>5, <1>6, <1>7

(* A request whose clock is that of another has as much time. *)
SameClock(r, q) ==
  /\ q.phase = r.phase /\ q.timer = r.timer
  /\ q.left = r.left /\ q.sent = r.sent

(* No time is gained in a step from w to v. *)
NoGain(w, v) ==
  /\ TimeInv(v)
  /\ v.r.phase # "none" => TimeLeft(v.r) \in 0 .. TimeLeft(w.r)

(* A step that leaves the clock alone gains no time, ... *)
LEMMA ClockStands ==
  ASSUME NEW w, Shape(w), Timed(w.r), w.r.phase # "none", NEW v,
         SameClock(w.r, v.r)
  PROVE  NoGain(w, v)
<1>1. Timed(v.r) /\ TimeLeft(v.r) = TimeLeft(w.r)
  BY DEF SameClock, Timed, TimeLeft, Waits
<1>2. TimeLeft(w.r) \in Nat
  BY TimeLeftIs DEF Shape, RequestShape
<1> QED BY <1>1, <1>2 DEF NoGain, TimeInv

(* ... nor one that ends the request, ... *)
LEMMA EndGains ==
  ASSUME NEW w, Pointed(w), NEW rc \in {"ok", "error"}, NEW u
  PROVE  NoGain(u, finalize(w, rc))
BY EndedWithin DEF NoGain, TimeInv

(* ... nor one that leaves it no more than it had. *)
LEMMA WithinGains ==
  ASSUME NEW w, NEW v, Shape(v), NEW k \in Nat, Within(v, k),
         TimeLeft(w.r) \in Nat, Allowed(k) <= TimeLeft(w.r)
  PROVE  NoGain(w, v)
<1>1. v.r.phase # "none" => TimeLeft(v.r) \in Nat
  BY TimeLeftIs DEF Within, Shape, RequestShape
<1>2. Allowed(k) \in Nat
  BY AllowedIs
<1> QED BY <1>1, <1>2 DEF NoGain, TimeInv, Within

(* The handlers before the response spend the timers that were left. *)
LEMMA HandlerTime ==
  ASSUME ClientInv(client), TimeInv(client),
         ResolveHandler \/ ConnectHandler \/ HandshakeHandler \/ WriteHandler
  PROVE  NoGain(client, client')
<1>1. Armed(client) /\ Live(client) /\ Shape(client) /\ Timed(client.r)
  BY Waiting DEF ResolveHandler, ConnectHandler, HandshakeHandler,
                 WriteHandler, Armed, Live, Held, TimeInv
<1>2. client.r.phase \in Phases \ {"none"} /\ TimeLeft(client.r) \in Nat
  BY <1>1, TimeLeftIs DEF Armed, Shape, RequestShape
<1>3. Shape(client')
  BY HandlerStep DEF ClientInv, Armed, Live, Held, Over
<1>4. SEND_LEN \in Nat /\ SEND_LEN + 1 \in Nat /\ SEND_LEN + 2 \in Nat
  BY AcmeAssumption
<1>5. ASSUME NEW k \in Nat, Within(client', k), client.r.timer \in Nat,
             TimeLeft(client.r) = client.r.timer + Allowed(k)
      PROVE  NoGain(client, client')
  <2>1. Allowed(k) <= TimeLeft(client.r)
    BY <1>5, AllowedIs
  <2> QED BY <1>2, <1>3, <1>5, <2>1, WithinGains
<1>6. CASE ResolveHandler
  <2> DEFINE a == [client EXCEPT !.r.timer = NULL]
  <2>1. Live(a) /\ a.r.phase # "sending"
    BY <1>1, <1>6, TimerKept DEF ResolveHandler, Live, Held, Shape, RequestShape
  <2>2. client' \in resolve_handler(a)
    BY <1>6 DEF ResolveHandler, Event
  <2> HIDE DEF a
  <2>3. Within(client', SEND_LEN + 2)
    BY <2>1, <2>2, ResolveHandlerWithin
  <2>4. /\ client.r.timer \in Nat
        /\ TimeLeft(client.r) = client.r.timer + Allowed(SEND_LEN + 2)
    BY <1>1, <1>2, <1>6, TimeLeftIs DEF ResolveHandler, Timed
  <2> QED BY <1>4, <1>5, <2>3, <2>4
<1>7. CASE ConnectHandler
  <2>1. Within(client', SEND_LEN + 1)
    BY <1>1, <1>7, ConnectHandlerWithin DEF ConnectHandler, Event
  <2>2. /\ client.r.timer \in Nat
        /\ TimeLeft(client.r) = client.r.timer + Allowed(SEND_LEN + 1)
    BY <1>1, <1>2, <1>7, TimeLeftIs DEF ConnectHandler, Timed
  <2> QED BY <1>4, <1>5, <2>1, <2>2
<1>8. CASE HandshakeHandler
  <2>1. Within(client', SEND_LEN)
    BY <1>1, <1>8, HandshakeWithin DEF HandshakeHandler, Event
  <2>2. /\ client.r.timer \in Nat
        /\ TimeLeft(client.r) = client.r.timer + Allowed(SEND_LEN)
    BY <1>1, <1>2, <1>8, TimeLeftIs DEF HandshakeHandler, Timed
  <2> QED BY <1>4, <1>5, <2>1, <2>2
<1>9. CASE WriteHandler
  <2> DEFINE k == client.r.sent + 1
  <2>1. client.r.phase = "sending" /\ client' \in write_handler(client)
    BY <1>9 DEF WriteHandler, Event
  <2>2. client.r.sent \in 0 .. (SEND_LEN - 1) /\ client.r.timer \in Nat
    BY <1>1, <2>1 DEF Timed
  <2>3. /\ k \in 0 .. SEND_LEN /\ SEND_LEN - k \in Nat
        /\ SEND_LEN - k = SEND_LEN - 1 - client.r.sent
    BY <1>4, <2>2
  <2>4. Within(client', SEND_LEN - k)
    BY <1>1, <2>1, <2>3, WriteWithin
  <2>5. TimeLeft(client.r) = client.r.timer + Allowed(SEND_LEN - k)
    BY <1>1, <1>2, <2>1, <2>3, TimeLeftIs
  <2> QED BY <1>5, <2>2, <2>3, <2>4, <2>5
<1> QED BY <1>6, <1>7, <1>8, <1>9

(* The steps of a request that reads. *)
LEMMA ReadTime ==
  ASSUME ClientInv(client), TimeInv(client),
         \/ ReadHandler \/ RecvAgain \/ RecvError \/ GrowBuffer \/ RecvEof
         \/ \E n \in 1 .. SEGMENT : RecvData(n)
         \/ client.r.phase \in {"recv", "reading"} /\ \E x : Reply(x)
  PROVE  NoGain(client, client')
<1>1. client.r.phase \in {"recv", "reading"} /\ Armed(client)
  BY Waiting DEF ReadHandler, RecvAgain, RecvError, GrowBuffer, RecvEof, RecvData
<1>2. /\ Shape(client) /\ Timed(client.r) /\ client.r.left \in Nat
      /\ TimeLeft(client.r) = client.r.left
  BY <1>1 DEF Armed, Live, Held, TimeInv, Timed, TimeLeft
<1>3. ASSUME NEW rc \in {"ok", "error"} PROVE NoGain(client, finalize(client, rc))
  BY <1>1, LiveIsPointed, EndGains DEF Armed
<1>4. ASSUME NEW q, SameRequest(client, q), SameClock(client.r, q)
      PROVE  LET v == [client EXCEPT !.r = q]
             IN  /\ NoGain(client, v)
                 /\ \A rc \in {"ok", "error"} : NoGain(client, finalize(v, rc))
  <2> DEFINE v == [client EXCEPT !.r = q]
  <2>1. Armed(v) /\ v.r = q
    BY <1>1, <1>2, <1>4, DataLeads, PutRequest DEF SameRequest
  <2> HIDE DEF v
  <2>2. NoGain(client, v)
    BY <1>1, <1>2, <1>4, <2>1, ClockStands
  <2>3. \A rc \in {"ok", "error"} : NoGain(client, finalize(v, rc))
    BY <2>1, LiveIsPointed, EndGains DEF Armed
  <2> QED BY <2>2, <2>3 DEF v
<1>5. CASE ReadHandler
  <2>1. /\ client'.r.phase = "recv" /\ client'.r.left = client.r.left
        /\ client'.r.timer = client.r.timer
    BY <1>2, <1>5 DEF ReadHandler, Event, Shape, RequestShape
  <2>2. Timed(client'.r) /\ TimeLeft(client'.r) = client.r.left
    BY <1>1, <1>2, <2>1 DEF Timed, TimeLeft
  <2> QED BY <1>2, <2>2 DEF NoGain, TimeInv
<1>6. CASE RecvAgain
  <2> DEFINE t == Lesser(client.r.left, TIMEOUT)
             v == Wait(client, "reading", t)
  <2>1. client' = finalize(client, "error") \/ client' = v
    BY <1>6 DEF RecvAgain, recv_again, Event
  <2>2. t \in Nat /\ t <= client.r.left
    BY <1>2, AcmeAssumption DEF Lesser
  <2> HIDE DEF t
  <2>3. v.r.phase = "reading" /\ v.r.timer = t /\ v.r.left = client.r.left
    BY <1>2, WaitClock DEF Phases
  <2> HIDE DEF v
  <2>4. Timed(v.r) /\ TimeLeft(v.r) = client.r.left
    BY <1>2, <2>2, <2>3 DEF Timed, TimeLeft
  <2>5. NoGain(client, v)
    BY <1>2, <2>4 DEF NoGain, TimeInv
  <2> QED BY <1>3, <2>1, <2>5
<1>7. CASE RecvError
  BY <1>3, <1>7 DEF RecvError, Event
<1>8. CASE GrowBuffer
  <2> DEFINE q == [client.r EXCEPT !.cap = RECV_MAX]
  <2>1. client' = finalize(client, "error") \/ client' = [client EXCEPT !.r = q]
    BY <1>8 DEF GrowBuffer, Event
  <2>2. SameRequest(client, q) /\ SameClock(client.r, q)
    BY <1>1, <1>2 DEF Shape, RequestShape, SameRequest, SameClock, Phases
  <2> HIDE DEF q
  <2> QED BY <1>3, <1>4, <2>1, <2>2
<1>9. CASE \E x : Reply(x)
  <2>1. PICK x : Reply(x)
    BY <1>9
  <2> DEFINE q == [client.r EXCEPT !.reply = x]
  <2>2. client' = [client EXCEPT !.r = q]
    BY <2>1 DEF Reply, Event
  <2>3. SameRequest(client, q) /\ SameClock(client.r, q)
    BY <1>1, <1>2 DEF Shape, RequestShape, SameRequest, SameClock, Phases
  <2> HIDE DEF q
  <2> QED BY <1>4, <2>2, <2>3
<1>10. ASSUME NEW n \in 1 .. SEGMENT, RecvData(n) PROVE NoGain(client, client')
  <2> DEFINE g == client.r.got + n
             r == [client.r EXCEPT !.got = g]
             p == parse_response(Received(r), r.parse.r)
             q == [r EXCEPT !.parse = p]
             v == [client EXCEPT !.r = q]
  <2>1. client' = CASE p.rc = DONE  -> finalize(v, "ok")
                    [] p.rc = ERROR -> finalize(v, "error")
                    [] OTHER -> v
    BY <1>10 DEF RecvData, Event
  <2> HIDE DEF p, g
  <2>2. SameRequest(client, q) /\ SameClock(client.r, q)
    BY <1>1, <1>2 DEF Shape, RequestShape, SameRequest, SameClock, Phases
  <2>3. client' \in {v, finalize(v, "ok"), finalize(v, "error")}
    BY <2>1
  <2> HIDE DEF q
  <2> QED BY <1>4, <2>2, <2>3
<1>11. CASE RecvEof
  <2> DEFINE body == SubSeq(client.r.reply, client.r.parse.r.body_offset + 1,
                            client.r.got)
             q == [client.r EXCEPT !.eof = TRUE]
             a == [client.r.parse EXCEPT !.body = body, !.len = Len(body)]
             u == [q EXCEPT !.parse = a]
             v == [client EXCEPT !.r = q]
             x == [v EXCEPT !.r.parse.body = body, !.r.parse.len = Len(body)]
  <2>1. client' = finalize(v, "error") \/ client' = finalize(x, "ok")
    BY <1>11 DEF RecvEof, Event
  <2>2. x = [client EXCEPT !.r = u]
    <3> HIDE DEF body
    <3> QED BY <1>2 DEF Shape, RequestShape
  <2> HIDE DEF x, a, body
  <2>3. /\ SameRequest(client, q) /\ SameClock(client.r, q)
        /\ SameRequest(client, u) /\ SameClock(client.r, u)
    BY <1>1, <1>2 DEF Shape, RequestShape, SameRequest, SameClock, Phases
  <2> HIDE DEF q, u
  <2> QED BY <1>4, <2>1, <2>2, <2>3
<1> QED BY <1>5, <1>6, <1>7, <1>8, <1>9, <1>10, <1>11

(* A tick takes one off what is left, and there was one. *)
LEMMA TickTime ==
  ASSUME ClientInv(client), TimeInv(client), Tick
  PROVE  /\ NoGain(client, client')
         /\ client'.r.phase # "none" => TimeLeft(client'.r) < TimeLeft(client.r)
<1> DEFINE r == client.r
           t == r.timer - 1
           l == IF r.left = 0 THEN 0 ELSE r.left - 1
           q == client'.r
<1>1. r.phase # "none" /\ r.timer > 0
  BY DEF ClientInv, Armed, Over, Bare, Tick, NULL
<1>2. Shape(client) /\ Timed(r) /\ r.phase \in Phases \ {"none"} /\ r.phase # "recv"
  BY <1>1 DEF ClientInv, Armed, Live, Held, Over, Shape, RequestShape, TimeInv,
              Tick, Free
<1>3. q.phase = r.phase /\ q.timer = t /\ q.left = l /\ q.sent = r.sent
  BY <1>2 DEF Tick, Event, Shape, RequestShape
<1> HIDE DEF q, l, t
<1>4. CASE r.phase = "reading"
  <2>1. r.left \in Nat /\ r.timer \in Nat /\ r.timer <= r.left
    BY <1>2, <1>4 DEF Timed
  <2>2. /\ t = r.timer - 1 /\ l = r.left - 1 /\ l \in Nat /\ t \in Nat /\ t <= l
    BY <1>1, <2>1 DEF t, l
  <2>3. Timed(q) /\ TimeLeft(q) = l /\ TimeLeft(r) = r.left
    BY <1>3, <1>4, <2>2 DEF Timed, TimeLeft
  <2>4. TimeLeft(q) \in 0 .. TimeLeft(r) /\ TimeLeft(q) < TimeLeft(r)
    BY <2>1, <2>2, <2>3
  <2> QED BY <2>3, <2>4 DEF NoGain, TimeInv, q
<1>5. CASE r.phase # "reading"
  <2>1. r.timer \in 0 .. TIMEOUT
    BY <1>2, <1>5 DEF Timed, Phases
  <2>2. t \in 0 .. TIMEOUT /\ t = r.timer - 1
    BY <1>1, <2>1, AcmeAssumption DEF t
  <2>3. Timed(q)
    BY <1>2, <1>3, <1>5, <2>2 DEF Timed
  <2>4. TimeLeft(r) \in Nat /\ TimeLeft(q) \in Nat
    BY <1>2, <1>3, <2>3, TimeLeftIs
  <2>5. PICK k \in Nat : TimeLeft(r) = r.timer + Allowed(k)
                          /\ TimeLeft(q) = q.timer + Allowed(k)
    <3>1. /\ SEND_LEN \in Nat /\ SEND_LEN + 1 \in Nat /\ SEND_LEN + 2 \in Nat
          /\ r.phase = "sending" => SEND_LEN - 1 - r.sent \in Nat
      BY <1>2, AcmeAssumption DEF Timed
    <3>2. r.phase \in {"resolving", "connecting", "handshaking", "sending"}
      BY <1>2, <1>5 DEF Phases
    <3> QED BY <1>2, <1>3, <2>3, <3>1, <3>2, TimeLeftIs
  <2>6. Allowed(k) \in Nat
    BY AllowedIs
  <2>7. TimeLeft(q) \in 0 .. TimeLeft(r) /\ TimeLeft(q) < TimeLeft(r)
    BY <1>3, <2>1, <2>2, <2>4, <2>5, <2>6
  <2> QED BY <2>3, <2>7 DEF NoGain, TimeInv, q
<1> QED BY <1>4, <1>5

(* Every step keeps the clocks, and gains a request that is under way no     *)
(* time.                                                                     *)
LEMMA NextTime ==
  ASSUME ClientInv(client), TimeInv(client), [Next]_vars
  PROVE  /\ TimeInv(client')
         /\ client.r.phase # "none" => NoGain(client, client')
<1>1. ASSUME NEW i \in Requests, Request(i)
      PROVE  TimeInv(client') /\ client.r.phase = "none"
  <2> DEFINE w == [client EXCEPT !.r = NewRequest(i), !.pools = @ \cup {i}]
  <2>1. Over(client) /\ client.r.phase = "none"
    BY <1>1 DEF Request, ClientInv, Armed
  <2>2. RequestShape(NewRequest(i))
    BY DEF NewRequest, RequestShape, Phases
  <2>3. Pointed(w) /\ Bare(w) /\ w.r.phase # "sending"
    BY <2>1, <2>2 DEF Over, Bare, Shape, NewRequest, Pointed, Held
  <2>4. PICK o \in request(w) :
          IF o.rc = "error"
          THEN client' = [o.w EXCEPT !.status[i] = "refused", !.pools = @ \ {i}]
          ELSE client' = [o.w EXCEPT !.status[i] =
                            IF @ = "new" THEN "pending" ELSE @]
    BY <1>1 DEF Request
  <2> HIDE DEF w
  <2>5. \/ o.rc = "ok" /\ Shape(o.w)
        \/ o.rc = "error" /\ Shape(o.w) /\ Bare(o.w)
    BY <2>3, RequestLeads DEF Leads, Fails, Armed, Live, Held, Over, Pointed
  <2>6. client'.r = o.w.r
    BY <2>4, <2>5 DEF Shape
  <2>7. CASE o.rc = "ok"
    BY <2>1, <2>3, <2>6, <2>7, RequestWithin DEF Within, TimeInv
  <2>8. CASE o.rc = "error"
    BY <2>1, <2>5, <2>6, <2>8 DEF Bare, TimeInv
  <2> QED BY <2>5, <2>7, <2>8, <2>1
<1>2. CASE Return \/ UNCHANGED vars
  <2>1. client' = client
    BY <1>2 DEF Return, vars
  <2>2. ASSUME client.r.phase # "none" PROVE NoGain(client, client')
    <3>1. Shape(client) /\ Timed(client.r)
      BY <2>2, Waiting DEF Armed, Live, Held, TimeInv
    <3>2. SameClock(client.r, client'.r)
      BY <2>1 DEF SameClock
    <3> QED BY <2>2, <3>1, <3>2, ClockStands
  <2> QED BY <2>1, <2>2
<1>3. CASE ResolveHandler \/ ConnectHandler \/ HandshakeHandler \/ WriteHandler
  BY <1>3, HandlerTime DEF NoGain
<1>4. CASE \/ ReadHandler \/ NoData \/ \E n \in 1 .. SEGMENT : RecvData(n)
           \/ client.r.phase \in {"recv", "reading"} /\ \E x : Reply(x)
  BY <1>4, ReadTime DEF NoData, NoGain
<1>5. CASE Tick
  BY <1>5, TickTime DEF NoGain
<1>6. CASE TimedOut
  <2>1. Armed(client)
    BY <1>6 DEF TimedOut, ClientInv, Over, Bare, NULL
  <2> QED BY <1>6, <2>1, LiveIsPointed, EndGains DEF TimedOut, Event, Armed, NoGain
<1>7. CASE Reload
  <2>1. client' = client \/ client'.r.phase = "none"
    <3> DEFINE b == [client EXCEPT !.r.done = TRUE, !.inflight = None]
               c == Close(b)
    <3>1. client' = client \/ client' = [c EXCEPT !.pools = @ \ {client.inflight},
                                           !.status[client.inflight] = "cancelled"]
      BY <1>7 DEF Reload, Event, cancel_inflight
    <3>2. Shape(b)
      BY DEF ClientInv, Armed, Live, Held, Over, Shape, RequestShape, None
    <3> HIDE DEF b
    <3>3. Shape(c) /\ c.r.phase = "none"
      BY <3>2, CloseFacts
    <3> HIDE DEF c
    <3> QED BY <3>1, <3>3 DEF Shape
  <2>2. CASE client' = client
    <3>1. ASSUME client.r.phase # "none" PROVE NoGain(client, client')
      <4>1. Shape(client) /\ Timed(client.r)
        BY <3>1, Waiting DEF Armed, Live, Held, TimeInv
      <4>2. SameClock(client.r, client'.r)
        BY <2>2 DEF SameClock
      <4> QED BY <3>1, <4>1, <4>2, ClockStands
    <3> QED BY <2>2, <3>1
  <2>3. CASE client'.r.phase = "none"
    BY <2>3 DEF NoGain, TimeInv
  <2> QED BY <2>1, <2>2, <2>3
<1>8. CASE Crash
  <2>1. client'.r.phase = "none"
    BY <1>8 DEF Crash, Idle, NewRequest
  <2> QED BY <2>1 DEF NoGain, TimeInv
<1> QED BY <1>1, <1>2, <1>3, <1>4, <1>5, <1>6, <1>7, <1>8 DEF Next

(* A request of the client cannot be drawn out: not by a resolver, a socket  *)
(* or a CA that answers little by little, nor by handlers that enter one     *)
(* another and arm their timers anew.  No step gives a request that is under *)
(* way more time than it had, and every tick takes some of it; the total     *)
(* time to read holds because every wait for more is cut at what is left of  *)
(* it.  For all lengths, timeouts and responses.                             *)
THEOREM NotDrawnOut == Spec => DeadlineKept
<1> DEFINE Spent == client.r.phase # "none" /\ client'.r.phase # "none" =>
                      /\ TimeLeft(client'.r) \in 0 .. TimeLeft(client.r)
                      /\ Tick => TimeLeft(client'.r) < TimeLeft(client.r)
<1>1. Init => TimeInv(client)
  BY DEF Init, Idle, NewRequest, TimeInv
<1>2. ClientInv(client) /\ TimeInv(client) /\ [Next]_vars => TimeInv(client)'
  BY NextTime
<1>3. ClientInv(client) /\ TimeInv(client) /\ [Next]_vars => [Spent]_vars
  BY NextTime, TickTime DEF NoGain
<1> QED BY <1>1, <1>2, <1>3, ClientInvariant, PTL DEF Spec, DeadlineKept, Spent
=============================================================================
