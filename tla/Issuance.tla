----------------------------- MODULE Issuance -----------------------------
(***************************************************************************)
(* What the order flow promises its driver, with nothing of how it is done *)
(* (order.h: "the completion handler is invoked exactly once"): orders run *)
(* one after the other, each ends once: by its handler, by being dropped   *)
(* or with the worker.  The certificate of the name changes only together  *)
(* with the end of an order, to the one that order got.  A successful end  *)
(* always changes it, a drop never; after a failure, and after the worker  *)
(* died, the new certificate may be in place.                              *)
(***************************************************************************)
EXTENDS Naturals

CONSTANT Order   \* identifiers of orders, in the order they are started

VARIABLES
  phase,    \* what has become of each order
  calls,    \* how often the completion handler was called for it
  counted,  \* orders that were counted against the CA's budget
  cert      \* the order whose certificate is stored, 0 for none

avars == <<phase, calls, counted, cert>>

AInit ==
  /\ phase = [o \in Order |-> "unused"]
  /\ calls = [o \in Order |-> 0]
  /\ counted = {}
  /\ cert = 0

Launch(o) ==
  /\ phase[o] = "unused"
  /\ \A p \in Order : phase[p] # "running"
  /\ phase' = [phase EXCEPT ![o] = "running"]
  /\ UNCHANGED <<calls, counted, cert>>

(* The order is accounted; the handler may have run before. *)
Count(o) ==
  /\ phase[o] # "unused"
  /\ counted' = counted \cup {o}
  /\ UNCHANGED <<phase, calls, cert>>

(* How an order can end, and the certificates it can leave in place of c. *)
Handled == {"ok", "failed"}
Unhandled == {"dropped", "died"}

Leaves(o, how, c) ==
  CASE how = "ok" -> {o}
    [] how = "dropped" -> {c}
    [] OTHER -> {c, o}

End(o, how) ==
  /\ phase[o] = "running"
  /\ phase' = [phase EXCEPT ![o] = how]
  /\ calls' = [calls EXCEPT ![o] = IF how \in Handled THEN @ + 1 ELSE @]
  /\ cert' \in Leaves(o, how, cert)
  /\ UNCHANGED counted

ANext == \E o \in Order :
  \/ Launch(o)
  \/ Count(o)
  \/ \E how \in Handled \cup Unhandled : End(o, how)

ASpec == AInit /\ [][ANext]_avars
=============================================================================
