---------------------------- MODULE AcmeRequest ----------------------------
(***************************************************************************)
(* What the ACME client promises its callers (acme.h), with nothing of     *)
(* names, connections and bytes: a request is refused by the call that     *)
(* starts it, and its handler is never called, or it is taken, and its     *)
(* handler is called exactly once, perhaps before that call returns,       *)
(* unless the request is cancelled first.                                  *)
(***************************************************************************)
EXTENDS Naturals

CONSTANT Id   \* identifiers of requests

VARIABLES
  status,   \* what the caller of each request has been told
  calls     \* how often its handler was called

avars == <<status, calls>>

AInit ==
  /\ status = [i \in Id |-> "new"]
  /\ calls = [i \in Id |-> 0]

Told(i, s) ==
  /\ status' = [status EXCEPT ![i] = s]
  /\ UNCHANGED calls

Refuse(i) == status[i] = "new" /\ Told(i, "refused")

Take(i) ==
  /\ status[i] = "new"
  /\ \A j \in Id : status[j] # "pending"
  /\ Told(i, "pending")

Answer(i, rc) ==
  /\ status[i] \in {"new", "pending"}
  /\ status' = [status EXCEPT ![i] = rc]
  /\ calls' = [calls EXCEPT ![i] = 1]

Cancel(i) == status[i] = "pending" /\ Told(i, "cancelled")

ANext == \E i \in Id :
  \/ Refuse(i)
  \/ Take(i)
  \/ \E rc \in {"ok", "error"} : Answer(i, rc)
  \/ Cancel(i)

ASpec == AInit /\ [][ANext]_avars
=============================================================================
