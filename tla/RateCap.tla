------------------------------ MODULE RateCap ------------------------------
(***************************************************************************)
(* The rolling windows of src/src/ngx_autocert_ratecap.h: a ring of n      *)
(* time stamps, the next write position, and a window.  As in Requests, a  *)
(* slot holds the age of its time stamp, saturated at the window: an age   *)
(* equal to the window is a slot that is empty or no longer counted.       *)
(***************************************************************************)
EXTENDS Naturals, FiniteSets, FiniteSetsExt

EmptyRing(n, window) == [age |-> [i \in 0 .. n - 1 |-> window], head |-> 0]

InWindow(ring, window) == {i \in DOMAIN ring.age : ring.age[i] < window}

(* ngx_autocert_rt_window_count *)
window_count(ring, window) == Cardinality(InWindow(ring, window))

(* ngx_autocert_rt_window_oldest, as the age of the oldest counted stamp; *)
(* only asked for when one is counted.                                    *)
window_oldest(ring, window) ==
  Max({ring.age[i] : i \in InWindow(ring, window)})

(* MUTANT: the head is not advanced. *)
ring_push_SameSlot(ring, n) ==
  [age |-> [ring.age EXCEPT ![ring.head] = 0], head |-> ring.head % n]

(* ngx_autocert_rt_ring_push *)
ring_push(ring, n) ==
  [age |-> [ring.age EXCEPT ![ring.head] = 0], head |-> (ring.head + 1) % n]

(* One unit of time passes. *)
ring_aged(ring, window) ==
  [ring EXCEPT !.age = [i \in DOMAIN ring.age |->
                          IF ring.age[i] < window THEN ring.age[i] + 1
                                                  ELSE window]]
=============================================================================
