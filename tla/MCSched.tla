------------------------------ MODULE MCSched ------------------------------
(* Instances of Sched.tla for TLC: the constants are in the .cfg files. *)
EXTENDS Sched
=============================================================================
