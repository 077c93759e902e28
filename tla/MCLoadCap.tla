----------------------------- MODULE MCLoadCap -----------------------------
(* Instances of LoadCap.tla for TLC. *)
EXTENDS LoadCap

CONSTANTS n1, n2, n3, n4, n5
=============================================================================
