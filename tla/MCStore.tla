------------------------------ MODULE MCStore ------------------------------
(* Instances of Store.tla for TLC. *)
EXTENDS Store

CONSTANTS ec, rsa

AllKinds == [win32 : BOOLEAN, runtime : BOOLEAN]
PosixRuntime == {[win32 |-> FALSE, runtime |-> TRUE]}
=============================================================================
