----------------------------- MODULE MCRuntime -----------------------------
(* Instances of Runtime.tla for TLC. *)
EXTENDS Runtime, TLC

CONSTANTS h1, h2, h3

\* h3 is the host a configured name covers, where there is one.
Symmetric == Permutations({h1, h2})
=============================================================================
