---------------------------- MODULE MCDriverLock ----------------------------
(* Instances of DriverLock.tla for TLC. *)
EXTENDS DriverLock

CONSTANTS p1, p2, p3, s1, s2, s3

=============================================================================
