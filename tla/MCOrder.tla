------------------------------ MODULE MCOrder ------------------------------
(* Instances of Order.tla for TLC. *)
EXTENDS Order

\* One kind of order for each challenge; the first is a runtime name whose
\* configured challenge is dns-01.
MCKinds == {[mode |-> "dns", rsa |-> FALSE, runtime |-> TRUE],
            [mode |-> "alpn", rsa |-> TRUE, runtime |-> FALSE],
            [mode |-> "dns", rsa |-> TRUE, runtime |-> FALSE]}
=============================================================================
