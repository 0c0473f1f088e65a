--------------------------- MODULE MCHealthCache ---------------------------
(* HealthCache for TLC: small sets of request threads and components. *)
EXTENDS HealthCache

CONSTANTS r1, r2, wled, hyperhdr

TwoReaders == {r1, r2}
TwoComponents == {wled, hyperhdr}
=============================================================================
