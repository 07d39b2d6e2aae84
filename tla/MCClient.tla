----------------------------- MODULE MCClient -----------------------------
(* Instances of Client for TLC. *)
EXTENDS Client

CONSTANTS r1, r2, k1, k2

TwoCalls == {r1, r2}
TwoConns == {k1, k2}
============================================================================
