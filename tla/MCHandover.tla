----------------------------- MODULE MCHandover ----------------------------
(* An instance of Handover for TLC: one key, Set and Close, no faults.       *)
EXTENDS Handover

CONSTANTS k1, v1, v2

OneKey == {k1}
TwoValues == {v1, v2}
None == {}
SomeOps == {"set", "close"}
============================================================================
