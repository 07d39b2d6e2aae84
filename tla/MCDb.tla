------------------------------- MODULE MCDb -------------------------------
(* Instances of Db for TLC: one or two keys, one JSON value and at most one  *)
(* number, and the operations and faults each run is about.                  *)
EXTENDS DbInvariant, TLC

CONSTANTS k1, k2, j1, n1

OneKey == {k1}
TwoKeys == {k1, k2}

JsonOnly == {j1}
JsonAndNumber == {j1, n1}
NumberOnly == {n1}
None == {}

AllOps == OpNames
LogOps == {"set", "del", "expireat", "clean", "close"}
GenOps == {"set", "expireat"}
PairOps == {"set", "setvector", "del"}
SecondKey == {k2}
FieldOps == {"set", "setfield"}
SetOps == {"set", "close"}

CompactFaults == {"write", "compact"}
TornAndCompact == {"torn", "compact"}
TornFault == {"torn"}
ReadFault == {"read"}
============================================================================
