----------------------------- MODULE MCHandlers ----------------------------
(* Instances of Handlers for TLC: three keys, a value near the query and one *)
(* far from it, a request of each kind with and without its limit, an expire *)
(* that names a key twice. The second key extends the first, as user1 does   *)
(* user, and is displayed before it: "1" sorts before ":".                   *)
EXTENDS Handlers

CONSTANTS near, far

ThreeKeys == 1 .. 3
TwoValues == {near, far}
SomeScores == [v \in TwoValues |-> IF v = near THEN 2 ELSE 1]
SomeDisplay == [k \in ThreeKeys |-> [v \in TwoValues |-> <<2, 1, 3>>[k]]]

Ask(op, wanted, after, limit, ttl) ==
  [op |-> op, asked |-> IF op = "expire" THEN <<1, 2, 1>> ELSE <<>>,
   pattern |-> IF op = "expire" THEN {1, 2} ELSE IF after > 0 THEN {1, 3} ELSE ThreeKeys,
   wanted |-> wanted, after |-> after, limit |-> limit, ttl |-> ttl]

SomeRequests ==
  { Ask("entries", {near}, 2, 0, 0), Ask("entries", TwoValues, 0, 2, 0),
    Ask("expire", TwoValues, 0, 0, 1), Ask("keys", TwoValues, 0, 1, 0),
    Ask("vsearch", TwoValues, 0, 2, 0), Ask("vsearch", TwoValues, 0, 1, 0),
    Ask("find", {near}, 0, 0, 0), Ask("find", TwoValues, 0, 2, 0),
    Ask("query", {near}, 0, 1, 0), Ask("query", TwoValues, 0, 2, 0) }
============================================================================
