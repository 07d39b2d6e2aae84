----------------------------- MODULE MCDaemon -----------------------------
(* Instances of Daemon for TLC. *)
EXTENDS Daemon

CONSTANTS p1, p2, g1, c1, c2

TwoProcs == {p1, p2}
OneCaller == {g1}
TwoConns == {c1, c2}
OneEach == [p \in Procs |-> 1]
============================================================================
