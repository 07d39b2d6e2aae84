----------------------------- MODULE KvPromise -----------------------------
(* What a database promises to its callers, with nothing said of logs,       *)
(* snapshots, locks or jobs: a map from keys to live entries that changes    *)
(* one key at a time, and that a restart gives back for the keys it owes.    *)
(* Db implements it (Db!Promise; PromiseProofs has the proof).               *)
EXTENDS Entries

VARIABLES
  up,       \* a process serves the database
  data,     \* what its readers see; while none does, what they saw last
  owed,     \* keys that the next process must show as they are now
  now

vars == <<up, data, owed, now>>

Init == up = FALSE /\ data = EmptyImage /\ owed = Keys /\ now = 0

(* An operation on one key, that may change it or leave it, has begun: until  *)
(* it is known to be on disk, what a restart shows of the key is open.       *)
Write(k, s) ==
  /\ up /\ s = LiveAt(s, now)
  /\ data' = [data EXCEPT ![k] = s] /\ owed' = owed \ {k}
  /\ UNCHANGED <<up, now>>

(* Keys have reached the disk: an operation has returned, a snapshot was     *)
(* taken.                                                                    *)
Secure(ks) ==
  /\ up /\ owed' = owed \cup ks
  /\ UNCHANGED <<up, data, now>>

(* The process ends, at any point; another one starts.                       *)
Stop == up /\ up' = FALSE /\ UNCHANGED <<data, owed, now>>

Start ==
  /\ ~up /\ up' = TRUE
  /\ data' \in Image /\ \A k \in owed : data'[k] = data[k]
  /\ owed' = Keys
  /\ UNCHANGED now

(* Time passes: entries expire, nothing else happens to them.                *)
Pass ==
  /\ now' > now /\ data' = [k \in Keys |-> LiveAt(data[k], now')]
  /\ UNCHANGED <<up, owed>>

Next ==
  \/ \E k \in Keys, s \in Slot : Write(k, s)
  \/ \E ks \in SUBSET Keys : Secure(ks)
  \/ Stop
  \/ Start
  \/ Pass

Spec == Init /\ [][Next]_vars
============================================================================
