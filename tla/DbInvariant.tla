---------------------------- MODULE DbInvariant ----------------------------
(* The inductive invariants behind the theorems of DbTypeProofs and          *)
(* DbDiskProofs: what has to be true between the steps of Db.                *)
EXTENDS Db

(* Every state is typed because a compaction begins only below the last      *)
(* generation the model numbers.                                             *)
TypeInv ==
  /\ TypeOK
  /\ snaps[MaxGen] = Nil
  /\ due \/ phase \in {"snap", "renamed"} => num < MaxGen
  /\ due => phase \notin {"down", "load"}
  /\ cur # Nil => cur.gen < MaxGen /\ cur.gen <= cur.next
  /\ pend # Nil => (pend.job => pend.rec.cmd = "SET")

(* A store that could not be loaded writes to log 0 and never gets past the  *)
(* first test of compact, so it starts no gc either.                         *)
UnreadableInv ==
  /\ loadErr => num = 0 /\ gcKeep = 0 /\ phase \notin {"down", "load", "renamed"}
  /\ phase \in {"down", "load"} => gcKeep = 0
---------------------------------------------------------------------------
Same(s, t) == LiveAt(s, now) = LiveAt(t, now)

(* Numbers: the newest snapshot is the one below the log in use, or, after a *)
(* compaction that could not open the next log, has the same number; then    *)
(* the log is full, so that the next write compacts again.                   *)
NumberInv ==
  /\ snaps[0] = Nil
  /\ Running =>
       /\ ~loadErr /\ num > 0 /\ gcKeep < num
       /\ IsNewest(num - 1) \/ IsNewest(num)
       /\ \A m \in Gen : m > num => logs[m] = Nil
       /\ phase = "renamed" => IsNewest(num)
       /\ IsNewest(num) /\ phase \in {"idle", "del", "append"} => due
       /\ phase \in {"snap", "renamed"} /\ pend # Nil => due
       /\ phase \in {"idle", "del", "closed"} => pend = Nil
  /\ ~Running => gcKeep = 0 /\ pend = Nil /\ OneLogAfterSnapshot

(* Only a torn log hides something from the next replay.                     *)
TornInv == \A n \in Gen : logs[n] # Nil /\ ~logs[n].torn => logs[n].seen = logs[n].eff

(* The files and the map agree, and the record about to be appended makes    *)
(* them agree on its key.                                                    *)
DiskInv ==
  \A n \in Gen : IsNewest(n) =>
    /\ Running => \A k \in Keys :
         why[k] = {} /\ (IsPending(k) => phase = "renamed") => Same(mem[k], Recovered(n)[k])
    /\ phase = "append" =>
         LET r == pend.rec
         IN  pend.why = {} /\ (why[r.key] = {} \/ r.cmd \in {"SET", "DEL"}) =>
               mem[r.key] = Replayed(r, Recovered(n)[r.key])
    /\ phase = "renamed" => \A k \in Keys : Same(mem[k], Recovered(n)[k])
    /\ ~Running => \A k \in Keys : why[k] = {} => Same(served[k], Recovered(n)[k])

(* What loadAll has read so far.                                             *)
LoadInv ==
  phase = "load" =>
    /\ IsNewest(cur.gen)
    /\ cur.next <= cur.gen + 2
    /\ cur.next = cur.gen + 1 => cur.data = Base(cur.gen)
    /\ cur.next = cur.gen + 2 => cur.data = Recovered(cur.gen) /\ logs[cur.gen + 1] # Nil

DiskInvariant == NumberInv /\ TornInv /\ DiskInv /\ LoadInv
---------------------------------------------------------------------------
(* What a replay would make of the generation before the newest, n, if a     *)
(* missing log did not end it.                                               *)
Previous(n) == Replayed1(Replayed1(Base(n - 1), n), n + 1)

(* Keys that the two generations restore alike: they replay the log in use   *)
(* alike whatever is lost of it, and a change of expiry about to be appended *)
(* finds the same in both, for memory showed it alive.                       *)
ForkInv ==
  \A n \in Gen : IsNewest(n) /\ n > 0 => \A k \in Keys \ fork :
    /\ Same(Previous(n)[k], Recovered(n)[k])
    /\ logs[n + 1] # Nil => logs[n + 1].seen[k] = logs[n + 1].eff[k]
    /\ phase = "append" /\ IsPending(k) /\ pend.why = {} /\ why[k] = {}
          /\ pend.rec.cmd \notin {"SET", "DEL"} =>
         Previous(n)[k] = Recovered(n)[k]

(* The previous generation is kept, and the record that brings a compaction  *)
(* about has been appended to what the snapshot then stands for.             *)
PreviousInv ==
  /\ \A n \in Gen : IsNewest(n) /\ n > 1 => snaps[n - 1] # Nil
  /\ phase = "snap" /\ pend # Nil =>
       LET k == pend.rec.key
       IN  IF snaps[num] # Nil THEN k \in fork
           ELSE why[k] \cup pend.why = {} => Same(mem[k], Recovered(num - 1)[k])

FallbackInv == ForkInv /\ PreviousInv
============================================================================
