-------------------------------- MODULE Db --------------------------------
(* One database of a store: the db struct of src/core/store/store.go with    *)
(* its lock, map, append log and snapshots, the operations that change it,   *)
(* compaction, garbage collection of old generations, crashes and restarts.  *)
(*                                                                           *)
(* The write lock d.mu is held from the action that changes the map until    *)
(* phase is "idle" again; what runs without it (the gc goroutine, the clock, *)
(* a crash, a Get between its two sections) interleaves with every phase.    *)
(* A database directory holds snaps[n] (NNNNNNNN.snap) and logs[n] (.log).   *)
EXTENDS Entries, FiniteSets

CONSTANTS
  Ops,      \* operations the callers use
  CacheKeys, \* keys of the embedding cache (embedKey); callers may name them too
  Faults,   \* faults that may happen: "write" (a write, open or fsync of the log
            \* fails), "torn" (a record reaches the disk in part), "compact" (a
            \* step of compact fails), "read" (a file cannot be read back)
  MaxGen,   \* bound: generations are numbered 0 to MaxGen
  MaxJobs,  \* bound: vector jobs under way
  MaxGets   \* bound: Gets between their two sections

OpNames == {"set", "setvector", "setfield", "incr", "incrfield", "delfield", "expire",
            "expireat", "persist", "del", "get", "clean", "close"}
FaultNames == {"write", "torn", "compact", "read"}
ASSUME OpsAssumption == Ops \subseteq OpNames
ASSUME FaultsAssumption == Faults \subseteq FaultNames
ASSUME CacheAssumption == CacheKeys \subseteq Keys
ASSUME BoundsAssumption == MaxGen \in Nat \ {0} /\ MaxJobs \in Nat /\ MaxGets \in Nat

Gen == 0 .. MaxGen

(* Why the disk may disagree with memory about a key, or a caller was not    *)
(* promised what memory shows. "unacked": the operation returned an error or *)
(* was cut by a crash. "swallowed": Del ignored an error. "ttl": SetField    *)
(* logged no expiry. "late": the expiry of an expired entry was changed.     *)
(* "race": a Get removed an entry refreshed since it was read. "merged": the *)
(* record was written on the line a torn tail left open.                     *)
Reason == {"unacked", "swallowed", "ttl", "late", "race", "merged"}

Staged == [rec : Record, why : SUBSET Reason, job : BOOLEAN]
Cursor == [gen : Gen, next : 0 .. MaxGen + 1, data : Image]

(* Nil is none of the things it stands for the absence of; a model value is. *)
ASSUME NilNoData == /\ Nil \notin Staged /\ Nil \notin Cursor
                    /\ Nil \notin Image /\ Nil \notin LogFile

VARIABLES
  phase,    \* "down", "load", "idle", "del" (Del between two keys), "append"
            \* (memory changed, record not written), "snap" (compact before its
            \* rename), "renamed" (after it), "closed"
  mem,      \* d.data
  num,      \* d.num
  due,      \* d.logSize has reached the threshold
  loadErr,  \* d.loadErr # nil
  pend,     \* the record being logged, Nil while Close compacts
  todo,     \* keys a Del still has to delete
  jobs,     \* <<key, text>> of the vector jobs under way
  gets,     \* <<key, expiry read>> of the Gets between their sections whose
            \* entry is still the one in the map
  gcKeep,   \* keep of the latest gcOlderThan, 0 if none since the start
  cur,      \* where loadAll is: generation, next file, data so far
  snaps, logs,      \* the files
  now,      \* time.Now().Unix()
  why,      \* history: the reasons that hold for each key
  fork,     \* history: keys an older generation may restore differently
  served    \* history: what the process before the last crash held

store == <<phase, mem, num, due, loadErr, pend, todo, jobs, gets, gcKeep, cur>>
files == <<snaps, logs>>
history == <<why, fork, served>>
vars == <<phase, mem, num, due, loadErr, pend, todo, jobs, gets, gcKeep, cur,
          snaps, logs, now, why, fork, served>>

Quiet == phase \in {"idle", "del"}
---------------------------------------------------------------------------
(* Replay of the directory. *)

Base(n) == IF snaps[n] = Nil THEN EmptyImage ELSE snaps[n]
Replayed1(img, n) == IF n \in Gen /\ logs[n] # Nil THEN ReplayInto(img, logs[n]) ELSE img

(* snapNumbers, newest first; generation 0 stands for no snapshot. *)
IsNewest(n) == (n = 0 \/ snaps[n] # Nil) /\ \A m \in Gen : m > n => snaps[m] = Nil

(* The newest generation holds its snapshot and one log. *)
Recovered(n) == Replayed1(Base(n), n + 1)
(* The one kept before it holds its snapshot and two logs; a replay ends at  *)
(* the first log that is missing.                                            *)
Fallback(n) ==
  IF logs[n] = Nil THEN Base(n - 1) ELSE Replayed1(Replayed1(Base(n - 1), n), n + 1)
---------------------------------------------------------------------------
Init ==
  /\ phase = "down" /\ mem = EmptyImage /\ num = 0 /\ due = FALSE /\ loadErr = FALSE
  /\ pend = Nil /\ todo = {} /\ jobs = {} /\ gets = {} /\ gcKeep = 0 /\ cur = Nil
  /\ snaps = [n \in Gen |-> Nil] /\ logs = [n \in Gen |-> Nil]
  /\ now = 0
  /\ why = [k \in Keys |-> {}] /\ fork = {} /\ served = EmptyImage

(* ensureLoaded and loadAll: generations are tried newest first.             *)
LoadGeneration(n) ==
  cur' = [gen |-> n, next |-> n, data |-> EmptyImage]

Loading(vs) == UNCHANGED <<pend, todo, jobs, gets, gcKeep, snaps, logs, now, fork>> /\ UNCHANGED vs

StartLoad(n) ==
  /\ phase = "down" /\ IsNewest(n)
  /\ phase' = "load" /\ LoadGeneration(n)
  /\ Loading(<<mem, num, due, loadErr, why, served>>)

(* replayGeneration reads the snapshot, if n > 0, then log after log until   *)
(* one is missing.                                                           *)
ReplaySnapshot ==
  /\ phase = "load" /\ cur.next = cur.gen
  /\ cur' = [cur EXCEPT !.next = cur.gen + 1, !.data = Base(cur.gen)]
  /\ Loading(<<phase, mem, num, due, loadErr, why, served>>)

ReplayLog ==
  /\ phase = "load" /\ cur.next > cur.gen
  /\ cur.next \in Gen /\ logs[cur.next] # Nil
  /\ cur' = [cur EXCEPT !.next = @ + 1, !.data = ReplayInto(@, logs[cur.next])]
  /\ Loading(<<phase, mem, num, due, loadErr, why, served>>)

(* The log to go on with: the last one replayed, or the first if there is none. *)
LastLogNext == cur.next     \* mutant: one too far
LastLog == IF cur.next > cur.gen + 1 THEN cur.next - 1 ELSE cur.gen + 1

Loaded(data, n, failed) ==
  /\ phase' = "idle" /\ cur' = Nil
  /\ mem' = data /\ num' = n /\ loadErr' = failed
  /\ why' = [k \in Keys |-> {}] /\ served' = EmptyImage
  /\ Loading(<<due>>)

ReplayDone ==
  /\ phase = "load" /\ cur.next > cur.gen
  /\ cur.next \in Gen => logs[cur.next] = Nil
  /\ Loaded(cur.data, LastLog, FALSE)

(* replayInto fails on a file that exists: the next older snapshot is tried. *)
ReadFails ==
  /\ "read" \in Faults
  /\ phase = "load"
  /\ \/ cur.next = cur.gen /\ cur.gen > 0
     \/ cur.next > cur.gen /\ cur.next \in Gen /\ logs[cur.next] # Nil
  /\ \/ \E m \in Gen :
          /\ m < cur.gen /\ snaps[m] # Nil
          /\ \A i \in Gen : m < i /\ i < cur.gen => snaps[i] = Nil
          /\ LoadGeneration(m)
          /\ Loading(<<phase, mem, num, due, loadErr, why, served>>)
     \/ /\ \A m \in Gen : m < cur.gen => snaps[m] = Nil
        /\ Loaded(EmptyImage, 0, TRUE)
---------------------------------------------------------------------------
(* Operations. Each changes the map and leaves a record to log. *)

Stage(r, w) == pend' = [rec |-> r, why |-> w, job |-> FALSE] /\ phase' = "append"

(* Every mutator but Del: one section of the lock, one record.               *)
Mutating(op) ==
  /\ op \in Ops /\ phase = "idle"
  /\ UNCHANGED <<num, due, loadErr, todo, gets, gcKeep, cur, now>>
  /\ UNCHANGED files /\ UNCHANGED history

FlagAllows(k, flag) ==
  /\ flag = "SetNX" => mem[k] = Nil
  /\ flag = "SetXX" => mem[k] # Nil

Set(k, v, flag, x) ==
  /\ Mutating("set") /\ FlagAllows(k, flag)
  /\ mem' = [mem EXCEPT ![k] = [val |-> v, exp |-> x]]
  /\ Stage(SetRecord(k, v, x), {})
  /\ UNCHANGED jobs

(* SetVector is Set and, when that succeeds, a job in the background.        *)
SetVector(k, v, flag, x) ==
  /\ Mutating("setvector") /\ FlagAllows(k, flag)
  /\ Cardinality(jobs) < MaxJobs
  /\ mem' = [mem EXCEPT ![k] = [val |-> v, exp |-> x]]
  /\ pend' = [rec |-> SetRecord(k, v, x), why |-> {}, job |-> TRUE] /\ phase' = "append"
  /\ UNCHANGED jobs

(* attachVectorBG has its embedding and caches it, under a lock of its own;   *)
(* a cache entry that has an expiry keeps it, the record has none.           *)
PutVector(k, v) ==
  /\ Mutating("setvector") /\ k \in CacheKeys /\ v \in JsonValues
  /\ \E job \in jobs : job[1] # k
  /\ LET kept == IF mem[k] # Nil THEN mem[k].exp ELSE Nil
     IN  /\ mem' = [mem EXCEPT ![k] = [val |-> v, exp |-> kept]]
         /\ Stage(SetRecord(k, v, Nil), IF kept = Nil THEN {} ELSE {"ttl"})
  /\ UNCHANGED jobs

(* The end of attachVectorBG: the entry is logged again with its vector, if  *)
(* it still holds the text; an error of the log is ignored.                  *)
AttachVector(k, v) ==
  /\ Mutating("setvector") /\ <<k, v>> \in jobs
  /\ mem[k] # Nil /\ mem[k].val = v
  /\ jobs' = jobs \ {<<k, v>>}
  /\ Stage(SetRecord(k, v, mem[k].exp), {})
  /\ UNCHANGED mem

(* The embedding failed, or the key is gone or holds another value.          *)
DropVector(k, v) ==
  /\ <<k, v>> \in jobs
  /\ jobs' = jobs \ {<<k, v>>}
  /\ UNCHANGED <<phase, mem, num, due, loadErr, pend, todo, gets, gcKeep, cur, now>>
  /\ UNCHANGED files /\ UNCHANGED history

(* SetField keeps the expiry of an existing key when given none, and logs    *)
(* the one it was given. Flags are as in Set.                                *)
SetField(k, v, flag, x) ==
  /\ Mutating("setfield") /\ FlagAllows(k, flag)
  /\ v \in JsonValues /\ (mem[k] # Nil => mem[k].val \in JsonValues)
  /\ LET kept == IF mem[k] # Nil /\ x = Nil THEN mem[k].exp ELSE x
     IN  /\ mem' = [mem EXCEPT ![k] = [val |-> v, exp |-> kept]]
         /\ Stage(SetRecord(k, v, x), IF kept = x THEN {} ELSE {"ttl"})
  /\ UNCHANGED jobs

(* Incr, IncrField and DelField: a new value under the old expiry.           *)
RewriteForever(k, v) ==     \* mutant: logs no expiry
  /\ mem' = [mem EXCEPT ![k].val = v]
  /\ Stage(SetRecord(k, v, Nil), {})
  /\ UNCHANGED jobs

Rewrite(k, v) ==
  /\ mem' = [mem EXCEPT ![k].val = v]
  /\ Stage(SetRecord(k, v, mem[k].exp), {})
  /\ UNCHANGED jobs

Incr(k, v) ==
  /\ Mutating("incr")
  /\ mem[k] # Nil /\ mem[k].val \in NumValues /\ v \in NumValues
  /\ Rewrite(k, v)

IncrField(k, v) ==
  /\ Mutating("incrfield")
  /\ mem[k] # Nil /\ mem[k].val \in JsonValues /\ v \in JsonValues
  /\ Rewrite(k, v)

DelField(k, v) ==
  /\ Mutating("delfield")
  /\ mem[k] # Nil /\ mem[k].val \in JsonValues /\ v \in JsonValues
  /\ Rewrite(k, v)

(* Expire, ExpireAt, Persist: no test that the entry is still alive.         *)
Retime(k, r) ==
  /\ mem[k] # Nil
  /\ mem' = [mem EXCEPT ![k].exp = r.exp]
  /\ Stage(r, IF Expired(mem[k], now) THEN {"late"} ELSE {})
  /\ UNCHANGED jobs

Expire(k, seconds) ==
  /\ Mutating("expire") /\ now + seconds \in Stamp
  /\ Retime(k, ExpireRecord("EXPIRE", k, now + seconds))

ExpireAt(k, x) ==
  /\ Mutating("expireat")
  /\ Retime(k, ExpireRecord("EXPIREAT", k, x))

Persist(k) ==
  /\ Mutating("persist")
  /\ Retime(k, PersistRecord(k))

(* Del holds the lock over all its keys, one record each.                    *)
Del(ks) ==
  /\ "del" \in Ops /\ phase = "idle"
  /\ ks # {} /\ \A k \in ks : mem[k] # Nil
  /\ phase' = "del" /\ todo' = ks
  /\ UNCHANGED <<mem, num, due, loadErr, pend, jobs, gets, gcKeep, cur, now>>
  /\ UNCHANGED files /\ UNCHANGED history

GetsWithout(ks) == {g \in gets : g[1] \notin ks}

DelKeyLogsLast(k) ==        \* mutant: one record for all keys
  /\ phase = "del" /\ k \in todo
  /\ mem' = [mem EXCEPT ![k] = Nil]
  /\ todo' = todo \ {k} /\ gets' = GetsWithout({k})
  /\ IF todo = {k} THEN Stage(DelRecord(k), {}) ELSE UNCHANGED <<phase, pend>>
  /\ UNCHANGED <<num, due, loadErr, jobs, gcKeep, cur, now>>
  /\ UNCHANGED files /\ UNCHANGED history

DelKey(k) ==
  /\ phase = "del" /\ k \in todo
  /\ mem' = [mem EXCEPT ![k] = Nil]
  /\ todo' = todo \ {k} /\ gets' = GetsWithout({k})
  /\ Stage(DelRecord(k), {})
  /\ UNCHANGED <<num, due, loadErr, jobs, gcKeep, cur, now>>
  /\ UNCHANGED files /\ UNCHANGED history

(* Get copies the entry under the read lock; a copy found expired has the    *)
(* entry deleted under the write lock if the pointer is still in the map.    *)
GetRead(k) ==
  /\ "get" \in Ops /\ phase = "idle" /\ Cardinality(gets) < MaxGets
  /\ mem[k] # Nil /\ mem[k].exp # Nil
  /\ gets' = gets \cup {<<k, mem[k].exp>>}
  /\ UNCHANGED <<phase, mem, num, due, loadErr, pend, todo, jobs, gcKeep, cur, now>>
  /\ UNCHANGED files /\ UNCHANGED history

GetReturn(k, x) ==
  /\ <<k, x>> \in gets /\ x > now
  /\ gets' = gets \ {<<k, x>>}
  /\ UNCHANGED <<phase, mem, num, due, loadErr, pend, todo, jobs, gcKeep, cur, now>>
  /\ UNCHANGED files /\ UNCHANGED history

GetRemove(k, x) ==
  /\ <<k, x>> \in gets /\ x <= now /\ phase = "idle"
  /\ mem' = [mem EXCEPT ![k] = Nil] /\ gets' = GetsWithout({k})
  /\ why' = [why EXCEPT ![k] = IF LiveAt(mem[k], now) = Nil THEN @ ELSE @ \cup {"race"}]
  /\ UNCHANGED <<phase, num, due, loadErr, pend, todo, jobs, gcKeep, cur, now, fork, served>>
  /\ UNCHANGED files

(* cleanExpired reads the clock before it takes the lock.                    *)
CleanExpiredEarly(t) ==     \* mutant: the entries of the next second too
  /\ "clean" \in Ops /\ phase = "idle" /\ t <= now
  /\ \E k \in Keys : Expired(mem[k], t + 1)
  /\ mem' = [k \in Keys |-> LiveAt(mem[k], t + 1)]
  /\ gets' = GetsWithout({k \in Keys : Expired(mem[k], t + 1)})
  /\ UNCHANGED <<phase, num, due, loadErr, pend, todo, jobs, gcKeep, cur, now>>
  /\ UNCHANGED files /\ UNCHANGED history

CleanExpired(t) ==
  /\ "clean" \in Ops /\ phase = "idle" /\ t <= now
  /\ \E k \in Keys : Expired(mem[k], t)
  /\ mem' = [k \in Keys |-> LiveAt(mem[k], t)]
  /\ gets' = GetsWithout({k \in Keys : Expired(mem[k], t)})
  /\ UNCHANGED <<phase, num, due, loadErr, pend, todo, jobs, gcKeep, cur, now>>
  /\ UNCHANGED files /\ UNCHANGED history
---------------------------------------------------------------------------
(* writeAOF and compact, under the lock of the operation. *)

Release == phase' = IF todo = {} THEN "idle" ELSE "del"

LogOf(n) == IF logs[n] = Nil THEN EmptyLog ELSE logs[n]

(* The keys whose last record is lost when something follows a torn tail.    *)
Hidden == {k \in Keys : LogOf(num).torn /\ LogOf(num).seen[k] # LogOf(num).eff[k]}

Merged == IF LogOf(num).torn /\ logs' # logs THEN {pend.rec.key} \cup Hidden ELSE {}

WhyNow(k) == why[k] \cup IF k \in Merged THEN {"merged"} ELSE {}

(* The operation returns nil. A SET or DEL says all there is about its key,  *)
(* so it clears the earlier reasons; the other records leave them.           *)
Acknowledge ==
  LET r == pend.rec
      full == r.cmd \in {"SET", "DEL"} /\ r.key \notin Merged
  IN  /\ Release /\ pend' = Nil
      /\ jobs' = IF pend.job THEN jobs \cup {<<r.key, r.val>>} ELSE jobs
      /\ why' = [k \in Keys |-> IF k # r.key THEN WhyNow(k)
                                ELSE pend.why \cup IF full THEN {} ELSE WhyNow(k)]

(* The operation returns an error, or Del goes on without noticing.          *)
Refuse ==
  LET reason == IF pend.rec.cmd = "DEL" THEN "swallowed" ELSE "unacked"
  IN  /\ Release /\ pend' = Nil
      /\ UNCHANGED jobs
      /\ why' = [k \in Keys |-> IF k # pend.rec.key THEN WhyNow(k)
                                ELSE WhyNow(k) \cup pend.why \cup {reason}]

(* A full record that reached the log is replayed by every generation, unless *)
(* a snapshot has superseded that log: then only the older ones read it. A   *)
(* changed expiry finds an expired entry in some and none in others; memory, *)
(* where it disagrees with the disk, may show neither. What a torn tail hid  *)
(* goes from the generations that read this log.                             *)
ForkAfter ==
  LET k == pend.rec.key
      full == pend.rec.cmd \in {"SET", "DEL"}
  IN  Hidden \cup
        IF snaps[num] # Nil \/ (~full /\ why[k] \cup pend.why # {}) THEN fork \cup {k}
        ELSE IF full /\ ~LogOf(num).torn THEN fork \ {k}
        ELSE fork

(* init opens the log, Write and Sync succeed; the size is compared with the *)
(* threshold, which it may have reached.                                     *)
AppendRecord(over) ==
  /\ phase = "append"
  /\ over => num < MaxGen
  /\ logs' = [logs EXCEPT ![num] = Appended(LogOf(num), pend.rec)]
  /\ due' = (due \/ over)
  /\ fork' = ForkAfter
  /\ IF due \/ over
     THEN phase' = "snap" /\ UNCHANGED <<pend, jobs>> /\ why' = [k \in Keys |-> WhyNow(k)]
     ELSE Acknowledge
  /\ UNCHANGED <<mem, num, loadErr, todo, gets, gcKeep, cur, snaps, now, served>>

(* init, Write or Sync fails, or the process stops there. What has reached   *)
(* the file is nothing, the whole line, or a part of it.                     *)
Reached(rec) ==
  \/ UNCHANGED <<logs, fork>>
  \/ logs' = [logs EXCEPT ![num] = LogOf(num)] /\ UNCHANGED fork
  \/ logs' = [logs EXCEPT ![num] = Appended(LogOf(num), rec)] /\ fork' = ForkAfter
  \/ "torn" \in Faults /\ \E whole \in BOOLEAN :
       /\ logs' = [logs EXCEPT ![num] = AppendedPart(LogOf(num), rec, whole)]
       /\ fork' = fork \cup Hidden \cup IF whole THEN {rec.key} ELSE {}

AppendFails ==
  /\ phase = "append" /\ "write" \in Faults
  /\ Reached(pend.rec)
  /\ Refuse
  /\ UNCHANGED <<mem, num, due, loadErr, todo, gets, gcKeep, cur, snaps, now, served>>

(* serialize: the entries that are not expired. *)
SerializedAhead ==          \* mutant: leaves out what Del is about to delete
  [k \in Keys |-> IF k \in todo THEN Nil ELSE LiveAt(mem[k], now)]

Serialized == [k \in Keys |-> LiveAt(mem[k], now)]

(* writeSync and the rename: the snapshot takes the number of the log it     *)
(* makes superfluous.                                                        *)
PutSnapshot ==
  /\ phase' = "renamed"
  /\ snaps' = [snaps EXCEPT ![num] = Serialized]
  /\ fork' = {k \in Keys : why[k] # {} \/ (pend # Nil /\ k = pend.rec.key /\ pend.why # {})}
               \cup IF snaps[num] = Nil THEN {} ELSE fork
  /\ why' = [k \in Keys |-> {}]
  /\ pend' = IF pend = Nil THEN Nil ELSE [pend EXCEPT !.why = {}]
  /\ UNCHANGED <<mem, num, loadErr, todo, jobs, gets, gcKeep, cur, logs, now, served>>

WriteSnapshotAnyway ==      \* mutant: does not look at loadErr
  phase = "snap" /\ PutSnapshot /\ UNCHANGED due

WriteSnapshotResets ==      \* mutant: logSize is reset before the next log is open
  phase = "snap" /\ ~loadErr /\ PutSnapshot /\ due' = FALSE

WriteSnapshot == phase = "snap" /\ ~loadErr /\ PutSnapshot /\ UNCHANGED due

(* The next log is opened and the generation advances; gc starts.            *)
OpenNextLog ==
  /\ phase = "renamed"
  /\ logs' = [logs EXCEPT ![num + 1] = LogOf(num + 1)]
  /\ num' = num + 1 /\ due' = FALSE /\ gcKeep' = num
  /\ IF pend = Nil THEN phase' = "closed" /\ UNCHANGED <<pend, jobs, why>> ELSE Acknowledge
  /\ UNCHANGED <<mem, loadErr, todo, gets, cur, snaps, now, fork, served>>

(* compact returns an error: the load had failed, or a step of it fails.     *)
GiveUp ==
  /\ \/ phase = "snap" /\ loadErr
     \/ phase \in {"snap", "renamed"} /\ "compact" \in Faults
  /\ UNCHANGED files
  /\ IF pend = Nil THEN phase' = "closed" /\ UNCHANGED <<pend, jobs, why>> ELSE Refuse
  /\ UNCHANGED <<mem, loadErr, todo, gets, gcKeep, cur, now, fork, served>>

CompactFailsAdvances ==     \* mutant: the generation advances all the same
  GiveUp /\ num' = num + 1 /\ UNCHANGED due

CompactFails == GiveUp /\ UNCHANGED <<num, due>>

(* Close waits for the vector jobs, then compacts, unless there is nothing   *)
(* in memory nor a directory yet.                                            *)
NoFiles == \A n \in Gen : snaps[n] = Nil /\ logs[n] = Nil

Close ==
  /\ "close" \in Ops /\ phase = "idle" /\ jobs = {}
  /\ IF mem = EmptyImage /\ NoFiles THEN phase' = "closed" ELSE num < MaxGen /\ phase' = "snap"
  /\ UNCHANGED <<mem, num, due, loadErr, pend, todo, jobs, gets, gcKeep, cur, now>>
  /\ UNCHANGED files /\ UNCHANGED history
---------------------------------------------------------------------------
(* gcOlderThan, file by file, in a goroutine. *)
GcSnapshotOneMore(n) ==     \* mutant: <= for <
  /\ phase # "down" /\ snaps[n] # Nil /\ n + 1 <= gcKeep
  /\ snaps' = [snaps EXCEPT ![n] = Nil]
  /\ UNCHANGED store /\ UNCHANGED <<logs, now>> /\ UNCHANGED history

GcSnapshot(n) ==
  /\ phase # "down" /\ snaps[n] # Nil /\ n + 1 < gcKeep
  /\ snaps' = [snaps EXCEPT ![n] = Nil]
  /\ UNCHANGED store /\ UNCHANGED <<logs, now>> /\ UNCHANGED history

GcLog(n) ==
  /\ phase # "down" /\ logs[n] # Nil /\ n + 1 <= gcKeep
  /\ logs' = [logs EXCEPT ![n] = Nil]
  /\ UNCHANGED store /\ UNCHANGED <<snaps, now>> /\ UNCHANGED history

(* The process stops, in any phase: killed, or at its end after Close. A     *)
(* record being written may be on disk or not.                               *)
Crash ==
  /\ phase # "down" /\ phase' = "down"
  /\ IF phase = "append" THEN Reached(pend.rec) ELSE UNCHANGED <<logs, fork>>
  /\ why' = IF pend = Nil THEN why
            ELSE [k \in Keys |-> IF k = pend.rec.key THEN WhyNow(k) \cup {"unacked"} ELSE WhyNow(k)]
  /\ served' = IF phase = "load" THEN served ELSE mem
  /\ mem' = EmptyImage /\ num' = 0 /\ due' = FALSE /\ loadErr' = FALSE
  /\ pend' = Nil /\ todo' = {} /\ jobs' = {} /\ gets' = {} /\ gcKeep' = 0 /\ cur' = Nil
  /\ UNCHANGED <<snaps, now>>

Tick == now < MaxTime /\ now' = now + 1 /\ UNCHANGED store /\ UNCHANGED files /\ UNCHANGED history
---------------------------------------------------------------------------
Next ==
  \/ \E n \in Gen : StartLoad(n)
  \/ ReplaySnapshot
  \/ ReplayLog
  \/ ReplayDone
  \/ ReadFails
  \/ \E k \in Keys, v \in Values, f \in SetFlag, x \in Expiry : Set(k, v, f, x)
  \/ \E k \in Keys, v \in Values, f \in SetFlag, x \in Expiry : SetVector(k, v, f, x)
  \/ \E k \in Keys, v \in Values : PutVector(k, v)
  \/ \E k \in Keys, v \in Values : AttachVector(k, v)
  \/ \E k \in Keys, v \in Values : DropVector(k, v)
  \/ \E k \in Keys, v \in Values, f \in SetFlag, x \in Expiry : SetField(k, v, f, x)
  \/ \E k \in Keys, v \in Values : Incr(k, v)
  \/ \E k \in Keys, v \in Values : IncrField(k, v)
  \/ \E k \in Keys, v \in Values : DelField(k, v)
  \/ \E k \in Keys, s \in Stamp : Expire(k, s)
  \/ \E k \in Keys, x \in Stamp : ExpireAt(k, x)
  \/ \E k \in Keys : Persist(k)
  \/ \E ks \in SUBSET Keys : Del(ks)
  \/ \E k \in Keys : DelKey(k)
  \/ \E k \in Keys : GetRead(k)
  \/ \E k \in Keys, x \in Stamp : GetReturn(k, x)
  \/ \E k \in Keys, x \in Stamp : GetRemove(k, x)
  \/ \E t \in 0 .. MaxTime : CleanExpired(t)
  \/ \E over \in BOOLEAN : AppendRecord(over)
  \/ AppendFails
  \/ WriteSnapshot
  \/ OpenNextLog
  \/ CompactFails
  \/ Close
  \/ \E n \in Gen : GcSnapshot(n)
  \/ \E n \in Gen : GcLog(n)
  \/ Crash
  \/ Tick

Spec == Init /\ [][Next]_vars
---------------------------------------------------------------------------
(* Every variable stays in its domain; a phase and its data go together.     *)
TypeOK ==
  /\ phase \in {"down", "load", "idle", "del", "append", "snap", "renamed", "closed"}
  /\ mem \in Image /\ num \in Gen /\ due \in BOOLEAN /\ loadErr \in BOOLEAN
  /\ pend \in Staged \cup {Nil}
  /\ todo \in SUBSET Keys /\ jobs \in SUBSET (Keys \X Values) /\ gets \in SUBSET (Keys \X Stamp)
  /\ gcKeep \in Gen
  /\ cur \in Cursor \cup {Nil} /\ (phase = "load" <=> cur # Nil)
  /\ snaps \in [Gen -> Image \cup {Nil}] /\ logs \in [Gen -> LogFile \cup {Nil}]
  /\ now \in 0 .. MaxTime
  /\ why \in [Keys -> SUBSET Reason] /\ fork \in SUBSET Keys /\ served \in Image
  /\ phase = "append" => pend # Nil

(* What a restart would replay now is what memory shows, for every key no    *)
(* reason is recorded against: an acknowledged write needs nothing more to   *)
(* survive (README.md: every write is fsynced to an append log).             *)
MemoryMatchesDisk ==
  Quiet /\ ~loadErr =>
    \A n \in Gen : IsNewest(n) =>
      \A k \in Keys : why[k] = {} =>
        LiveAt(mem[k], now) = LiveAt(Recovered(n)[k], now)

(* Only one log follows the newest snapshot, the log the store writes to:    *)
(* what Recovered reads is all a restart reads.                              *)
OneLogAfterSnapshot ==
  \A n \in Gen : IsNewest(n) => \A m \in Gen : m > n + 1 => logs[m] = Nil

(* The generation before the newest is kept, and a replay from it ends with  *)
(* the same keys, unless a crash between the rename and the next log left no *)
(* log to go through (README.md: keeping the previous generation for         *)
(* fallback replay).                                                         *)
FallbackComplete ==
  Quiet /\ ~loadErr =>
    \A n \in Gen : IsNewest(n) /\ n > 1 =>
      /\ snaps[n - 1] # Nil
      /\ logs[n] # Nil =>
           \A k \in Keys : why[k] = {} /\ k \notin fork =>
             LiveAt(Fallback(n)[k], now) = LiveAt(Recovered(n)[k], now)

(* A restart gives back what the last process held, whatever the point at    *)
(* which it stopped.                                                         *)
RestartRestores ==
  [][phase = "load" /\ phase' = "idle" /\ ~loadErr' =>
       \A k \in Keys : why[k] = {} =>
         LiveAt(mem'[k], now) = LiveAt(served[k], now)]_vars

(* A store whose files could not be read never changes a snapshot or a log   *)
(* that a later start may read again: what it writes goes to log 0, and      *)
(* compact gives up.                                                         *)
UnreadableUntouched ==
  [][loadErr => \A n \in Gen : snaps'[n] = snaps[n] /\ (n > 0 => logs'[n] = logs[n])]_vars
---------------------------------------------------------------------------
(* The promise this database keeps to its callers. Shown is the live part of *)
(* memory, or of what the last process held; owed are the keys that no       *)
(* reason is recorded against and no record is being written of.             *)
Running == phase \notin {"down", "load"}
IsPending(k) == pend # Nil /\ pend.rec.key = k

Shown == [k \in Keys |-> LiveAt(IF Running THEN mem[k] ELSE served[k], now)]
Owed == {k \in Keys : why[k] = {} /\ ~IsPending(k)}

Promise == INSTANCE KvPromise WITH up <- Running, data <- Shown, owed <- Owed

(* Db implements KvPromise as long as files can be read back and no record   *)
(* is torn: one operation changes one key, every key not being written and   *)
(* without a reason survives the end of the process, time only expires       *)
(* (README.md: every write is fsynced to an append log).                     *)
KeepsPromise == Promise!Spec
---------------------------------------------------------------------------
(* What the documents say and the code does not keep: each is checked by a   *)
(* run that must find it violated.                                           *)

(* README.md: every write is fsynced to an append log; here also the first   *)
(* write after a crash that cut a record short.                              *)
TornTailIsHarmless ==
  Quiet /\ ~loadErr =>
    \A n \in Gen : IsNewest(n) =>
      \A k \in Keys : why[k] \subseteq {"merged"} =>
        LiveAt(mem[k], now) = LiveAt(Recovered(n)[k], now)

(* The same of keys written by SetField, whose expiry memory keeps.          *)
SetFieldIsLogged ==
  Quiet /\ ~loadErr =>
    \A n \in Gen : IsNewest(n) =>
      \A k \in Keys : why[k] \subseteq {"ttl"} =>
        LiveAt(mem[k], now) = LiveAt(Recovered(n)[k], now)
============================================================================
