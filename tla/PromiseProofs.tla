--------------------------- MODULE PromiseProofs ---------------------------
(* Db implements KvPromise: each step of Db is a step of the promise, or     *)
(* changes nothing it speaks of.                                             *)
EXTENDS DbDiskProofs

(* Where no record is torn, no log ends in the middle of one.                *)
NoTorn == \A n \in Gen : logs[n] # Nil => ~logs[n].torn

LEMMA LogsWhole ==
  ASSUME NoTorn, TypeInv, NEW r \in Record
  PROVE  /\ \A n \in Gen : ~LogOf(n).torn /\ ~Appended(LogOf(n), r).torn
         /\ Merged = {}
  BY GenBounds DEF NoTorn, LogOf, EmptyLog, Appended, Merged, TypeInv, TypeOK

LEMMA ReachedWhole ==
  ASSUME "torn" \notin Faults, NoTorn, TypeInv, NEW r \in Record, Reached(r)
  PROVE  NoTorn'
  <1>1. logs' = logs \/ \E l : logs' = [logs EXCEPT ![num] = l] /\ ~l.torn
    BY LogsWhole DEF Reached, TypeInv, TypeOK
  <1> QED BY <1>1 DEF NoTorn, TypeInv, TypeOK

LEMMA StepWhole ==
  ASSUME "torn" \notin Faults, TypeInv, NoTorn, [Next]_vars
  PROVE  NoTorn'
  <1>1. CASE UNCHANGED logs
    BY <1>1 DEF NoTorn
  <1>2. CASE (\E over \in BOOLEAN : AppendRecord(over)) \/ AppendFails \/ (Crash /\ phase = "append")
    <2>1. pend.rec \in Record
      <3>1. phase = "append" /\ TypeOK
        BY <1>2 DEF AppendRecord, AppendFails, TypeInv
      <3>2. pend # Nil
        BY <3>1 DEF TypeOK
      <3> QED BY <3>1, <3>2, PendTypes
    <2>2. CASE \E over \in BOOLEAN : AppendRecord(over)
      BY <2>1, <2>2, LogsWhole DEF AppendRecord, NoTorn, TypeInv, TypeOK
    <2> QED BY <1>2, <2>1, <2>2, ReachedWhole DEF AppendFails, Crash
  <1>3. CASE OpenNextLog \/ \E n \in Gen : GcLog(n)
    BY <1>3 DEF OpenNextLog, GcLog, LogOf, EmptyLog, NoTorn, TypeInv, TypeOK
  <1>4. UNCHANGED logs \/ (\E over \in BOOLEAN : AppendRecord(over)) \/ AppendFails
          \/ (Crash /\ phase = "append") \/ OpenNextLog \/ \E n \in Gen : GcLog(n)
    <2>1. CASE (\E n \in Gen : StartLoad(n)) \/ ReplaySnapshot \/ ReplayLog \/ ReplayDone \/ ReadFails
      BY <2>1 DEF StartLoad, ReplaySnapshot, ReplayLog, ReplayDone, ReadFails, Loaded, Loading
    <2>2. CASE \E k \in Keys, v \in Values, f \in SetFlag, x \in Expiry :
                 Set(k, v, f, x) \/ SetVector(k, v, f, x) \/ SetField(k, v, f, x)
      BY <2>2 DEF Set, SetVector, SetField, Mutating, files
    <2>3. CASE \E k \in Keys, v \in Values :
                 PutVector(k, v) \/ Incr(k, v) \/ IncrField(k, v) \/ DelField(k, v) \/ AttachVector(k, v)
                   \/ DropVector(k, v)
      BY <2>3 DEF PutVector, Incr, IncrField, DelField, AttachVector, DropVector, Mutating, files
    <2>4. CASE \E k \in Keys, x \in Stamp :
                 Expire(k, x) \/ ExpireAt(k, x) \/ GetReturn(k, x) \/ GetRemove(k, x)
      BY <2>4 DEF Expire, ExpireAt, GetReturn, GetRemove, Mutating, files
    <2>5. CASE \/ \E k \in Keys : Persist(k) \/ DelKey(k) \/ GetRead(k)
               \/ \E ks \in SUBSET Keys : Del(ks)
               \/ \E t \in 0 .. MaxTime : CleanExpired(t)
               \/ Close
      BY <2>5 DEF Persist, DelKey, GetRead, Del, CleanExpired, Close, Mutating, files
    <2>6. CASE WriteSnapshot \/ CompactFails \/ (\E n \in Gen : GcSnapshot(n))
                 \/ (Crash /\ phase # "append") \/ Tick \/ UNCHANGED vars
      BY <2>6 DEF WriteSnapshot, PutSnapshot, CompactFails, GiveUp, GcSnapshot, Crash, Tick, files, vars
    <2> QED BY <2>1, <2>2, <2>3, <2>4, <2>5, <2>6 DEF Next
  <1> QED BY <1>1, <1>2, <1>3, <1>4
---------------------------------------------------------------------------
(* The kinds of steps the promise allows, in the terms of Db.                *)

LEMMA Secures ==
  ASSUME TypeInv', Running, Running', now' = now, Shown' = Shown, Owed \subseteq Owed'
  PROVE  Promise!Next
  <1>1. Owed' = Owed \cup Owed' /\ Owed' \in SUBSET Keys
    BY DEF Owed
  <1>2. Promise!Secure(Owed')
    BY <1>1 DEF Promise!Secure
  <1> QED BY <1>1, <1>2 DEF Promise!Next

LEMMA Stutters ==
  ASSUME now' = now, Shown' = Shown, Owed' = Owed, Running' <=> Running
  PROVE  UNCHANGED Promise!vars
  BY DEF Promise!vars

(* A step on one key, which is not owed after it.                            *)
LEMMA Writes ==
  ASSUME TypeInv', Running, Running', now' = now, NEW k \in Keys, k \notin Owed',
         \A l \in Keys \ {k} : /\ LiveAt(mem[l], now)' = LiveAt(mem[l], now)
                               /\ l \in Owed' <=> l \in Owed
  PROVE  Promise!Next
  <1> DEFINE s == LiveAt(mem'[k], now)
  <1>1. Shown' = [Shown EXCEPT ![k] = s]
    BY DEF Shown
  <1>2. s \in Slot /\ s = Promise!LiveAt(s, now)
    BY LiveAtType DEF LiveAt, Expired, Promise!LiveAt, Promise!Expired, TypeInv, TypeOK, Image
  <1>3. Owed' = Owed \ {k}
    BY DEF Owed
  <1>4. Promise!Write(k, s)
    BY <1>1, <1>2, <1>3 DEF Promise!Write
  <1>5. Promise!Slot = Slot
    BY DEF Slot, Entry, Expiry, Stamp, Promise!Slot, Promise!Entry, Promise!Expiry, Promise!Stamp
  <1> QED BY <1>2, <1>4, <1>5 DEF Promise!Next
---------------------------------------------------------------------------
(* The steps of Db. *)

LEMMA LoadPromised ==
  ASSUME "read" \notin Faults, TypeInv, TypeInv', DiskInvariant,
         (\E n \in Gen : StartLoad(n)) \/ ReplaySnapshot \/ ReplayLog \/ ReplayDone \/ ReadFails
  PROVE  [Promise!Next]_(Promise!vars)
  <1>1. CASE (\E n \in Gen : StartLoad(n)) \/ ReplaySnapshot \/ ReplayLog
    <2>1. ~Running /\ ~Running' /\ now' = now /\ served' = served /\ why' = why /\ pend' = pend
      BY <1>1 DEF StartLoad, ReplaySnapshot, ReplayLog, Loading, Running
    <2>2. Shown' = Shown /\ Owed' = Owed
      BY <2>1 DEF Shown, Owed, IsPending
    <2> QED BY <2>1, <2>2, Stutters
  <1>2. CASE ReplayDone
    <2>1. ~Running /\ Running' /\ now' = now /\ why' = [k \in Keys |-> {}] /\ pend' = Nil
      BY <1>2 DEF ReplayDone, Loaded, Loading, Running, DiskInvariant, NumberInv
    <2>2. mem' = Recovered(cur.gen) /\ IsNewest(cur.gen) /\ cur.gen \in Gen
      BY <1>2, ReplayComplete
    <2>3. Owed' = Keys
      BY <2>1 DEF Owed, IsPending
    <2>4. ASSUME NEW k \in Owed
          PROVE  Shown'[k] = Shown[k]
      <3>1. k \in Keys /\ why[k] = {}
        BY DEF Owed
      <3>2. Same(served[k], Recovered(cur.gen)[k])
        BY <2>1, <2>2, <3>1 DEF DiskInvariant, DiskInv
      <3> QED BY <2>1, <2>2, <3>1, <3>2 DEF Shown, Same
    <2>5. Shown' \in Promise!Image
      <3>1. mem' \in Image
        BY DEF TypeInv, TypeOK
      <3>2. Shown' \in Image
        BY <2>1, <3>1, LiveAtType DEF Shown, Image
      <3> QED BY <3>2 DEF Promise!Image, Promise!Slot, Promise!Entry, Promise!Expiry, Promise!Stamp,
                          Image, Slot, Entry, Expiry, Stamp
    <2>6. Promise!Start
      BY <2>1, <2>3, <2>4, <2>5 DEF Promise!Start
    <2> QED BY <2>6 DEF Promise!Next
  <1> QED BY <1>1, <1>2 DEF ReadFails

(* The operations: memory changes on one key, and its record is pending.     *)
LEMMA StagedPromised ==
  ASSUME TypeInv', Running, Running', pend = Nil, NEW k \in Keys,
         \A l \in Keys \ {k} : mem'[l] = mem[l],
         why' = why, now' = now, pend' # Nil, pend'.rec.key = k
  PROVE  Promise!Next
  <1>1. k \notin Owed' /\ \A l \in Keys \ {k} : l \in Owed' <=> l \in Owed
    BY DEF Owed, IsPending
  <1> QED BY <1>1, Writes

LEMMA MutatingPromised ==
  ASSUME TypeInv, TypeInv', DiskInvariant, NEW k \in Keys, phase = "idle",
         NEW r \in Record, r.key = k, NEW w, NEW j,
         pend' = [rec |-> r, why |-> w, job |-> j], phase' = "append",
         UNCHANGED <<why, now>>,
         mem' = mem \/ \E s : mem' = [mem EXCEPT ![k] = s]
  PROVE  Promise!Next
  <1>1. pend = Nil /\ Running /\ Running'
    BY DEF DiskInvariant, NumberInv, Running
  <1>2. pend' # Nil /\ pend'.rec.key = k
    <2>1. pend'.rec = r
      OBVIOUS
    <2>2. phase' = "append" => pend' # Nil
      BY DEF TypeInv, TypeOK
    <2> QED BY <2>1, <2>2
  <1>3. \A l \in Keys \ {k} : mem'[l] = mem[l]
    BY DEF TypeInv, TypeOK, Image
  <1> QED BY <1>1, <1>2, <1>3, StagedPromised

LEMMA OperationPromised ==
  ASSUME TypeInv, TypeInv', DiskInvariant, NEW k \in Keys,
         \/ \E v \in Values, f \in SetFlag, x \in Expiry :
              Set(k, v, f, x) \/ SetVector(k, v, f, x) \/ SetField(k, v, f, x)
         \/ \E v \in Values :
              PutVector(k, v) \/ AttachVector(k, v) \/ Incr(k, v) \/ IncrField(k, v) \/ DelField(k, v)
         \/ \E x \in Stamp : Expire(k, x) \/ ExpireAt(k, x)
         \/ Persist(k)
  PROVE  Promise!Next
  <1> USE DEF Mutating, Stage, history
  <1>1. CASE \E v \in Values, f \in SetFlag, x \in Expiry :
               Set(k, v, f, x) \/ SetVector(k, v, f, x) \/ SetField(k, v, f, x)
    <2>1. PICK v \in Values, f \in SetFlag, x \in Expiry :
            Set(k, v, f, x) \/ SetVector(k, v, f, x) \/ SetField(k, v, f, x)
      BY <1>1
    <2>2. SetRecord(k, v, x) \in Record /\ SetRecord(k, v, x).key = k
      BY RecordTypes DEF SetRecord
    <2>3. CASE Set(k, v, f, x)
      BY <2>2, <2>3, MutatingPromised DEF Set
    <2>4. CASE SetVector(k, v, f, x)
      BY <2>2, <2>4, MutatingPromised DEF SetVector
    <2>5. CASE SetField(k, v, f, x)
      BY <2>2, <2>5, MutatingPromised DEF SetField
    <2> QED BY <2>1, <2>3, <2>4, <2>5
  <1>2. CASE \E v \in Values : PutVector(k, v)
    <2>1. PICK v \in Values : PutVector(k, v)
      BY <1>2
    <2>2. SetRecord(k, v, Nil) \in Record /\ SetRecord(k, v, Nil).key = k
      BY RecordTypes DEF SetRecord, Expiry
    <2> QED BY <2>1, <2>2, MutatingPromised DEF PutVector
  <1>3. CASE \E v \in Values : AttachVector(k, v) \/ Incr(k, v) \/ IncrField(k, v) \/ DelField(k, v)
    <2>1. PICK v \in Values : AttachVector(k, v) \/ Incr(k, v) \/ IncrField(k, v) \/ DelField(k, v)
      BY <1>3
    <2>2. mem[k] # Nil
      BY <2>1 DEF AttachVector, Incr, IncrField, DelField
    <2>3. mem[k].exp \in Expiry
      BY <2>2 DEF TypeInv, TypeOK, Image, Slot, Entry
    <2>4. SetRecord(k, v, mem[k].exp) \in Record /\ SetRecord(k, v, mem[k].exp).key = k
      BY <2>3, RecordTypes DEF SetRecord
    <2>5. CASE AttachVector(k, v)
      BY <2>4, <2>5, MutatingPromised DEF AttachVector
    <2>6. CASE Incr(k, v) \/ IncrField(k, v) \/ DelField(k, v)
      <3>1. mem' = [mem EXCEPT ![k] = [mem[k] EXCEPT !.val = v]]
        BY <2>6 DEF Incr, IncrField, DelField, Rewrite
      <3> QED BY <2>4, <2>6, <3>1, MutatingPromised DEF Incr, IncrField, DelField, Rewrite
    <2> QED BY <2>1, <2>5, <2>6
  <1>4. ASSUME NEW r \in Record, r.key = k, Retime(k, r), phase = "idle", UNCHANGED <<why, now>>
        PROVE  Promise!Next
    <2>1. mem' = [mem EXCEPT ![k] = [mem[k] EXCEPT !.exp = r.exp]]
      BY <1>4 DEF Retime
    <2> QED BY <1>4, <2>1, MutatingPromised DEF Retime
  <1>5. CASE \E x \in Stamp : Expire(k, x) \/ ExpireAt(k, x)
    <2>1. PICK x \in Stamp : Expire(k, x) \/ ExpireAt(k, x)
      BY <1>5
    <2>2. CASE Expire(k, x)
      <3>1. ExpireRecord("EXPIRE", k, now + x) \in Record /\ ExpireRecord("EXPIRE", k, now + x).key = k
        BY <2>2, RecordTypes DEF Expire, ExpireRecord, Expiry
      <3> QED BY <2>2, <3>1, <1>4 DEF Expire
    <2>3. CASE ExpireAt(k, x)
      <3>1. ExpireRecord("EXPIREAT", k, x) \in Record /\ ExpireRecord("EXPIREAT", k, x).key = k
        BY RecordTypes DEF ExpireRecord, Expiry
      <3> QED BY <2>3, <3>1, <1>4 DEF ExpireAt
    <2> QED BY <2>1, <2>2, <2>3
  <1>6. CASE Persist(k)
    <2>1. PersistRecord(k) \in Record /\ PersistRecord(k).key = k
      BY RecordTypes DEF PersistRecord
    <2> QED BY <1>4, <1>6, <2>1 DEF Persist
  <1> QED BY <1>1, <1>2, <1>3, <1>5, <1>6

LEMMA DelKeyPromised ==
  ASSUME TypeInv, TypeInv', DiskInvariant, NEW k \in Keys, DelKey(k)
  PROVE  Promise!Next
  <1>1. pend = Nil /\ Running /\ Running' /\ why' = why /\ now' = now
    BY DEF DelKey, DiskInvariant, NumberInv, Running, Stage, history
  <1>2. pend' # Nil /\ pend'.rec.key = k
    BY DEF DelKey, Stage, DelRecord, TypeInv, TypeOK
  <1>3. \A l \in Keys \ {k} : mem'[l] = mem[l]
    BY DEF DelKey, TypeInv, TypeOK, Image
  <1> QED BY <1>1, <1>2, <1>3, StagedPromised

(* Readers, the end of a job, the timer, Close, the collector: nothing that  *)
(* is shown or owed changes, but for a Get that removes a refreshed entry.   *)
LEMMA QuietPromised ==
  ASSUME TypeInv, TypeInv', DiskInvariant,
         \/ \E k \in Keys, v \in Values : DropVector(k, v)
         \/ \E k \in Keys : GetRead(k)
         \/ \E k \in Keys, x \in Stamp : GetReturn(k, x)
         \/ \E ks \in SUBSET Keys : Del(ks)
         \/ Close
         \/ \E n \in Gen : GcSnapshot(n) \/ GcLog(n)
         \/ UNCHANGED vars
  PROVE  UNCHANGED Promise!vars
  <1>1. UNCHANGED <<mem, now, pend, why, served>>
    BY DEF DropVector, GetRead, GetReturn, Del, Close, GcSnapshot, GcLog, store, history, vars
  <1>2. Running' <=> Running
    BY DEF DropVector, GetRead, GetReturn, Del, Close, GcSnapshot, GcLog, store, Running, vars
  <1>3. Shown' = Shown /\ Owed' = Owed
    BY <1>1, <1>2 DEF Shown, Owed, IsPending
  <1> QED BY <1>1, <1>2, <1>3, Stutters

LEMMA RemovalPromised ==
  ASSUME TypeInv, TypeInv', DiskInvariant,
         \/ \E k \in Keys, x \in Stamp : GetRemove(k, x)
         \/ \E t \in 0 .. MaxTime : CleanExpired(t)
  PROVE  [Promise!Next]_(Promise!vars)
  <1>1. Running /\ Running' /\ now' = now /\ pend' = pend
    BY DEF GetRemove, CleanExpired, Running
  <1>2. now \in Nat /\ \A t \in 0 .. MaxTime : t \in Nat
    BY TimeAssumption DEF TypeInv, TypeOK
  <1>3. CASE \E k \in Keys, x \in Stamp : GetRemove(k, x)
    <2>1. PICK k \in Keys, x \in Stamp : GetRemove(k, x)
      BY <1>3
    <2>2. /\ mem' = [mem EXCEPT ![k] = Nil] /\ mem \in Image
          /\ why' = [why EXCEPT ![k] = IF LiveAt(mem[k], now) = Nil THEN @ ELSE @ \cup {"race"}]
          /\ why \in [Keys -> SUBSET Reason]
      BY <2>1 DEF GetRemove, TypeInv, TypeOK
    <2>3. CASE LiveAt(mem[k], now) = Nil
      <3>1. why' = why /\ \A l \in Keys : LiveAt(mem'[l], now) = LiveAt(mem[l], now)
        BY <2>2, <2>3 DEF Image, LiveAt, Expired
      <3>2. Shown' = Shown /\ Owed' = Owed
        BY <1>1, <3>1 DEF Shown, Owed, IsPending
      <3> QED BY <1>1, <3>2, Stutters
    <2>4. CASE LiveAt(mem[k], now) # Nil
      <3>1. why'[k] # {} /\ \A l \in Keys \ {k} : why'[l] = why[l] /\ mem'[l] = mem[l]
        BY <2>2, <2>4 DEF Image
      <3>2. k \notin Owed' /\ \A l \in Keys \ {k} : l \in Owed' <=> l \in Owed
        BY <1>1, <3>1 DEF Owed, IsPending
      <3> QED BY <1>1, <3>1, <3>2, Writes
    <2> QED BY <2>3, <2>4
  <1>4. CASE \E t \in 0 .. MaxTime : CleanExpired(t)
    <2>1. PICK t \in 0 .. MaxTime : CleanExpired(t)
      BY <1>4
    <2>2. t <= now /\ mem' = [k \in Keys |-> LiveAt(mem[k], t)] /\ why' = why
      BY <2>1 DEF CleanExpired, history
    <2>3. \A k \in Keys : LiveAt(LiveAt(mem[k], t), now) = LiveAt(mem[k], now)
      BY <2>2, SameLater DEF TypeInv, TypeOK, Image
    <2>4. Shown' = Shown /\ Owed' = Owed
      BY <1>1, <2>2, <2>3 DEF Shown, Owed, IsPending
    <2> QED BY <1>1, <2>4, Stutters
  <1> QED BY <1>3, <1>4

(* The end of an operation, good or bad, and a snapshot make more keys owed. *)
LEMMA EndPromised ==
  ASSUME TypeInv, TypeInv', NoTorn, Running, Running', now' = now, mem' = mem,
         \/ pend # Nil /\ (Acknowledge \/ Refuse)
         \/ pend' = pend /\ \A k \in Keys : why[k] = {} => why'[k] = {}
         \/ pend # Nil /\ pend' # Nil /\ pend'.rec = pend.rec /\ \A k \in Keys : why'[k] = {}
  PROVE  Promise!Next
  <1>1. Shown' = Shown
    BY DEF Shown
  <1>2. Owed \subseteq Owed'
    <2>1. CASE pend # Nil /\ (Acknowledge \/ Refuse)
      <3>1. pend.rec \in Record
        BY <2>1 DEF TypeInv, TypeOK, Staged
      <3>2. \A k \in Keys : WhyNow(k) = why[k]
        BY <3>1, LogsWhole DEF WhyNow
      <3>3. pend' = Nil /\ \A k \in Keys : k # pend.rec.key => why'[k] = why[k]
        BY <2>1, <3>2 DEF Acknowledge, Refuse
      <3> QED BY <2>1, <3>3 DEF Owed, IsPending
    <2>2. CASE pend' = pend /\ \A k \in Keys : why[k] = {} => why'[k] = {}
      BY <2>2 DEF Owed, IsPending
    <2>3. CASE pend # Nil /\ pend' # Nil /\ pend'.rec = pend.rec /\ \A k \in Keys : why'[k] = {}
      BY <2>3 DEF Owed, IsPending
    <2> QED BY <2>1, <2>2, <2>3
  <1> QED BY <1>1, <1>2, Secures

LEMMA LoggingPromised ==
  ASSUME TypeInv, TypeInv', DiskInvariant, NoTorn,
         \/ (\E over \in BOOLEAN : AppendRecord(over)) \/ AppendFails
         \/ WriteSnapshot \/ OpenNextLog \/ CompactFails
  PROVE  Promise!Next
  <1>1. now' = now /\ mem' = mem
    BY DEF AppendRecord, AppendFails, WriteSnapshot, PutSnapshot, OpenNextLog, CompactFails, GiveUp
  <1>2. Running /\ Running'
    BY DEF AppendRecord, AppendFails, WriteSnapshot, PutSnapshot, OpenNextLog, CompactFails, GiveUp,
           Acknowledge, Refuse, Release, Running
  <1>3. CASE (\E over \in BOOLEAN : AppendRecord(over)) \/ AppendFails
    <2>1. pend # Nil /\ pend.rec \in Record
      BY <1>3 DEF AppendRecord, AppendFails, TypeInv, TypeOK, Staged
    <2>2. \A k \in Keys : WhyNow(k) = why[k]
      BY <2>1, LogsWhole DEF WhyNow
    <2>3. \/ Acknowledge \/ Refuse
          \/ pend' = pend /\ \A k \in Keys : why'[k] = why[k]
      BY <1>3, <2>2 DEF AppendRecord, AppendFails
    <2> QED BY <1>1, <1>2, <2>1, <2>3, EndPromised
  <1>4. CASE WriteSnapshot
    <2>1. /\ \A k \in Keys : why'[k] = {}
          /\ pend = Nil => pend' = Nil
          /\ pend # Nil => pend' = [pend EXCEPT !.why = {}]
      BY <1>4 DEF WriteSnapshot, PutSnapshot
    <2>2. pend # Nil => pend' # Nil /\ pend'.rec = pend.rec
      BY <2>1, NilNoData DEF TypeInv, TypeOK, Staged
    <2> QED BY <1>1, <1>2, <2>1, <2>2, EndPromised
  <1>5. CASE OpenNextLog \/ CompactFails
    <2>1. CASE pend = Nil
      <3>1. pend' = pend /\ why' = why
        BY <1>5, <2>1 DEF OpenNextLog, CompactFails, GiveUp
      <3> QED BY <1>1, <1>2, <3>1, EndPromised
    <2>2. CASE pend # Nil
      <3>1. Acknowledge \/ Refuse
        BY <1>5, <2>2 DEF OpenNextLog, CompactFails, GiveUp
      <3> QED BY <1>1, <1>2, <2>2, <3>1, EndPromised
    <2> QED BY <2>1, <2>2
  <1> QED BY <1>3, <1>4, <1>5

LEMMA CrashPromised ==
  ASSUME TypeInv, TypeInv', DiskInvariant, NoTorn, Crash
  PROVE  [Promise!Next]_(Promise!vars)
  <1>1. ~Running' /\ now' = now /\ pend' = Nil
    BY DEF Crash, Running
  <1>2. CASE phase = "load"
    <2>1. pend = Nil /\ ~Running /\ served' = served /\ why' = why
      BY <1>2 DEF Crash, DiskInvariant, NumberInv, Running
    <2>2. Shown' = Shown /\ Owed' = Owed
      BY <1>1, <2>1 DEF Shown, Owed, IsPending
    <2> QED BY <1>1, <2>1, <2>2, Stutters
  <1>3. CASE phase # "load"
    <2>1. Running /\ served' = mem
      BY <1>3 DEF Crash, Running
    <2>2. Shown' = Shown
      BY <1>1, <2>1 DEF Shown
    <2>3. Owed' = Owed
      <3>1. CASE pend = Nil
        BY <1>1, <3>1 DEF Crash, Owed, IsPending
      <3>2. CASE pend # Nil
        <4>1. pend.rec \in Record /\ pend.rec.key \in Keys
          BY <3>2, PendTypes DEF TypeInv
        <4>2. \A k \in Keys : WhyNow(k) = why[k]
          BY <4>1, LogsWhole DEF WhyNow
        <4>3. \A k \in Keys : why'[k] = IF k = pend.rec.key THEN why[k] \cup {"unacked"} ELSE why[k]
          BY <3>2, <4>2 DEF Crash
        <4> QED BY <1>1, <3>2, <4>3 DEF Owed, IsPending
      <3> QED BY <3>1, <3>2
    <2>4. Promise!Stop
      BY <1>1, <2>1, <2>2, <2>3 DEF Promise!Stop
    <2> QED BY <2>4 DEF Promise!Next
  <1> QED BY <1>2, <1>3

LEMMA TickPromised ==
  ASSUME TypeInv, TypeInv', Tick
  PROVE  Promise!Next
  <1>1. now' = now + 1 /\ now \in Nat /\ now' \in 0 .. MaxTime
    BY TimeAssumption DEF Tick, TypeInv, TypeOK
  <1>2. UNCHANGED <<mem, served, pend, why>> /\ Running' = Running
    BY DEF Tick, store, history, Running
  <1>3. \A s \in Slot : LiveAt(LiveAt(s, now), now') = LiveAt(s, now')
    BY <1>1 DEF LiveAt, Expired, Slot, Entry, Expiry, Stamp
  <1>4. mem \in Image /\ served \in Image
    BY DEF TypeInv, TypeOK
  <1>5. Shown' = [k \in Keys |-> Promise!LiveAt(Shown[k], now')]
    BY <1>2, <1>3, <1>4 DEF Shown, Image, LiveAt, Expired, Promise!LiveAt, Promise!Expired
  <1>6. Owed' = Owed
    BY <1>2 DEF Owed, IsPending
  <1>7. Promise!Pass
    BY <1>1, <1>2, <1>5, <1>6 DEF Promise!Pass
  <1> QED BY <1>7 DEF Promise!Next
---------------------------------------------------------------------------
LEMMA InitPromised == Init => Promise!Init
  BY EmptyImageType DEF Init, Promise!Init, Shown, Owed, Running, IsPending, EmptyImage,
     Promise!EmptyImage, LiveAt, Expired

LEMMA StepPromised ==
  ASSUME "read" \notin Faults, TypeInv, TypeInv', DiskInvariant, NoTorn, [Next]_vars
  PROVE  [Promise!Next]_(Promise!vars)
  <1>1. CASE (\E n \in Gen : StartLoad(n)) \/ ReplaySnapshot \/ ReplayLog \/ ReplayDone \/ ReadFails
    BY <1>1, LoadPromised
  <1>2. CASE \/ \E k \in Keys, v \in Values, f \in SetFlag, x \in Expiry :
                  Set(k, v, f, x) \/ SetVector(k, v, f, x) \/ SetField(k, v, f, x)
             \/ \E k \in Keys, v \in Values :
                  PutVector(k, v) \/ AttachVector(k, v) \/ Incr(k, v) \/ IncrField(k, v) \/ DelField(k, v)
             \/ \E k \in Keys, x \in Stamp : Expire(k, x) \/ ExpireAt(k, x)
             \/ \E k \in Keys : Persist(k)
    BY <1>2, OperationPromised
  <1>3. CASE \E k \in Keys : DelKey(k)
    BY <1>3, DelKeyPromised
  <1>4. CASE \/ \E k \in Keys, v \in Values : DropVector(k, v)
             \/ \E k \in Keys : GetRead(k)
             \/ \E k \in Keys, x \in Stamp : GetReturn(k, x)
             \/ \E ks \in SUBSET Keys : Del(ks)
             \/ Close
             \/ \E n \in Gen : GcSnapshot(n) \/ GcLog(n)
             \/ UNCHANGED vars
    BY <1>4, QuietPromised
  <1>5. CASE \/ \E k \in Keys, x \in Stamp : GetRemove(k, x)
             \/ \E t \in 0 .. MaxTime : CleanExpired(t)
    BY <1>5, RemovalPromised
  <1>6. CASE \/ (\E over \in BOOLEAN : AppendRecord(over)) \/ AppendFails
             \/ WriteSnapshot \/ OpenNextLog \/ CompactFails
    BY <1>6, LoggingPromised
  <1>7. CASE Crash \/ Tick
    BY <1>7, CrashPromised, TickPromised
  <1> QED BY <1>1, <1>2, <1>3, <1>4, <1>5, <1>6, <1>7 DEF Next

(* Db implements KvPromise, where every file that exists can be read and no  *)
(* record is torn: what a caller was told is on disk survives every end of   *)
(* the process, one operation changes one key, and nothing else changes any. *)
THEOREM PromiseKept ==
  ASSUME "read" \notin Faults, "torn" \notin Faults
  PROVE  Spec => KeepsPromise
  <1>1. Init => NoTorn
    BY DEF Init, NoTorn
  <1>2. Spec => []NoTorn
    <2>1. TypeInv /\ NoTorn /\ [Next]_vars => NoTorn'
      BY StepWhole
    <2> QED BY <1>1, <2>1, AlwaysTyped, PTL DEF Spec
  <1>3. TypeInv /\ TypeInv' /\ DiskInvariant /\ NoTorn /\ [Next]_vars => [Promise!Next]_(Promise!vars)
    BY StepPromised
  <1> QED BY <1>2, <1>3, InitPromised, AlwaysDisk, PTL DEF Spec, KeepsPromise, Promise!Spec
============================================================================
