---------------------------- MODULE DbDiskProofs ----------------------------
(* Theorems about the directory of one database, where files that exist can  *)
(* be read: what memory shows is what a restart replays, one log follows the *)
(* newest snapshot, a restart gives back what the last process held, and the *)
(* generation kept before the newest can stand in for it.                    *)
EXTENDS DbTypeProofs

(* Replaying the directory. *)

LEMMA GenBounds ==
  /\ MaxGen \in Nat /\ MaxGen > 0 /\ Gen = 0 .. MaxGen
  /\ \A n \in Gen : n \in Nat
  BY BoundsAssumption DEF Gen

LEMMA SameFiles ==
  ASSUME UNCHANGED files, NEW n \in Gen
  PROVE  /\ Recovered(n)' = Recovered(n) /\ Base(n)' = Base(n)
         /\ IsNewest(n)' <=> IsNewest(n)
  BY DEF files, Recovered, Replayed1, Base, IsNewest

LEMMA RecoveredType ==
  ASSUME TypeOK, NEW n \in Gen
  PROVE  Recovered(n) \in Image
  BY BaseType, Replayed1Type DEF Recovered

(* Two images agree on a key later when they agree now.                      *)
LEMMA SameLater ==
  ASSUME NEW s \in Slot, NEW u \in Slot, NEW t \in 0 .. MaxTime, t <= now, now \in 0 .. MaxTime
  PROVE  /\ LiveAt(LiveAt(s, t), now) = LiveAt(s, now)
         /\ LiveAt(s, t) = LiveAt(u, t) => LiveAt(s, now) = LiveAt(u, now)
  <1>1. t \in Nat /\ now \in Nat
    BY TimeAssumption
  <1>2. LiveAt(LiveAt(s, t), t) = LiveAt(s, t)
    BY DEF LiveAt, Expired
  <1> QED BY <1>1, <1>2, LiveLater, LiveAtType

(* Where the newest snapshot is while the store runs.                        *)
LEMMA Newest ==
  ASSUME TypeInv, NumberInv, Running
  PROVE  /\ num \in Gen /\ num > 0 /\ num - 1 \in Gen /\ num = (num - 1) + 1
         /\ \A n \in Gen : IsNewest(n) => n = num - 1 \/ n = num
         /\ \A m, n \in Gen : IsNewest(m) /\ IsNewest(n) => m = n
         /\ IsNewest(num) => snaps[num] # Nil /\ num < MaxGen
         /\ IsNewest(num - 1) => snaps[num] = Nil
  <1>1. num \in Gen /\ num > 0 /\ snaps[MaxGen] = Nil
    BY DEF TypeInv, TypeOK, NumberInv
  <1>2. num - 1 \in Gen /\ num = (num - 1) + 1
    BY <1>1, GenBounds
  <1>3. \A m, n \in Gen : IsNewest(m) /\ IsNewest(n) => m = n
    BY GenBounds DEF IsNewest
  <1>4. \A n \in Gen : IsNewest(n) => n = num - 1 \/ n = num
    BY <1>1, <1>2, <1>3 DEF NumberInv
  <1>5. IsNewest(num) => snaps[num] # Nil /\ num < MaxGen
    BY <1>1, GenBounds DEF IsNewest
  <1>6. IsNewest(num - 1) => snaps[num] = Nil
    BY <1>1, <1>2, GenBounds DEF IsNewest
  <1> QED BY <1>1, <1>2, <1>3, <1>4, <1>5, <1>6

(* An empty log replays as no log.                                           *)
LEMMA EmptyLogReplay ==
  ASSUME NEW img \in Image
  PROVE  ReplayInto(img, EmptyLog) = img
  BY DEF ReplayInto, EmptyLog, Apply, Keep, Image

(* The newest generation replays the log in use, or nothing when its         *)
(* snapshot has superseded that log.                                         *)
LEMMA RecoveredCurrent ==
  ASSUME TypeInv, num > 0
  PROVE  /\ num - 1 \in Gen /\ Base(num - 1) \in Image
         /\ Recovered(num - 1) = ReplayInto(Base(num - 1), LogOf(num))
  <1>1. num - 1 \in Gen /\ (num - 1) + 1 = num /\ num \in Gen
    BY GenBounds DEF TypeInv, TypeOK
  <1>2. Base(num - 1) \in Image
    BY <1>1, BaseType DEF TypeInv
  <1>3. ReplayInto(Base(num - 1), EmptyLog) = Base(num - 1)
    BY <1>2, EmptyLogReplay
  <1> QED BY <1>1, <1>2, <1>3 DEF Recovered, Replayed1, LogOf

LEMMA RecoveredSuperseded ==
  ASSUME TypeInv, NumberInv, Running, IsNewest(num)
  PROVE  Recovered(num) = snaps[num] /\ logs[num + 1] = Nil /\ num + 1 \in Gen
  <1>1. num \in Gen /\ num < MaxGen /\ snaps[num] # Nil
    BY Newest
  <1>2. num + 1 \in Gen /\ logs[num + 1] = Nil
    BY <1>1, GenBounds DEF NumberInv
  <1> QED BY <1>1, <1>2 DEF Recovered, Replayed1, Base
---------------------------------------------------------------------------
(* What the append of a record does to a replay. *)

LEMMA PendTypes ==
  ASSUME TypeOK, pend # Nil
  PROVE  /\ pend.rec \in Record /\ pend.rec.key \in Keys /\ pend.why \in SUBSET Reason
  BY DEF TypeOK, Staged, Record

LEMMA LogFacts ==
  ASSUME TypeOK, TornInv, num \in Gen
  PROVE  /\ LogOf(num) \in LogFile /\ LogOf(num).torn \in BOOLEAN
         /\ LogOf(num).eff \in [Keys -> Effect] /\ LogOf(num).seen \in [Keys -> Effect]
         /\ ~LogOf(num).torn => LogOf(num).seen = LogOf(num).eff
         /\ LogOf(num).torn => logs[num] = LogOf(num)
  <1>1. LogOf(num) \in LogFile
    BY LogOfType
  <1>2. EmptyLog.torn = FALSE /\ EmptyLog.seen = EmptyLog.eff
    BY DEF EmptyLog
  <1> QED BY <1>1, <1>2 DEF LogFile, LogOf, TornInv

(* The files a step of writeAOF may leave, whether it ends well or not.      *)
Outcome(l, r) == {l, Appended(l, r)} \cup {AppendedPart(l, r, w) : w \in BOOLEAN}

(* The log after the append still hides something only if it is torn, and    *)
(* other keys replay as before unless a torn tail swallowed their record.    *)
LEMMA OutcomeKeeps ==
  ASSUME NEW o \in LogFile, ~o.torn => o.seen = o.eff, NEW r \in Record, NEW l \in Outcome(o, r)
  PROVE  /\ l \in LogFile /\ (~l.torn => l.seen = l.eff)
         /\ l = o \/ \A k \in Keys : k # r.key /\ (o.torn => o.seen[k] = o.eff[k]) => l.seen[k] = o.seen[k]
  <1>1. o.torn \in BOOLEAN /\ o.eff \in [Keys -> Effect]
    BY DEF LogFile
  <1>2. \A k \in Keys : k # r.key => WithLine(o.eff, r)[k] = o.eff[k]
    BY <1>1, WithLineType
  <1>3. CASE l = o
    BY <1>3
  <1>4. CASE l = Appended(o, r)
    <2>1. l \in LogFile
      BY <1>4, AppendedType
    <2> QED BY <1>1, <1>2, <1>4, <2>1 DEF Appended
  <1>5. CASE \E w \in BOOLEAN : l = AppendedPart(o, r, w)
    <2>1. l \in LogFile
      BY <1>5, AppendedType
    <2> QED BY <1>1, <1>2, <1>5, <2>1 DEF AppendedPart
  <1> QED BY <1>3, <1>4, <1>5 DEF Outcome

(* Whatever reached the log in use, every other key replays as before,       *)
(* unless its last record is merged, and only a torn log hides something.    *)
LEMMA AppendKeeps ==
  ASSUME TypeInv, NumberInv, TornInv, Running, pend # Nil, UNCHANGED snaps,
         logs' = logs \/ \E l \in Outcome(LogOf(num), pend.rec) : logs' = [logs EXCEPT ![num] = l]
  PROVE  /\ TornInv' /\ \A m \in Gen : m # num => logs'[m] = logs[m]
         /\ \A n \in Gen : IsNewest(n)' <=> IsNewest(n)
         /\ \A n \in Gen, k \in Keys :
              IsNewest(n) /\ k \notin Merged /\ k # pend.rec.key => Recovered(n)'[k] = Recovered(n)[k]
         /\ \A n \in Gen : n = num => Recovered(n)' = Recovered(n)
  <1>1. /\ num \in Gen /\ num > 0 /\ num - 1 \in Gen /\ num = (num - 1) + 1
        /\ logs \in [Gen -> LogFile \cup {Nil}]
    BY Newest DEF TypeInv, TypeOK
  <1>2. \A n \in Gen : Base(n)' = Base(n) /\ (IsNewest(n)' <=> IsNewest(n))
    BY DEF Base, IsNewest
  <1>3. CASE logs' = logs
    <2>1. UNCHANGED files
      BY <1>3 DEF files
    <2>2. TornInv'
      BY <1>3 DEF TornInv
    <2> QED BY <1>2, <1>3, <2>1, <2>2, SameFiles
  <1>4. ASSUME NEW l \in Outcome(LogOf(num), pend.rec), logs' = [logs EXCEPT ![num] = l]
        PROVE  /\ TornInv' /\ \A m \in Gen : m # num => logs'[m] = logs[m]
               /\ \A n \in Gen, k \in Keys :
                    IsNewest(n) /\ k \notin Merged /\ k # pend.rec.key
                      => Recovered(n)'[k] = Recovered(n)[k]
               /\ \A n \in Gen : n = num => Recovered(n)' = Recovered(n)
    <2>1. /\ LogOf(num) \in LogFile /\ (~LogOf(num).torn => LogOf(num).seen = LogOf(num).eff)
          /\ LogOf(num).torn => logs[num] = LogOf(num)
          /\ pend.rec \in Record
      BY <1>1, LogFacts, PendTypes DEF TypeInv
    <2>2. /\ l \in LogFile /\ (~l.torn => l.seen = l.eff)
          /\ \/ l = LogOf(num)
             \/ \A k \in Keys : k # pend.rec.key
                       /\ (LogOf(num).torn => LogOf(num).seen[k] = LogOf(num).eff[k])
                     => l.seen[k] = LogOf(num).seen[k]
      BY <2>1, OutcomeKeeps
    <2>3. logs'[num] = l /\ \A m \in Gen : m # num => logs'[m] = logs[m]
      BY <1>1, <1>4
    <2>4. TornInv'
      BY <2>2, <2>3 DEF TornInv
    <2>5. \A n \in Gen : n # num - 1 => Recovered(n)' = Recovered(n)
      <3>1. \A n \in Gen : n # num - 1 => n + 1 # num
        BY <1>1, GenBounds
      <3> QED BY <1>2, <2>3, <3>1 DEF Recovered, Replayed1
    <2>6. ASSUME NEW n \in Gen, n = num - 1, NEW k \in Keys, k \notin Merged, k # pend.rec.key
          PROVE  Recovered(n)'[k] = Recovered(n)[k]
      <3>1. l.seen[k] = LogOf(num).seen[k]
        <4>1. CASE l = LogOf(num)
          BY <4>1
        <4>2. CASE LogOf(num).torn /\ l # LogOf(num)
          <5>1. logs' # logs
            BY <2>1, <2>3, <4>2
          <5>2. LogOf(num).seen[k] = LogOf(num).eff[k]
            BY <2>6, <4>2, <5>1 DEF Merged, Hidden
          <5> QED BY <2>2, <2>6, <4>2, <5>2
        <4>3. CASE ~LogOf(num).torn /\ l # LogOf(num)
          BY <2>2, <2>6, <4>3
        <4> QED BY <4>1, <4>2, <4>3
      <3>2. Recovered(n) = ReplayInto(Base(n), LogOf(num))
        BY <1>1, <2>6, RecoveredCurrent
      <3>3. Recovered(n)' = ReplayInto(Base(n), l)
        <4>1. l # Nil /\ n + 1 = num
          BY <1>1, <2>2, <2>6, NilNoData
        <4> QED BY <1>1, <1>2, <2>3, <4>1 DEF Recovered, Replayed1
      <3> QED BY <3>1, <3>2, <3>3 DEF ReplayInto
    <2>7. \A n \in Gen : n = num => Recovered(n)' = Recovered(n)
      BY <1>1, <2>5, GenBounds
    <2> QED BY <2>3, <2>4, <2>5, <2>6, <2>7
  <1> QED BY <1>2, <1>3, <1>4

(* On a log that ends in a newline the record is replayed after all others.  *)
LEMMA AppendReplays ==
  ASSUME TypeInv, NumberInv, TornInv, Running, pend # Nil, UNCHANGED snaps,
         logs' = [logs EXCEPT ![num] = Appended(LogOf(num), pend.rec)],
         pend.rec.key \notin Merged, NEW n \in Gen, n = num - 1
  PROVE  Recovered(n)'[pend.rec.key] = Replayed(pend.rec, Recovered(n)[pend.rec.key])
  <1> DEFINE l == Appended(LogOf(num), pend.rec)
             k == pend.rec.key
  <1>1. /\ num \in Gen /\ num > 0 /\ n + 1 = num
        /\ logs \in [Gen -> LogFile \cup {Nil}]
    BY Newest DEF TypeInv, TypeOK
  <1>2. /\ LogOf(num) \in LogFile /\ (~LogOf(num).torn => LogOf(num).seen = LogOf(num).eff)
        /\ LogOf(num).torn => logs[num] = LogOf(num)
        /\ LogOf(num).eff \in [Keys -> Effect]
        /\ pend.rec \in Record /\ k \in Keys
    BY <1>1, LogFacts, PendTypes DEF TypeInv
  <1>3. ~LogOf(num).torn
    <2>1. logs'[num] = l /\ l.torn = FALSE
      BY <1>1 DEF Appended
    <2> QED BY <1>2, <2>1 DEF Merged
  <1>4. l.seen[k] = Then(LogOf(num).seen[k], pend.rec)
    <2>1. l.seen = WithLine(LogOf(num).eff, pend.rec)
      BY <1>3 DEF Appended
    <2>2. WithLine(LogOf(num).eff, pend.rec)[k] = Then(LogOf(num).eff[k], pend.rec)
      BY <1>2, WithLineType
    <2> QED BY <1>2, <1>3, <2>1, <2>2
  <1>5. Base(n) \in Image /\ Recovered(n) = ReplayInto(Base(n), LogOf(num))
    BY <1>1, RecoveredCurrent
  <1>6. Recovered(n)' = ReplayInto(Base(n), l)
    <2>1. l # Nil /\ Base(n)' = Base(n)
      BY <1>2, AppendedType, NilNoData DEF Base
    <2>2. logs'[num] = l
      BY <1>1
    <2> HIDE DEF l
    <2> QED BY <1>1, <2>1, <2>2 DEF Recovered, Replayed1
  <1>7. LogOf(num).seen[k] \in Effect /\ Base(n)[k] \in Slot
    BY <1>2, <1>5 DEF LogFile, Image
  <1>8. Apply(Then(LogOf(num).seen[k], pend.rec), Base(n)[k])
          = Replayed(pend.rec, Apply(LogOf(num).seen[k], Base(n)[k]))
    BY <1>2, <1>7, ThenReplays
  <1> QED BY <1>2, <1>4, <1>5, <1>6, <1>8 DEF ReplayInto
---------------------------------------------------------------------------
(* Operations: the record staged is what the change of the map amounts to.   *)

(* What memory and disk say of a key while nothing is pending.               *)
LEMMA QuietSame ==
  ASSUME TypeOK, NumberInv, DiskInv, phase \in {"idle", "del"}
  PROVE  \A n \in Gen, k \in Keys : IsNewest(n) /\ why[k] = {} => Same(mem[k], Recovered(n)[k])
  <1>1. pend = Nil /\ Running
    BY DEF NumberInv, Running
  <1> QED BY <1>1 DEF DiskInv, IsPending

LEMMA StagedDisk ==
  ASSUME TypeInv, DiskInvariant, phase \in {"idle", "del"}, phase' = "append",
         pend' \in Staged, \A k \in Keys : k # pend'.rec.key => mem'[k] = mem[k],
         \A s \in Slot :
           /\ pend'.why = {}
           /\ Same(mem[pend'.rec.key], s) \/ pend'.rec.cmd \in {"SET", "DEL"}
           => mem'[pend'.rec.key] = Replayed(pend'.rec, s),
         UNCHANGED <<num, due, loadErr, gcKeep, now>>, UNCHANGED files, UNCHANGED history
  PROVE  DiskInvariant'
  <1>1. Running /\ Running' /\ why' = why /\ snaps' = snaps /\ logs' = logs
    BY DEF Running, history, files
  <1>2. \A n \in Gen : Recovered(n)' = Recovered(n) /\ (IsNewest(n)' <=> IsNewest(n))
    BY SameFiles
  <1>3. NumberInv'
    <2>1. IsNewest(num - 1)' \/ IsNewest(num)'
      BY <1>1 DEF IsNewest, DiskInvariant, NumberInv
    <2> QED BY <1>1, <2>1 DEF IsNewest, DiskInvariant, NumberInv, Running
  <1>4. TornInv'
    BY <1>1 DEF TornInv, DiskInvariant
  <1>5. \A n \in Gen, k \in Keys : IsNewest(n) /\ why[k] = {} => Same(mem[k], Recovered(n)[k])
    BY QuietSame DEF DiskInvariant, TypeInv
  <1>6. \A n \in Gen : Recovered(n) \in Image
    BY RecoveredType DEF TypeInv
  <1>7. pend'.rec.key \in Keys /\ pend' # Nil
    BY NilNoData DEF Staged, Record
  <1>8. ASSUME NEW n \in Gen, IsNewest(n)
        PROVE  /\ \A k \in Keys : why[k] = {} /\ k # pend'.rec.key => Same(mem'[k], Recovered(n)[k])
               /\ pend'.why = {} /\ (why[pend'.rec.key] = {} \/ pend'.rec.cmd \in {"SET", "DEL"})
                    => mem'[pend'.rec.key] = Replayed(pend'.rec, Recovered(n)[pend'.rec.key])
    <2>1. Recovered(n)[pend'.rec.key] \in Slot
      BY <1>6, <1>7 DEF Image
    <2> QED BY <1>5, <1>7, <1>8, <2>1
  <1>9. DiskInv'
    BY <1>1, <1>2, <1>7, <1>8 DEF DiskInv, IsPending, Same, Running
  <1>10. LoadInv'
    BY DEF LoadInv
  <1> QED BY <1>3, <1>4, <1>9, <1>10 DEF DiskInvariant

(* Set, SetVector and SetField: a SET record says all about its key.         *)
LEMMA SettingDisk ==
  ASSUME TypeInv, TypeInv', DiskInvariant, NEW k \in Keys, NEW v \in Values, NEW f \in SetFlag,
         NEW x \in Expiry, Set(k, v, f, x) \/ SetVector(k, v, f, x) \/ SetField(k, v, f, x)
  PROVE  DiskInvariant'
  <1>1. /\ phase = "idle" /\ phase' = "append"
        /\ UNCHANGED <<num, due, loadErr, gcKeep, now>> /\ UNCHANGED files /\ UNCHANGED history
    BY DEF Set, SetVector, SetField, Mutating, Stage
  <1>2. pend'.rec = SetRecord(k, v, x)
    BY DEF Set, SetVector, SetField, Stage
  <1>3. pend' # Nil /\ pend' \in Staged
    BY <1>1 DEF TypeInv, TypeOK
  <1>4. mem \in Image
    BY DEF TypeInv, TypeOK
  <1>5. \A j \in Keys : j # k => mem'[j] = mem[j]
    BY <1>4 DEF Set, SetVector, SetField, Image
  <1>6. pend'.why = {} => mem'[k] = [val |-> v, exp |-> x]
    <2>1. CASE Set(k, v, f, x) \/ SetVector(k, v, f, x)
      BY <1>4, <2>1 DEF Set, SetVector, Image
    <2>2. CASE SetField(k, v, f, x)
      BY <1>4, <2>2 DEF SetField, Stage, Image
    <2> QED BY <2>1, <2>2
  <1>7. \A s : Replayed(SetRecord(k, v, x), s) = [val |-> v, exp |-> x]
    BY DEF Replayed, SetRecord
  <1>8. SetRecord(k, v, x).key = k
    BY DEF SetRecord
  <1> QED BY <1>1, <1>2, <1>3, <1>5, <1>6, <1>7, <1>8, StagedDisk

LEMMA PutVectorDisk ==
  ASSUME TypeInv, TypeInv', DiskInvariant, NEW k \in Keys, NEW v \in Values, PutVector(k, v)
  PROVE  DiskInvariant'
  <1>1. /\ phase = "idle" /\ phase' = "append" /\ pend'.rec = SetRecord(k, v, Nil)
        /\ UNCHANGED <<num, due, loadErr, gcKeep, now>> /\ UNCHANGED files /\ UNCHANGED history
    BY DEF PutVector, Mutating, Stage
  <1>2. pend' # Nil /\ pend' \in Staged /\ mem \in Image
    BY <1>1 DEF TypeInv, TypeOK
  <1>3. \A j \in Keys : j # k => mem'[j] = mem[j]
    BY <1>2 DEF PutVector, Image
  <1>4. pend'.why = {} => mem'[k] = [val |-> v, exp |-> Nil]
    BY <1>2 DEF PutVector, Stage, Image
  <1>5. SetRecord(k, v, Nil).key = k
        /\ \A s : Replayed(SetRecord(k, v, Nil), s) = [val |-> v, exp |-> Nil]
    BY DEF Replayed, SetRecord
  <1> QED BY <1>1, <1>2, <1>3, <1>4, <1>5, StagedDisk

LEMMA RewritingDisk ==
  ASSUME TypeInv, TypeInv', DiskInvariant, NEW k \in Keys, NEW v \in Values,
         Incr(k, v) \/ IncrField(k, v) \/ DelField(k, v) \/ AttachVector(k, v)
  PROVE  DiskInvariant'
  <1>1. /\ phase = "idle" /\ phase' = "append"
        /\ UNCHANGED <<num, due, loadErr, gcKeep, now>> /\ UNCHANGED files /\ UNCHANGED history
    BY DEF Incr, IncrField, DelField, AttachVector, Rewrite, Mutating, Stage
  <1>2. pend'.rec = SetRecord(k, v, mem[k].exp)
    BY DEF Incr, IncrField, DelField, AttachVector, Rewrite, Stage
  <1>3. pend' # Nil /\ pend' \in Staged
    BY <1>1 DEF TypeInv, TypeOK
  <1>4. mem \in Image /\ mem[k] # Nil
    BY DEF TypeInv, TypeOK, Incr, IncrField, DelField, AttachVector
  <1>5. mem[k] = [val |-> mem[k].val, exp |-> mem[k].exp]
    BY <1>4, EntryUpdate
  <1>6. (\A j \in Keys : j # k => mem'[j] = mem[j]) /\ mem'[k] = [val |-> v, exp |-> mem[k].exp]
    <2>1. CASE Incr(k, v) \/ IncrField(k, v) \/ DelField(k, v)
      <3>1. mem' = [mem EXCEPT ![k].val = v]
        BY <2>1 DEF Incr, IncrField, DelField, Rewrite
      <3>2. [mem[k] EXCEPT !.val = v] = [val |-> v, exp |-> mem[k].exp]
        BY <1>5
      <3> QED BY <1>4, <3>1, <3>2 DEF Image
    <2>2. CASE AttachVector(k, v)
      BY <1>5, <2>2 DEF AttachVector
    <2> QED BY <2>1, <2>2
  <1>7. \A s : Replayed(SetRecord(k, v, mem[k].exp), s) = [val |-> v, exp |-> mem[k].exp]
    BY DEF Replayed, SetRecord
  <1>8. SetRecord(k, v, mem[k].exp).key = k
    BY DEF SetRecord
  <1> QED BY <1>1, <1>2, <1>3, <1>6, <1>7, <1>8, StagedDisk

(* Expire, ExpireAt and Persist restamp the same entry on both sides, as     *)
(* long as it is alive.                                                      *)
LEMMA RetimeDisk ==
  ASSUME TypeInv, TypeInv', DiskInvariant, NEW k \in Keys, NEW r \in Record, Retime(k, r),
         r.key = k, r.cmd \in {"EXPIRE", "EXPIREAT", "PERSIST"}, phase = "idle",
         UNCHANGED <<num, due, loadErr, gcKeep, now>>, UNCHANGED files, UNCHANGED history
  PROVE  DiskInvariant'
  <1>1. phase' = "append" /\ pend'.rec = r
    BY DEF Retime, Stage
  <1>2. pend' # Nil /\ pend' \in Staged
    BY <1>1 DEF TypeInv, TypeOK
  <1>3. mem \in Image /\ mem[k] # Nil
    BY DEF TypeInv, TypeOK, Retime
  <1>4. /\ \A j \in Keys : j # k => mem'[j] = mem[j]
        /\ mem'[k] = [mem[k] EXCEPT !.exp = r.exp]
    BY <1>3 DEF Retime, Image
  <1>5. pend'.why = {} => ~Expired(mem[k], now)
    BY DEF Retime, Stage
  <1>6. ASSUME NEW s \in Slot, pend'.why = {}, Same(mem[k], s)
        PROVE  mem'[k] = Replayed(r, s)
    <2>1. s = mem[k]
      BY <1>3, <1>5, <1>6 DEF Same, LiveAt
    <2>2. Replayed(r, s) = Restamped(s, r.exp)
      <3>1. r.cmd = "PERSIST" => r.exp = Nil
        BY DEF Record
      <3> QED BY <3>1 DEF Replayed
    <2> QED BY <1>3, <1>4, <2>1, <2>2 DEF Restamped
  <1> QED BY <1>1, <1>2, <1>4, <1>6, StagedDisk

LEMMA RetimingDisk ==
  ASSUME TypeInv, TypeInv', DiskInvariant, NEW k \in Keys, NEW x \in Stamp,
         Expire(k, x) \/ ExpireAt(k, x)
  PROVE  DiskInvariant'
  <1>1. CASE Expire(k, x)
    <2>1. ExpireRecord("EXPIRE", k, now + x) \in Record
      BY <1>1, RecordTypes DEF Expire, Expiry
    <2> QED BY <1>1, <2>1, RetimeDisk DEF Expire, Mutating, ExpireRecord
  <1>2. CASE ExpireAt(k, x)
    <2>1. ExpireRecord("EXPIREAT", k, x) \in Record
      BY RecordTypes DEF Expiry
    <2> QED BY <1>2, <2>1, RetimeDisk DEF ExpireAt, Mutating, ExpireRecord
  <1> QED BY <1>1, <1>2

LEMMA PersistingDisk ==
  ASSUME TypeInv, TypeInv', DiskInvariant, NEW k \in Keys, Persist(k)
  PROVE  DiskInvariant'
  BY RecordTypes, RetimeDisk DEF Persist, Mutating, PersistRecord

LEMMA DelKeyDisk ==
  ASSUME TypeInv, TypeInv', DiskInvariant, NEW k \in Keys, DelKey(k)
  PROVE  DiskInvariant'
  <1>1. /\ phase = "del" /\ phase' = "append" /\ pend'.rec = DelRecord(k)
        /\ UNCHANGED <<num, due, loadErr, gcKeep, now>> /\ UNCHANGED files /\ UNCHANGED history
    BY DEF DelKey, Stage
  <1>2. pend' # Nil /\ pend' \in Staged
    BY <1>1 DEF TypeInv, TypeOK
  <1>3. mem' = [mem EXCEPT ![k] = Nil] /\ mem \in Image
    BY DEF DelKey, TypeInv, TypeOK
  <1>4. mem'[k] = Nil /\ \A j \in Keys : j # k => mem'[j] = mem[j]
    BY <1>3 DEF Image
  <1>5. DelRecord(k).key = k /\ \A s : Replayed(DelRecord(k), s) = Nil
    BY DEF DelRecord, Replayed
  <1> QED BY <1>1, <1>2, <1>4, <1>5, StagedDisk

(* What the readers and the cleaner remove is expired, or noted.             *)
LEMMA ReadingDisk ==
  ASSUME TypeInv, DiskInvariant, Running, Running',
         phase' = phase \/ (phase = "idle" /\ phase' \in {"del", "snap", "closed"}),
         UNCHANGED <<num, due, loadErr, gcKeep, now, pend, fork, served>>, UNCHANGED files,
         \A k \in Keys : /\ why'[k] = {} => why[k] = {} /\ Same(mem'[k], mem[k])
                         /\ IsPending(k) => why'[k] = why[k] /\ mem'[k] = mem[k],
         phase = "renamed" => mem' = mem
  PROVE  DiskInvariant'
  <1>1. snaps' = snaps /\ logs' = logs
    BY DEF files
  <1>2. \A n \in Gen : Recovered(n)' = Recovered(n) /\ (IsNewest(n)' <=> IsNewest(n))
    BY SameFiles
  <1>3. NumberInv'
    BY <1>1 DEF IsNewest, DiskInvariant, NumberInv, Running
  <1>4. TornInv'
    BY <1>1 DEF TornInv, DiskInvariant
  <1>5. pend # Nil => pend.rec.key \in Keys
    BY PendTypes DEF TypeInv
  <1>6. DiskInv'
    <2> SUFFICES ASSUME NEW n \in Gen, IsNewest(n)
                 PROVE  /\ \A k \in Keys : why'[k] = {} /\ (IsPending(k) => phase' = "renamed")
                              => Same(mem'[k], Recovered(n)[k])
                        /\ phase' = "append" =>
                             (pend.why = {} /\ (why'[pend.rec.key] = {} \/ pend.rec.cmd \in {"SET", "DEL"})
                                => mem'[pend.rec.key] = Replayed(pend.rec, Recovered(n)[pend.rec.key]))
                        /\ phase' = "renamed" => \A k \in Keys : Same(mem'[k], Recovered(n)[k])
      BY <1>2 DEF DiskInv, Same, IsPending
    <2>1. ASSUME NEW k \in Keys, why'[k] = {}, IsPending(k) => phase' = "renamed"
          PROVE  Same(mem'[k], Recovered(n)[k])
      <3>1. Same(mem[k], Recovered(n)[k])
        BY <2>1 DEF DiskInvariant, DiskInv
      <3> QED BY <2>1, <3>1 DEF Same
    <2>2. CASE phase' = "append"
      <3>1. phase = "append" /\ pend # Nil
        BY <2>2 DEF TypeInv, TypeOK
      <3>2. pend.rec.key \in Keys /\ IsPending(pend.rec.key)
        BY <1>5, <3>1 DEF IsPending
      <3>3. why'[pend.rec.key] = why[pend.rec.key] /\ mem'[pend.rec.key] = mem[pend.rec.key]
        BY <3>2
      <3>4. pend.why = {} /\ (why[pend.rec.key] = {} \/ pend.rec.cmd \in {"SET", "DEL"})
              => mem[pend.rec.key] = Replayed(pend.rec, Recovered(n)[pend.rec.key])
        BY <3>1 DEF DiskInvariant, DiskInv
      <3>5. phase' # "renamed"
        BY <2>2
      <3> QED BY <2>1, <3>3, <3>4, <3>5
    <2>3. CASE phase' = "renamed"
      BY <2>3 DEF DiskInvariant, DiskInv
    <2> QED BY <2>1, <2>2, <2>3
  <1>7. LoadInv'
    BY DEF LoadInv, Running
  <1> QED BY <1>3, <1>4, <1>6, <1>7 DEF DiskInvariant

LEMMA ReadersDisk ==
  ASSUME TypeInv, TypeInv', DiskInvariant,
         \/ \E k \in Keys, v \in Values : DropVector(k, v)
         \/ \E ks \in SUBSET Keys : Del(ks)
         \/ \E k \in Keys : GetRead(k)
         \/ \E k \in Keys, x \in Stamp : GetReturn(k, x) \/ GetRemove(k, x)
         \/ \E t \in 0 .. MaxTime : CleanExpired(t)
         \/ Close, Running
  PROVE  DiskInvariant'
  <1>1. /\ phase' = phase \/ (phase = "idle" /\ phase' \in {"del", "snap", "closed"})
        /\ UNCHANGED <<num, due, loadErr, gcKeep, now, pend, fork, served>> /\ UNCHANGED files
    BY DEF DropVector, Del, GetRead, GetReturn, GetRemove, CleanExpired, Close, history
  <1>2. phase = "idle" => pend = Nil
    BY DEF DiskInvariant, NumberInv
  <1>3. Running'
    BY <1>1 DEF Running
  <1>4. CASE UNCHANGED <<mem, why>>
    BY <1>1, <1>3, <1>4, ReadingDisk DEF Same
  <1>5. ASSUME NEW k \in Keys, NEW x \in Stamp, GetRemove(k, x) PROVE DiskInvariant'
    <2>1. phase = "idle" /\ mem \in Image /\ why \in [Keys -> SUBSET Reason]
      BY <1>5 DEF GetRemove, TypeInv, TypeOK
    <2>2. \A j \in Keys : why'[j] = {} => why[j] = {} /\ Same(mem'[j], mem[j])
      BY <1>5, <2>1 DEF GetRemove, Same, LiveAt, Image, Expired
    <2> QED BY <1>1, <1>2, <1>3, <2>1, <2>2, ReadingDisk DEF IsPending
  <1>6. ASSUME NEW t \in 0 .. MaxTime, CleanExpired(t) PROVE DiskInvariant'
    <2>1. phase = "idle" /\ t <= now /\ mem \in Image /\ now \in 0 .. MaxTime
      BY <1>6 DEF CleanExpired, TypeInv, TypeOK
    <2>2. \A j \in Keys : LiveAt(LiveAt(mem[j], t), now) = LiveAt(mem[j], now)
      BY <2>1, SameLater DEF Image
    <2>3. \A j \in Keys : Same(mem'[j], mem[j])
      BY <1>6, <2>2 DEF CleanExpired, Same
    <2>4. why' = why
      BY <1>6 DEF CleanExpired, history
    <2> QED BY <1>1, <1>2, <1>3, <2>1, <2>3, <2>4, ReadingDisk DEF IsPending
  <1>7. CASE \/ \E k \in Keys, v \in Values : DropVector(k, v)
             \/ \E ks \in SUBSET Keys : Del(ks)
             \/ \E k \in Keys : GetRead(k)
             \/ \E k \in Keys, x \in Stamp : GetReturn(k, x)
             \/ Close
    BY <1>4, <1>7 DEF DropVector, Del, GetRead, GetReturn, Close, history
  <1> QED BY <1>5, <1>6, <1>7
---------------------------------------------------------------------------
(* The end of an operation: the log changes and the caller is answered.      *)

LEMMA ReachedOutcome ==
  ASSUME Reached(pend.rec)
  PROVE  logs' = logs \/ \E l \in Outcome(LogOf(num), pend.rec) : logs' = [logs EXCEPT ![num] = l]
  BY DEF Reached, Outcome

LEMMA AppendingDisk ==
  ASSUME TypeInv, DiskInvariant, phase = "append",
         logs' = logs \/ \E l \in Outcome(LogOf(num), pend.rec) : logs' = [logs EXCEPT ![num] = l],
         UNCHANGED <<mem, num, loadErr, gcKeep, snaps, now>>,
         \/ phase' = "snap" /\ pend' = pend /\ due'
         \/ phase' \in {"idle", "del"} /\ pend' = Nil /\ (IsNewest(num) => due'),
         \A k \in Keys : k # pend.rec.key /\ why'[k] = {} => WhyNow(k) = {},
         \A n \in Gen : phase' # "snap" /\ IsNewest(n) /\ why'[pend.rec.key] = {}
                          => Same(mem[pend.rec.key], Recovered(n)'[pend.rec.key])
  PROVE  DiskInvariant'
  <1>1. pend # Nil /\ Running /\ Running'
    BY DEF TypeInv, TypeOK, Running
  <1>2. /\ TornInv' /\ \A m \in Gen : m # num => logs'[m] = logs[m]
        /\ \A n \in Gen : IsNewest(n)' <=> IsNewest(n)
        /\ \A n \in Gen, k \in Keys :
             IsNewest(n) /\ k \notin Merged /\ k # pend.rec.key => Recovered(n)'[k] = Recovered(n)[k]
    BY <1>1, AppendKeeps DEF DiskInvariant
  <1>3. num \in Gen /\ num - 1 \in Gen
    BY <1>1, Newest DEF DiskInvariant
  <1>4. NumberInv'
    <2>1. \A m \in Gen : m > num => logs'[m] = Nil
      BY <1>1, <1>2, <1>3, GenBounds DEF DiskInvariant, NumberInv
    <2>2. IsNewest(num - 1)' \/ IsNewest(num)'
      BY <1>1 DEF DiskInvariant, NumberInv, IsNewest
    <2>3. IsNewest(num)' => IsNewest(num)
      BY DEF IsNewest
    <2> QED BY <1>1, <2>1, <2>2, <2>3 DEF DiskInvariant, NumberInv, Running
  <1>5. ASSUME NEW n \in Gen, IsNewest(n), NEW k \in Keys, why'[k] = {}, phase' = "snap" => k # pend.rec.key
        PROVE  Same(mem[k], Recovered(n)'[k])
    <2>1. CASE k = pend.rec.key
      BY <1>5, <2>1
    <2>2. CASE k # pend.rec.key
      <3>1. why[k] = {} /\ k \notin Merged
        BY <1>5, <2>2 DEF WhyNow
      <3>2. Same(mem[k], Recovered(n)[k])
        BY <1>1, <1>5, <2>2, <3>1 DEF DiskInvariant, DiskInv, IsPending
      <3> QED BY <1>2, <1>5, <2>2, <3>1, <3>2
    <2> QED BY <2>1, <2>2
  <1>6. DiskInv'
    <2>1. phase' \notin {"append", "renamed"}
      OBVIOUS
    <2>2. \A k \in Keys : phase' = "snap" => (IsPending(k)' <=> k = pend.rec.key)
      BY <1>1, NilNoData DEF IsPending
    <2> QED BY <1>1, <1>2, <1>5, <2>1, <2>2 DEF DiskInv, Same
  <1>7. LoadInv'
    BY DEF LoadInv
  <1> QED BY <1>2, <1>4, <1>6, <1>7 DEF DiskInvariant

LEMMA AppendRecordDisk ==
  ASSUME TypeInv, DiskInvariant, NEW over \in BOOLEAN, AppendRecord(over)
  PROVE  DiskInvariant'
  <1>1. /\ phase = "append" /\ logs' = [logs EXCEPT ![num] = Appended(LogOf(num), pend.rec)]
        /\ UNCHANGED <<mem, num, loadErr, gcKeep, snaps, now>> /\ due' = (due \/ over)
    BY DEF AppendRecord
  <1>2. Appended(LogOf(num), pend.rec) \in Outcome(LogOf(num), pend.rec)
    BY DEF Outcome
  <1>3. pend # Nil /\ pend.rec.key \in Keys /\ pend.rec \in Record /\ Running
    BY <1>1, PendTypes DEF TypeInv, TypeOK, Running
  <1>4. CASE due \/ over
    BY <1>1, <1>2, <1>4, AppendingDisk DEF AppendRecord
  <1>5. CASE ~(due \/ over)
    <2>1. Acknowledge
      BY <1>5 DEF AppendRecord
    <2>2. phase' \in {"idle", "del"} /\ pend' = Nil
      BY <2>1 DEF Acknowledge, Release
    <2>3. ~IsNewest(num)
      BY <1>1, <1>3, <1>5 DEF DiskInvariant, NumberInv
    <2>4. \A k \in Keys : k # pend.rec.key => why'[k] = WhyNow(k)
      BY <2>1 DEF Acknowledge
    <2>5. why'[pend.rec.key] = {} =>
            /\ pend.rec.key \notin Merged /\ pend.why = {}
            /\ why[pend.rec.key] = {} \/ pend.rec.cmd \in {"SET", "DEL"}
      BY <1>3, <2>1 DEF Acknowledge, WhyNow
    <2>6. ASSUME NEW n \in Gen, IsNewest(n), why'[pend.rec.key] = {}
          PROVE  Same(mem[pend.rec.key], Recovered(n)'[pend.rec.key])
      <3>1. n = num - 1
        BY <1>3, <2>3, <2>6, Newest DEF DiskInvariant
      <3>2. mem[pend.rec.key] = Replayed(pend.rec, Recovered(n)[pend.rec.key])
        BY <1>1, <2>5, <2>6 DEF DiskInvariant, DiskInv
      <3>3. Recovered(n)'[pend.rec.key] = Replayed(pend.rec, Recovered(n)[pend.rec.key])
        BY <1>1, <1>3, <2>5, <2>6, <3>1, AppendReplays DEF DiskInvariant
      <3> QED BY <3>2, <3>3 DEF Same
    <2> QED BY <1>1, <1>2, <2>2, <2>3, <2>4, <2>6, AppendingDisk
  <1> QED BY <1>4, <1>5

LEMMA RefuseGivesReason ==
  ASSUME TypeInv, pend # Nil, Refuse
  PROVE  /\ phase' \in {"idle", "del"} /\ pend' = Nil /\ why'[pend.rec.key] # {}
         /\ \A k \in Keys : k # pend.rec.key => why'[k] = WhyNow(k)
  <1>1. pend.rec.key \in Keys
    BY PendTypes DEF TypeInv
  <1> QED BY <1>1 DEF Refuse, Release

LEMMA AppendFailsDisk ==
  ASSUME TypeInv, DiskInvariant, AppendFails
  PROVE  DiskInvariant'
  <1>1. /\ phase = "append" /\ pend # Nil /\ Refuse /\ Reached(pend.rec)
        /\ UNCHANGED <<mem, num, due, loadErr, gcKeep, snaps, now>>
    BY DEF AppendFails, TypeInv, TypeOK
  <1>2. IsNewest(num) => due'
    BY <1>1 DEF DiskInvariant, NumberInv, Running
  <1> QED BY <1>1, <1>2, ReachedOutcome, RefuseGivesReason, AppendingDisk
---------------------------------------------------------------------------
(* Compaction. *)

(* The snapshot takes the number of the log in use and is all a restart      *)
(* would read; it agrees with memory.                                        *)
LEMMA SnapshotTaken ==
  ASSUME TypeInv, NumberInv, WriteSnapshot
  PROVE  /\ num \in Gen /\ num > 0 /\ num < MaxGen /\ num - 1 \in Gen /\ (num - 1) + 1 = num
         /\ snaps'[num] # Nil /\ \A m \in Gen : m # num => snaps'[m] = snaps[m]
         /\ \A n \in Gen : IsNewest(n)' <=> n = num
         /\ num + 1 \in Gen /\ logs[num + 1] = Nil
         /\ \A n \in Gen : n = num => Recovered(n)' = Serialized
         /\ \A k \in Keys : Same(mem[k], Serialized[k])
  <1>1. /\ phase = "snap" /\ snaps' = [snaps EXCEPT ![num] = Serialized] /\ logs' = logs /\ Running
    BY DEF WriteSnapshot, PutSnapshot, Running
  <1>2. /\ num \in Gen /\ num > 0 /\ num < MaxGen /\ num - 1 \in Gen /\ (num - 1) + 1 = num
        /\ snaps \in [Gen -> Image \cup {Nil}] /\ mem \in Image /\ now \in 0 .. MaxTime
    BY <1>1, Newest DEF TypeInv, TypeOK
  <1>3. Serialized \in Image /\ Serialized # Nil
    <2>1. Serialized \in Image
      BY <1>2, LiveAtType DEF Serialized, Image
    <2> QED BY <2>1, NilNoData
  <1>4. snaps'[num] = Serialized /\ \A m \in Gen : m # num => snaps'[m] = snaps[m]
    BY <1>1, <1>2
  <1>5. \A m \in Gen : m > num => snaps[m] = Nil
    <2>1. IsNewest(num - 1) \/ IsNewest(num)
      BY <1>1 DEF NumberInv
    <2> QED BY <1>2, <2>1, GenBounds DEF IsNewest
  <1>6. \A n \in Gen : IsNewest(n)' <=> n = num
    BY <1>2, <1>3, <1>4, <1>5, GenBounds DEF IsNewest
  <1>7. num + 1 \in Gen /\ logs[num + 1] = Nil
    BY <1>1, <1>2, GenBounds DEF NumberInv
  <1>8. ASSUME NEW n \in Gen, n = num PROVE Recovered(n)' = Serialized
    BY <1>1, <1>3, <1>4, <1>7, <1>8 DEF Recovered, Replayed1, Base
  <1>9. \A k \in Keys : Same(mem[k], Serialized[k])
    <2>1. \A k \in Keys : LiveAt(LiveAt(mem[k], now), now) = LiveAt(mem[k], now)
      BY DEF LiveAt, Expired
    <2> QED BY <2>1 DEF Serialized, Same
  <1> QED BY <1>2, <1>3, <1>4, <1>6, <1>7, <1>8, <1>9

LEMMA SnapshotDisk ==
  ASSUME TypeInv, DiskInvariant, WriteSnapshot
  PROVE  DiskInvariant'
  <1>1. /\ phase = "snap" /\ phase' = "renamed" /\ Running /\ Running'
        /\ UNCHANGED <<mem, num, due, loadErr, gcKeep, logs, now>>
        /\ pend' # Nil => pend # Nil
    BY DEF WriteSnapshot, PutSnapshot, Running
  <1>2. /\ num \in Gen /\ num > 0 /\ num < MaxGen
        /\ snaps'[num] # Nil /\ \A m \in Gen : m # num => snaps'[m] = snaps[m]
        /\ \A n \in Gen : IsNewest(n)' <=> n = num
        /\ \A n \in Gen : n = num => Recovered(n)' = Serialized
        /\ \A k \in Keys : Same(mem[k], Serialized[k])
    BY SnapshotTaken DEF DiskInvariant
  <1>3. NumberInv'
    <2>1. snaps'[0] = Nil
      BY <1>1, <1>2, GenBounds DEF DiskInvariant, NumberInv
    <2>2. IsNewest(num)'
      BY <1>1, <1>2 DEF IsNewest
    <2> QED BY <1>1, <2>1, <2>2 DEF DiskInvariant, NumberInv, Running
  <1>4. TornInv'
    BY <1>1 DEF DiskInvariant, TornInv
  <1>5. DiskInv'
    BY <1>1, <1>2 DEF DiskInv, Same, IsPending
  <1>6. LoadInv'
    BY <1>1 DEF LoadInv
  <1> QED BY <1>3, <1>4, <1>5, <1>6 DEF DiskInvariant

LEMMA NextLogDisk ==
  ASSUME TypeInv, TypeInv', DiskInvariant, OpenNextLog
  PROVE  DiskInvariant'
  <1>1. /\ phase = "renamed" /\ logs' = [logs EXCEPT ![num + 1] = LogOf(num + 1)]
        /\ num' = num + 1 /\ gcKeep' = num /\ Running
        /\ UNCHANGED <<mem, loadErr, snaps, now>>
    BY DEF OpenNextLog, Running
  <1>2. IsNewest(num)
    BY <1>1 DEF DiskInvariant, NumberInv
  <1>3. /\ num \in Gen /\ num > 0 /\ num < MaxGen /\ snaps[num] # Nil
        /\ snaps \in [Gen -> Image \cup {Nil}] /\ logs \in [Gen -> LogFile \cup {Nil}]
        /\ \A n \in Gen : IsNewest(n) => n = num
    BY <1>1, <1>2, Newest DEF DiskInvariant, TypeInv, TypeOK
  <1>4. Recovered(num) = snaps[num] /\ logs[num + 1] = Nil /\ num + 1 \in Gen
    BY <1>1, <1>2, RecoveredSuperseded DEF DiskInvariant
  <1>5. logs'[num + 1] = EmptyLog /\ \A m \in Gen : m # num + 1 => logs'[m] = logs[m]
    BY <1>1, <1>3, <1>4 DEF LogOf
  <1>6. phase' \in {"idle", "del", "closed"} /\ pend' = Nil
    BY DEF OpenNextLog, Acknowledge, Release
  <1>7. \A n \in Gen : IsNewest(n)' <=> IsNewest(n)
    BY <1>1 DEF IsNewest
  <1>8. NumberInv'
    <2>1. \A m \in Gen : m > num + 1 => logs'[m] = Nil
      BY <1>1, <1>3, <1>5, GenBounds DEF DiskInvariant, NumberInv
    <2>2. IsNewest(num - 1)' /\ num' > 0 /\ gcKeep' < num'
      BY <1>1, <1>2, <1>3, GenBounds DEF IsNewest
    <2>3. ~IsNewest(num)'
      BY <1>1, <1>2, <1>3, <1>4, GenBounds DEF IsNewest
    <2> QED BY <1>1, <1>6, <2>1, <2>2, <2>3 DEF DiskInvariant, NumberInv, Running
  <1>9. TornInv'
    BY <1>4, <1>5 DEF DiskInvariant, TornInv, EmptyLog
  <1>10. ASSUME NEW n \in Gen, n = num PROVE Recovered(n)' = Recovered(n)
    <2>1. snaps[n] \in Image /\ EmptyLog # Nil
      BY <1>3, <1>10, EmptyLogType, NilNoData
    <2>2. Recovered(n)' = ReplayInto(snaps[n], EmptyLog)
      BY <1>1, <1>3, <1>4, <1>5, <1>10, <2>1 DEF Recovered, Replayed1, Base
    <2> QED BY <1>4, <1>10, <2>1, <2>2, EmptyLogReplay
  <1>11. \A n \in Gen, k \in Keys : n = num => Same(mem[k], Recovered(n)[k])
    BY <1>1, <1>2 DEF DiskInvariant, DiskInv
  <1>12. DiskInv'
    BY <1>1, <1>3, <1>6, <1>7, <1>10, <1>11 DEF DiskInv, Same, IsPending, Running
  <1>13. LoadInv'
    BY <1>6 DEF LoadInv
  <1> QED BY <1>8, <1>9, <1>12, <1>13 DEF DiskInvariant

LEMMA CompactFailsDisk ==
  ASSUME TypeInv, DiskInvariant, CompactFails
  PROVE  DiskInvariant'
  <1>1. /\ phase \in {"snap", "renamed"} /\ Running
        /\ UNCHANGED <<mem, num, due, loadErr, gcKeep, snaps, logs, now>> /\ UNCHANGED files
    BY DEF CompactFails, GiveUp, files, Running
  <1>2. /\ phase' \in {"idle", "del", "closed"} /\ pend' = Nil
        /\ pend = Nil => phase' = "closed" /\ why' = why
        /\ pend # Nil => phase' \in {"idle", "del"} /\ Refuse
    BY DEF CompactFails, GiveUp, Refuse, Release
  <1>3. \A n \in Gen : Recovered(n)' = Recovered(n) /\ (IsNewest(n)' <=> IsNewest(n))
    BY <1>1, SameFiles
  <1>4. \A k \in Keys : WhyNow(k) = why[k]
    BY <1>1 DEF WhyNow, Merged
  <1>5. \A k \in Keys : why'[k] = {} => why[k] = {} /\ ~IsPending(k)
    BY <1>2, <1>4, RefuseGivesReason DEF IsPending
  <1>6. NumberInv'
    <2>1. phase' # "closed" => due
      BY <1>1, <1>2 DEF DiskInvariant, NumberInv
    <2>2. IsNewest(num - 1)' \/ IsNewest(num)'
      BY <1>1 DEF DiskInvariant, NumberInv, IsNewest
    <2> QED BY <1>1, <1>2, <2>1, <2>2 DEF DiskInvariant, NumberInv, Running
  <1>7. TornInv'
    BY <1>1 DEF DiskInvariant, TornInv
  <1>8. \A n \in Gen, k \in Keys : IsNewest(n) /\ why'[k] = {} => Same(mem[k], Recovered(n)[k])
    BY <1>1, <1>5 DEF DiskInvariant, DiskInv
  <1>9. DiskInv'
    BY <1>1, <1>2, <1>3, <1>8 DEF DiskInv, Same, IsPending, Running
  <1>10. LoadInv'
    BY <1>2 DEF LoadInv
  <1> QED BY <1>6, <1>7, <1>9, <1>10 DEF DiskInvariant
---------------------------------------------------------------------------
(* The collector only takes files below the newest generation.               *)

LEMMA CollectorBelow ==
  ASSUME TypeInv, DiskInvariant, NEW g \in Gen, GcSnapshot(g) \/ GcLog(g)
  PROVE  /\ UNCHANGED store /\ UNCHANGED now /\ UNCHANGED history
         /\ Running /\ num \in Gen /\ num - 1 \in Gen /\ num > 0 /\ g < num - 1
         /\ GcSnapshot(g) => g + 1 < num - 1
         /\ \A n \in Gen : IsNewest(n) => n = num - 1 \/ n = num
         /\ \A n \in Gen : n # g => snaps'[n] = snaps[n] /\ logs'[n] = logs[n]
         /\ snaps'[g] \in {snaps[g], Nil} /\ logs'[g] \in {logs[g], Nil}
         /\ GcLog(g) => snaps'[g] = snaps[g]
         /\ \A n \in Gen : IsNewest(n)' <=> IsNewest(n)
  <1>1. UNCHANGED store /\ UNCHANGED now /\ UNCHANGED history /\ phase # "down"
    BY DEF GcSnapshot, GcLog
  <1>2. gcKeep \in Nat /\ g + 1 <= gcKeep /\ gcKeep # 0
    BY GenBounds DEF GcSnapshot, GcLog, TypeInv, TypeOK
  <1>3. Running /\ gcKeep < num
    BY <1>2 DEF DiskInvariant, NumberInv
  <1>4. /\ num \in Gen /\ num - 1 \in Gen /\ num > 0 /\ g < num - 1
        /\ \A n \in Gen : IsNewest(n) => n = num - 1 \/ n = num
        /\ snaps \in [Gen -> Image \cup {Nil}] /\ logs \in [Gen -> LogFile \cup {Nil}]
    BY <1>2, <1>3, Newest, GenBounds DEF DiskInvariant, TypeInv, TypeOK
  <1>5. /\ \A n \in Gen : n # g => snaps'[n] = snaps[n] /\ logs'[n] = logs[n]
        /\ snaps'[g] \in {snaps[g], Nil} /\ logs'[g] \in {logs[g], Nil}
    BY <1>4 DEF GcSnapshot, GcLog
  <1>6. \A n \in Gen : IsNewest(n)' <=> IsNewest(n)
    <2>1. ASSUME NEW n \in Gen, IsNewest(n) PROVE IsNewest(n)'
      <3>1. n # g
        BY <1>4, <2>1, GenBounds
      <3>2. snaps'[n] = snaps[n] /\ (n = 0 \/ snaps[n] # Nil)
        BY <1>5, <2>1, <3>1 DEF IsNewest
      <3>3. ASSUME NEW m \in Gen, m > n PROVE snaps'[m] = Nil
        <4>1. snaps[m] = Nil
          BY <2>1, <3>3 DEF IsNewest
        <4> QED BY <1>5, <4>1
      <3> QED BY <3>2, <3>3 DEF IsNewest
    <2>2. ASSUME NEW n \in Gen, IsNewest(n)' PROVE IsNewest(n)
      <3>1. PICK e \in {num - 1, num} : IsNewest(e)
        BY <1>3 DEF DiskInvariant, NumberInv
      <3>2. e \in Gen /\ e > 0 /\ snaps'[e] = snaps[e] /\ snaps[e] # Nil
        BY <1>4, <1>5, <3>1, GenBounds DEF IsNewest
      <3>3. n >= e /\ n # g
        BY <1>4, <2>2, <3>1, <3>2, GenBounds DEF IsNewest
      <3> QED BY <1>5, <2>2, <3>1, <3>2, <3>3, GenBounds DEF IsNewest
    <2> QED BY <2>1, <2>2
  <1>7. (GcSnapshot(g) => g + 1 < num - 1) /\ (GcLog(g) => snaps'[g] = snaps[g])
    BY <1>2, <1>3, <1>4, GenBounds DEF GcSnapshot, GcLog
  <1> QED BY <1>1, <1>3, <1>4, <1>5, <1>6, <1>7

LEMMA CollectorDisk ==
  ASSUME TypeInv, DiskInvariant, NEW g \in Gen, GcSnapshot(g) \/ GcLog(g)
  PROVE  DiskInvariant'
  <1>1. UNCHANGED store /\ UNCHANGED now /\ UNCHANGED history
    BY CollectorBelow
  <1>2. Running
    BY CollectorBelow
  <1>3. /\ num \in Gen /\ num - 1 \in Gen /\ num > 0 /\ g < num - 1
        /\ \A n \in Gen : IsNewest(n) => n = num - 1 \/ n = num
    BY CollectorBelow
  <1>4. /\ \A n \in Gen : n # g => snaps'[n] = snaps[n] /\ logs'[n] = logs[n]
        /\ snaps'[g] \in {snaps[g], Nil} /\ logs'[g] \in {logs[g], Nil}
    BY CollectorBelow
  <1>5. \A n \in Gen : IsNewest(n)' <=> IsNewest(n)
    BY CollectorBelow
  <1>6. \A n \in Gen : IsNewest(n) => Recovered(n)' = Recovered(n)
    BY <1>3, <1>4, GenBounds DEF Recovered, Replayed1, Base
  <1>7. NumberInv'
    <2>1. /\ snaps'[0] = Nil /\ \A m \in Gen : m > num => logs'[m] = Nil
      BY <1>2, <1>3, <1>4, GenBounds DEF DiskInvariant, NumberInv
    <2>2. \A n \in {num - 1, num} : n \in Gen /\ (IsNewest(n)' <=> IsNewest(n))
      BY <1>3, <1>5
    <2>3. num' = num /\ IsNewest(num)' <=> num' = num /\ IsNewest(num)
      BY <2>2
    <2>4. IsNewest(num - 1)' \/ IsNewest(num)'
      BY <1>1, <1>2, <2>2 DEF DiskInvariant, NumberInv, store
    <2>5. num' = num
      BY <1>1 DEF store
    <2> QED BY <1>1, <1>2, <2>1, <2>3, <2>4, <2>5 DEF DiskInvariant, NumberInv, Running, store
  <1>8. TornInv'
    BY <1>4 DEF DiskInvariant, TornInv
  <1>9. DiskInv'
    BY <1>1, <1>2, <1>5, <1>6 DEF DiskInvariant, DiskInv, Same, IsPending, Running, store, history
  <1>10. LoadInv'
    BY <1>1, <1>2 DEF LoadInv, Running, store
  <1> QED BY <1>7, <1>8, <1>9, <1>10 DEF DiskInvariant
---------------------------------------------------------------------------
(* Stopping and starting. *)

(* One log at most follows the newest snapshot while the store runs.         *)
LEMMA RunningOneLog ==
  ASSUME TypeInv, NumberInv, Running
  PROVE  OneLogAfterSnapshot
  <1>1. /\ num \in Gen /\ num > 0
        /\ \A n \in Gen : IsNewest(n) => n = num - 1 \/ n = num
    BY Newest
  <1> QED BY <1>1, GenBounds DEF NumberInv, OneLogAfterSnapshot

LEMMA CrashDisk ==
  ASSUME TypeInv, DiskInvariant, Crash
  PROVE  DiskInvariant'
  <1>1. /\ phase # "down" /\ phase' = "down" /\ pend' = Nil /\ gcKeep' = 0
        /\ UNCHANGED <<snaps, now>>
    BY DEF Crash
  <1>2. CASE phase = "load"
    <2>1. pend = Nil
      BY <1>2 DEF DiskInvariant, NumberInv, Running
    <2>2. logs' = logs /\ why' = why /\ served' = served /\ UNCHANGED files
      BY <1>2, <2>1 DEF Crash, files
    <2>3. \A n \in Gen : Recovered(n)' = Recovered(n) /\ (IsNewest(n)' <=> IsNewest(n))
      BY <2>2, SameFiles
    <2>4. NumberInv'
      BY <1>1, <1>2, <2>2, <2>3 DEF DiskInvariant, NumberInv, Running, OneLogAfterSnapshot
    <2>5. TornInv' /\ LoadInv'
      BY <1>1, <2>2 DEF DiskInvariant, TornInv, LoadInv
    <2>6. DiskInv'
      BY <1>1, <1>2, <2>2, <2>3 DEF DiskInvariant, DiskInv, Same, Running
    <2> QED BY <2>4, <2>5, <2>6 DEF DiskInvariant
  <1>3. CASE phase # "load"
    <2>1. Running /\ served' = mem
      BY <1>1, <1>3 DEF Running, Crash
    <2>2. OneLogAfterSnapshot /\ num \in Gen
      BY <2>1, RunningOneLog, Newest DEF DiskInvariant
    <2>3. /\ TornInv' /\ \A m \in Gen : m # num => logs'[m] = logs[m]
          /\ \A n \in Gen : IsNewest(n)' <=> IsNewest(n)
          /\ \A n \in Gen, k \in Keys :
               IsNewest(n) /\ why'[k] = {} =>
                 why[k] = {} /\ ~IsPending(k) /\ Recovered(n)'[k] = Recovered(n)[k]
      <3>1. CASE phase = "append"
        <4>1. pend # Nil /\ Reached(pend.rec)
          BY <3>1 DEF Crash, TypeInv, TypeOK
        <4>2. \A k \in Keys : why'[k] = {} => why[k] = {} /\ ~IsPending(k) /\ k \notin Merged
          BY <4>1 DEF Crash, WhyNow, IsPending
        <4> QED BY <1>1, <2>1, <4>1, <4>2, ReachedOutcome, AppendKeeps DEF DiskInvariant, IsPending
      <3>2. CASE phase # "append"
        <4>1. logs' = logs /\ UNCHANGED files
          BY <1>1, <3>2 DEF Crash, files
        <4>2. \A k \in Keys : why'[k] = {} => why[k] = {} /\ ~IsPending(k)
          BY DEF Crash, WhyNow, IsPending
        <4>3. TornInv'
          BY <4>1 DEF DiskInvariant, TornInv
        <4> QED BY <4>1, <4>2, <4>3, SameFiles
      <3> QED BY <3>1, <3>2
    <2>4. NumberInv'
      <3>1. ASSUME NEW n \in Gen, IsNewest(n), NEW m \in Gen, m > n + 1 PROVE logs'[m] = Nil
        <4>1. logs[m] = Nil
          BY <2>2, <3>1 DEF OneLogAfterSnapshot
        <4>2. m # num
          BY <2>1, <2>2, <3>1, Newest, GenBounds DEF DiskInvariant
        <4> QED BY <2>3, <4>1, <4>2
      <3> QED BY <1>1, <2>3, <3>1 DEF DiskInvariant, NumberInv, Running, OneLogAfterSnapshot
    <2>5. DiskInv'
      BY <1>1, <2>1, <2>3 DEF DiskInvariant, DiskInv, Same, Running
    <2>6. LoadInv'
      BY <1>1 DEF LoadInv
    <2> QED BY <2>3, <2>4, <2>5, <2>6 DEF DiskInvariant
  <1> QED BY <1>2, <1>3

(* What the cursor holds when the last log has been read.                    *)
LEMMA ReplayComplete ==
  ASSUME TypeInv, DiskInvariant, ReplayDone
  PROVE  /\ IsNewest(cur.gen) /\ cur.gen \in Gen /\ cur.gen + 1 \in Gen
         /\ mem' = Recovered(cur.gen) /\ num' = cur.gen + 1
         /\ phase = "load" /\ ~loadErr'
  <1>1. phase = "load" /\ cur.next > cur.gen /\ (cur.next \in Gen => logs[cur.next] = Nil)
        /\ mem' = cur.data /\ ~loadErr'
        /\ num' = (IF cur.next > cur.gen + 1 THEN cur.next - 1 ELSE cur.gen + 1)
    BY DEF ReplayDone, LastLog, Loaded
  <1>2. cur \in Cursor /\ cur.gen < MaxGen
    BY <1>1 DEF TypeInv, TypeOK
  <1>3. /\ cur.gen \in Gen /\ cur.gen + 1 \in Gen
        /\ cur.next = cur.gen + 1 \/ cur.next = cur.gen + 2
    BY <1>1, <1>2, GenBounds DEF Cursor, DiskInvariant, LoadInv
  <1>4. mem' = Recovered(cur.gen)
    <2>1. CASE cur.next = cur.gen + 1
      BY <1>1, <1>3, <2>1 DEF DiskInvariant, LoadInv, Recovered, Replayed1
    <2>2. CASE cur.next = cur.gen + 2
      BY <1>1, <2>2 DEF DiskInvariant, LoadInv
    <2> QED BY <1>3, <2>1, <2>2
  <1>5. num' = cur.gen + 1
    BY <1>1, <1>3, GenBounds
  <1> QED BY <1>1, <1>3, <1>4, <1>5 DEF DiskInvariant, LoadInv

LEMMA LoadDisk ==
  ASSUME TypeInv, DiskInvariant, "read" \notin Faults,
         \/ \E n \in Gen : StartLoad(n)
         \/ ReplaySnapshot \/ ReplayLog \/ ReplayDone \/ ReadFails
  PROVE  DiskInvariant'
  <1>1. /\ phase \in {"down", "load"} /\ ~Running
        /\ UNCHANGED <<pend, gcKeep, snaps, logs, now>> /\ UNCHANGED files
    BY DEF StartLoad, ReplaySnapshot, ReplayLog, ReplayDone, ReadFails, Loaded, Loading, Running, files
  <1>2. \A n \in Gen : /\ Recovered(n)' = Recovered(n) /\ Base(n)' = Base(n)
                       /\ IsNewest(n)' <=> IsNewest(n)
    BY <1>1, SameFiles
  <1>3. OneLogAfterSnapshot /\ gcKeep = 0 /\ pend = Nil /\ snaps[0] = Nil
    BY <1>1 DEF DiskInvariant, NumberInv
  <1>4. TornInv'
    BY <1>1 DEF DiskInvariant, TornInv
  <1>5. ASSUME phase' = "load", why' = why, served' = served PROVE NumberInv' /\ DiskInv'
    <2>1. NumberInv'
      BY <1>1, <1>2, <1>3, <1>5 DEF NumberInv, Running, OneLogAfterSnapshot
    <2>2. DiskInv'
      BY <1>1, <1>2, <1>5 DEF DiskInvariant, DiskInv, Same, Running
    <2> QED BY <2>1, <2>2
  <1>6. ASSUME NEW n \in Gen, StartLoad(n) PROVE DiskInvariant'
    <2>1. /\ phase' = "load" /\ why' = why /\ served' = served /\ IsNewest(n)
          /\ cur' = [gen |-> n, next |-> n, data |-> EmptyImage]
      BY <1>6 DEF StartLoad, LoadGeneration, Loading
    <2>2. LoadInv'
      BY <1>2, <2>1, GenBounds DEF LoadInv
    <2> QED BY <1>4, <1>5, <2>1, <2>2 DEF DiskInvariant
  <1>7. ASSUME ReplaySnapshot \/ ReplayLog PROVE DiskInvariant'
    <2>1. phase = "load" /\ phase' = "load" /\ why' = why /\ served' = served
      BY <1>7 DEF ReplaySnapshot, ReplayLog, Loading
    <2>2. cur \in Cursor /\ cur.gen \in Gen /\ cur.next \in Nat /\ cur.gen < MaxGen /\ IsNewest(cur.gen)
      BY <2>1, GenBounds DEF TypeInv, TypeOK, Cursor, DiskInvariant, LoadInv
    <2>3. LoadInv'
      <3>1. CASE ReplaySnapshot
        <4>1. cur'.gen = cur.gen /\ cur'.next = cur.gen + 1 /\ cur'.data = Base(cur.gen)
          BY <2>2, <3>1 DEF ReplaySnapshot, Cursor
        <4> QED BY <1>2, <2>2, <4>1, GenBounds DEF LoadInv
      <3>2. CASE ReplayLog
        <4>1. /\ cur'.gen = cur.gen /\ cur'.next = cur.next + 1
              /\ cur'.data = ReplayInto(cur.data, logs[cur.next])
              /\ cur.next > cur.gen /\ cur.next \in Gen /\ logs[cur.next] # Nil
          BY <2>2, <3>2 DEF ReplayLog, Cursor
        <4>2. cur.next = cur.gen + 1
          BY <1>3, <2>2, <4>1, GenBounds DEF OneLogAfterSnapshot
        <4>3. cur'.data = Recovered(cur.gen)
          BY <2>1, <2>2, <4>1, <4>2 DEF DiskInvariant, LoadInv, Recovered, Replayed1
        <4>4. cur'.next = cur.gen + 2
          BY <2>2, <4>1, <4>2, GenBounds
        <4> QED BY <1>1, <1>2, <2>2, <4>1, <4>2, <4>3, <4>4, GenBounds DEF LoadInv
      <3> QED BY <1>7, <3>1, <3>2
    <2> QED BY <1>4, <1>5, <2>1, <2>3 DEF DiskInvariant
  <1>8. ASSUME ReplayDone PROVE DiskInvariant'
    <2>1. /\ IsNewest(cur.gen) /\ cur.gen \in Gen /\ cur.gen + 1 \in Gen
          /\ mem' = Recovered(cur.gen) /\ num' = cur.gen + 1 /\ phase = "load" /\ ~loadErr'
      BY <1>8, ReplayComplete
    <2>2. phase' = "idle"
      BY <1>8 DEF ReplayDone, Loaded
    <2>3. \A m \in Gen : m > cur.gen + 1 => logs[m] = Nil
      BY <1>3, <2>1 DEF OneLogAfterSnapshot
    <2>4. NumberInv'
      <3>1. IsNewest(num - 1)' /\ num' > 0
        BY <1>1, <2>1, GenBounds DEF IsNewest
      <3>2. ~IsNewest(num)'
        BY <1>1, <2>1, GenBounds DEF IsNewest
      <3> QED BY <1>1, <1>3, <2>1, <2>2, <2>3, <3>1, <3>2, GenBounds DEF NumberInv, Running
    <2>5. \A n \in Gen : IsNewest(n) => n = cur.gen
      BY <2>1, GenBounds DEF IsNewest
    <2>6. DiskInv'
      BY <1>1, <1>2, <2>1, <2>2, <2>5 DEF DiskInv, Same, IsPending, Running
    <2>7. LoadInv'
      BY <2>2 DEF LoadInv
    <2> QED BY <1>4, <2>4, <2>6, <2>7 DEF DiskInvariant
  <1>9. ~ReadFails
    BY DEF ReadFails
  <1> QED BY <1>6, <1>7, <1>8, <1>9

(* Time passes: entries that agree go on agreeing.                           *)
LEMMA TickDisk ==
  ASSUME TypeInv, TypeInv', DiskInvariant, Tick
  PROVE  DiskInvariant'
  <1>1. /\ UNCHANGED store /\ UNCHANGED files /\ UNCHANGED history
        /\ now \in 0 .. MaxTime /\ now' \in 0 .. MaxTime /\ now <= now'
    BY TimeAssumption DEF Tick, TypeInv, TypeOK
  <1>2. \A n \in Gen : /\ Recovered(n)' = Recovered(n) /\ Base(n)' = Base(n)
                       /\ IsNewest(n)' <=> IsNewest(n)
    BY <1>1, SameFiles
  <1>3. \A s, u \in Slot : LiveAt(s, now) = LiveAt(u, now) => LiveAt(s, now') = LiveAt(u, now')
    BY <1>1, TimeAssumption, LiveLater
  <1>4. \A n \in Gen, k \in Keys : mem[k] \in Slot /\ served[k] \in Slot /\ Recovered(n)[k] \in Slot
    BY RecoveredType DEF TypeInv, TypeOK, Image
  <1>5. NumberInv' /\ TornInv'
    BY <1>1 DEF store, files, IsNewest, DiskInvariant, NumberInv, TornInv, Running, OneLogAfterSnapshot
  <1>6. DiskInv'
    <2>1. UNCHANGED <<phase, mem, pend, why, served>>
      BY <1>1 DEF store, history
    <2> SUFFICES ASSUME NEW n \in Gen, IsNewest(n)
                 PROVE  /\ Running => \A k \in Keys :
                             why[k] = {} /\ (IsPending(k) => phase = "renamed")
                               => LiveAt(mem[k], now') = LiveAt(Recovered(n)[k], now')
                        /\ phase = "append" =>
                             (pend.why = {} /\ (why[pend.rec.key] = {} \/ pend.rec.cmd \in {"SET", "DEL"})
                                => mem[pend.rec.key] = Replayed(pend.rec, Recovered(n)[pend.rec.key]))
                        /\ phase = "renamed" => \A k \in Keys :
                             LiveAt(mem[k], now') = LiveAt(Recovered(n)[k], now')
                        /\ ~Running => \A k \in Keys : why[k] = {}
                               => LiveAt(served[k], now') = LiveAt(Recovered(n)[k], now')
      BY <1>2, <2>1 DEF DiskInv, Same, IsPending, Running
    <2>2. /\ Running => \A k \in Keys :
               why[k] = {} /\ (IsPending(k) => phase = "renamed") => Same(mem[k], Recovered(n)[k])
          /\ phase = "append" =>
               (pend.why = {} /\ (why[pend.rec.key] = {} \/ pend.rec.cmd \in {"SET", "DEL"})
                  => mem[pend.rec.key] = Replayed(pend.rec, Recovered(n)[pend.rec.key]))
          /\ phase = "renamed" => \A k \in Keys : Same(mem[k], Recovered(n)[k])
          /\ ~Running => \A k \in Keys : why[k] = {} => Same(served[k], Recovered(n)[k])
      BY DEF DiskInvariant, DiskInv
    <2> QED BY <1>3, <1>4, <2>2 DEF Same
  <1>7. LoadInv'
    <2>1. UNCHANGED <<phase, cur, logs>>
      BY <1>1 DEF store, files
    <2>2. phase = "load" => cur.gen \in Gen
      BY DEF TypeInv, TypeOK, Cursor
    <2> QED BY <1>2, <2>1, <2>2 DEF DiskInvariant, LoadInv
  <1> QED BY <1>5, <1>6, <1>7 DEF DiskInvariant
---------------------------------------------------------------------------
LEMMA InitDisk == Init => DiskInvariant
  <1> SUFFICES ASSUME Init PROVE DiskInvariant
    OBVIOUS
  <1>1. /\ phase = "down" /\ pend = Nil /\ gcKeep = 0 /\ served = EmptyImage
        /\ snaps = [n \in Gen |-> Nil] /\ logs = [n \in Gen |-> Nil]
    BY DEF Init
  <1>2. NumberInv /\ TornInv /\ LoadInv
    BY <1>1, GenBounds DEF NumberInv, TornInv, LoadInv, Running, OneLogAfterSnapshot
  <1>3. \A n \in Gen : Recovered(n) = EmptyImage
    BY <1>1 DEF Recovered, Replayed1, Base
  <1>4. DiskInv
    BY <1>1, <1>3 DEF DiskInv, Running, Same
  <1> QED BY <1>2, <1>4 DEF DiskInvariant

(* Steps that change neither the map, the phase, the files nor the clock.    *)
LEMMA SameDisk ==
  ASSUME TypeInv, DiskInvariant, UNCHANGED <<phase, mem, num, due, loadErr, pend, gcKeep, cur, now>>,
         UNCHANGED files, UNCHANGED history
  PROVE  DiskInvariant'
  <1>1. \A n \in Gen : /\ Recovered(n)' = Recovered(n) /\ Base(n)' = Base(n)
                       /\ IsNewest(n)' <=> IsNewest(n)
    BY SameFiles
  <1>2. NumberInv' /\ TornInv'
    BY DEF files, IsNewest, DiskInvariant, NumberInv, TornInv, Running, OneLogAfterSnapshot
  <1>3. DiskInv'
    BY <1>1 DEF DiskInvariant, DiskInv, Same, IsPending, Running, history
  <1>4. LoadInv'
    <2>1. phase = "load" => cur.gen \in Gen
      BY DEF TypeInv, TypeOK, Cursor
    <2> QED BY <1>1, <2>1 DEF DiskInvariant, LoadInv, files
  <1> QED BY <1>2, <1>3, <1>4 DEF DiskInvariant

LEMMA StepDisk ==
  ASSUME "read" \notin Faults, TypeInv, TypeInv', DiskInvariant, [Next]_vars
  PROVE  DiskInvariant'
  <1>1. CASE (\E n \in Gen : StartLoad(n)) \/ ReplaySnapshot \/ ReplayLog \/ ReplayDone \/ ReadFails
    BY <1>1, LoadDisk
  <1>2. CASE \E k \in Keys, v \in Values, f \in SetFlag, x \in Expiry :
               Set(k, v, f, x) \/ SetVector(k, v, f, x) \/ SetField(k, v, f, x)
    BY <1>2, SettingDisk
  <1>3. CASE \E k \in Keys, v \in Values :
               PutVector(k, v) \/ Incr(k, v) \/ IncrField(k, v) \/ DelField(k, v) \/ AttachVector(k, v)
    BY <1>3, PutVectorDisk, RewritingDisk
  <1>4. CASE \E k \in Keys, x \in Stamp : Expire(k, x) \/ ExpireAt(k, x)
    BY <1>4, RetimingDisk
  <1>5. CASE \E k \in Keys : Persist(k)
    BY <1>5, PersistingDisk
  <1>6. CASE \E k \in Keys : DelKey(k)
    BY <1>6, DelKeyDisk
  <1>7. CASE \/ \E ks \in SUBSET Keys : Del(ks)
             \/ \E k \in Keys, x \in Stamp : GetRemove(k, x)
             \/ \E t \in 0 .. MaxTime : CleanExpired(t)
             \/ Close
    <2>1. Running
      BY <1>7 DEF Del, GetRemove, CleanExpired, Close, Running
    <2> QED BY <1>7, <2>1, ReadersDisk
  <1>8. CASE \/ \E k \in Keys, v \in Values : DropVector(k, v)
             \/ \E k \in Keys : GetRead(k)
             \/ \E k \in Keys, x \in Stamp : GetReturn(k, x)
             \/ UNCHANGED vars
    BY <1>8, SameDisk DEF DropVector, GetRead, GetReturn, vars, files, history
  <1>9. CASE (\E over \in BOOLEAN : AppendRecord(over)) \/ AppendFails
    BY <1>9, AppendRecordDisk, AppendFailsDisk
  <1>10. CASE WriteSnapshot \/ OpenNextLog \/ CompactFails
    BY <1>10, SnapshotDisk, NextLogDisk, CompactFailsDisk
  <1>11. CASE (\E n \in Gen : GcSnapshot(n) \/ GcLog(n)) \/ Crash \/ Tick
    BY <1>11, CollectorDisk, CrashDisk, TickDisk
  <1> QED BY <1>1, <1>2, <1>3, <1>4, <1>5, <1>6, <1>7, <1>8, <1>9, <1>10, <1>11 DEF Next

LEMMA AlwaysDisk ==
  ASSUME "read" \notin Faults
  PROVE  Spec => [](TypeInv /\ DiskInvariant)
  <1>1. Init => TypeInv /\ DiskInvariant
    BY InitTyped, InitDisk
  <1>2. TypeInv /\ DiskInvariant /\ [Next]_vars => (TypeInv /\ DiskInvariant)'
    BY StepTyped, StepDisk
  <1> QED BY <1>1, <1>2, PTL DEF Spec

(* Where every file that exists can be read, whatever a write or a           *)
(* compaction step does and wherever the process stops: what a restart would *)
(* replay is what memory shows, for every key the code acknowledged.         *)
THEOREM MemoryKept ==
  ASSUME "read" \notin Faults
  PROVE  Spec => []MemoryMatchesDisk
  <1>1. TypeInv /\ DiskInvariant => MemoryMatchesDisk
    BY QuietSame DEF MemoryMatchesDisk, Quiet, DiskInvariant, TypeInv, Same
  <1> QED BY <1>1, AlwaysDisk, PTL

(* A start never finds a second log after the newest snapshot, so the last   *)
(* log it replays is the one it goes on writing to.                          *)
THEOREM OneLogKept ==
  ASSUME "read" \notin Faults
  PROVE  Spec => []OneLogAfterSnapshot
  <1>1. TypeInv /\ DiskInvariant => OneLogAfterSnapshot
    BY RunningOneLog DEF DiskInvariant, NumberInv
  <1> QED BY <1>1, AlwaysDisk, PTL

(* Only the end of a replay opens the store.                                 *)
LEMMA OnlyReplayDone ==
  ASSUME "read" \notin Faults, [Next]_vars, phase = "load", phase' = "idle"
  PROVE  ReplayDone
  <1>1. ~((\E n \in Gen : StartLoad(n)) \/ ReplaySnapshot \/ ReplayLog \/ ReadFails)
    BY DEF StartLoad, ReplaySnapshot, ReplayLog, ReadFails, Loading
  <1>2. ~\E k \in Keys, v \in Values, f \in SetFlag, x \in Expiry :
           Set(k, v, f, x) \/ SetVector(k, v, f, x) \/ SetField(k, v, f, x)
    BY DEF Set, SetVector, SetField, Mutating
  <1>3. ~\E k \in Keys, v \in Values :
           \/ PutVector(k, v) \/ AttachVector(k, v) \/ DropVector(k, v)
           \/ Incr(k, v) \/ IncrField(k, v) \/ DelField(k, v)
    BY DEF PutVector, AttachVector, DropVector, Incr, IncrField, DelField, Mutating
  <1>4. ~\E k \in Keys, x \in Stamp :
           Expire(k, x) \/ ExpireAt(k, x) \/ GetReturn(k, x) \/ GetRemove(k, x)
    BY DEF Expire, ExpireAt, GetReturn, GetRemove, Mutating
  <1>5. ~\/ \E k \in Keys : Persist(k) \/ DelKey(k) \/ GetRead(k)
         \/ \E ks \in SUBSET Keys : Del(ks)
         \/ \E t \in 0 .. MaxTime : CleanExpired(t)
    BY DEF Persist, DelKey, GetRead, Del, CleanExpired, Mutating
  <1>6. ~((\E over \in BOOLEAN : AppendRecord(over)) \/ AppendFails \/ WriteSnapshot
            \/ OpenNextLog \/ CompactFails \/ Close)
    BY DEF AppendRecord, AppendFails, WriteSnapshot, PutSnapshot, OpenNextLog, CompactFails, GiveUp, Close
  <1>7. ~((\E n \in Gen : GcSnapshot(n) \/ GcLog(n)) \/ Crash \/ Tick \/ UNCHANGED vars)
    BY DEF GcSnapshot, GcLog, Crash, Tick, store, vars
  <1> QED BY <1>1, <1>2, <1>3, <1>4, <1>5, <1>6, <1>7 DEF Next

(* The first map a process serves agrees with the last its predecessor held, *)
(* for every acknowledged key, wherever the predecessor stopped.             *)
THEOREM RestartKept ==
  ASSUME "read" \notin Faults
  PROVE  Spec => RestartRestores
  <1>1. ASSUME TypeInv, DiskInvariant, [Next]_vars, phase = "load", phase' = "idle", ~loadErr',
               NEW k \in Keys, why[k] = {}
        PROVE  LiveAt(mem'[k], now) = LiveAt(served[k], now)
    <2>1. ReplayDone
      BY <1>1, OnlyReplayDone
    <2>2. mem' = Recovered(cur.gen) /\ IsNewest(cur.gen) /\ cur.gen \in Gen
      BY <1>1, <2>1, ReplayComplete
    <2>3. Same(served[k], Recovered(cur.gen)[k])
      BY <1>1, <2>2 DEF DiskInvariant, DiskInv, Running
    <2> QED BY <2>2, <2>3 DEF Same
  <1>2. TypeInv /\ DiskInvariant /\ [Next]_vars =>
          [phase = "load" /\ phase' = "idle" /\ ~loadErr' =>
             \A k \in Keys : why[k] = {} => LiveAt(mem'[k], now) = LiveAt(served[k], now)]_vars
    BY <1>1
  <1> QED BY <1>2, AlwaysDisk, PTL DEF Spec, RestartRestores
---------------------------------------------------------------------------
(* The generation kept before the newest: where files can be read, a replay  *)
(* from it ends with the same keys.                                          *)

(* The newest snapshot is below the last generation the model numbers, so    *)
(* the log after it has a number too.                                        *)
LEMMA NewestBelow ==
  ASSUME TypeInv, NEW n \in Gen, IsNewest(n)
  PROVE  /\ n \in Nat /\ n < MaxGen /\ n + 1 \in Gen
         /\ n > 0 => n - 1 \in Gen /\ (n - 1) + 1 = n /\ snaps[n] # Nil
  BY GenBounds DEF TypeInv, IsNewest

LEMMA PreviousType ==
  ASSUME TypeOK, NEW n \in Gen, n > 0
  PROVE  Previous(n) \in Image /\ Replayed1(Base(n - 1), n) \in Image
  <1>1. n - 1 \in Gen
    BY GenBounds
  <1>2. Base(n - 1) \in Image
    BY <1>1, BaseType
  <1>3. Replayed1(Base(n - 1), n) \in Image
    BY <1>2, Replayed1Type
  <1> QED BY <1>3, Replayed1Type DEF Previous

LEMMA SamePrevious ==
  ASSUME UNCHANGED files, NEW n \in Gen
  PROVE  Previous(n)' = Previous(n)
  BY DEF files, Previous, Replayed1, Base

(* Steps that leave the files alone: a record staged must find the same in   *)
(* both generations when it changes an expiry.                               *)
LEMMA FilesStay ==
  ASSUME TypeInv, FallbackInv, UNCHANGED <<now, fork>>, UNCHANGED files,
         phase' = "append" =>
           \/ UNCHANGED <<phase, pend, why>>
           \/ pend'.rec.cmd \in {"SET", "DEL"}
           \/ \A n \in Gen : IsNewest(n) /\ n > 0 /\ pend'.why = {} /\ why'[pend'.rec.key] = {}
                                 /\ pend'.rec.key \in Keys \ fork =>
                 Previous(n)[pend'.rec.key] = Recovered(n)[pend'.rec.key],
         phase' = "snap" /\ pend' # Nil => UNCHANGED <<phase, pend, why, mem, num>> /\ num - 1 \in Gen
  PROVE  FallbackInv'
  <1>1. \A n \in Gen : /\ Recovered(n)' = Recovered(n) /\ (IsNewest(n)' <=> IsNewest(n))
                       /\ Previous(n)' = Previous(n)
    BY SameFiles, SamePrevious
  <1>2. snaps' = snaps /\ logs' = logs
    BY DEF files
  <1>3. ForkInv'
    <2> SUFFICES ASSUME NEW n \in Gen, IsNewest(n), n > 0, NEW k \in Keys \ fork
                 PROVE  /\ Same(Previous(n)[k], Recovered(n)[k])
                        /\ logs[n + 1] # Nil => logs[n + 1].seen[k] = logs[n + 1].eff[k]
                        /\ phase' = "append" /\ pend' # Nil /\ pend'.rec.key = k /\ pend'.why = {}
                              /\ why'[k] = {} /\ pend'.rec.cmd \notin {"SET", "DEL"} =>
                             Previous(n)[k] = Recovered(n)[k]
      BY <1>1, <1>2 DEF ForkInv, Same, IsPending
    <2> QED BY DEF FallbackInv, ForkInv, IsPending
  <1>4. PreviousInv'
    <2>1. \A n \in Gen : IsNewest(n)' /\ n > 1 => snaps'[n - 1] # Nil
      BY <1>1, <1>2 DEF FallbackInv, PreviousInv
    <2>2. ASSUME phase' = "snap", pend' # Nil
          PROVE  IF snaps'[num'] # Nil THEN pend'.rec.key \in fork'
                 ELSE why'[pend'.rec.key] \cup pend'.why = {} =>
                        LiveAt(mem'[pend'.rec.key], now') = LiveAt(Recovered(num - 1)'[pend'.rec.key], now')
      <3>1. UNCHANGED <<phase, pend, why, mem, num>> /\ num - 1 \in Gen
        BY <2>2
      <3>2. Recovered(num - 1)' = Recovered(num - 1)
        BY <1>1, <3>1
      <3> QED BY <1>2, <2>2, <3>1, <3>2 DEF FallbackInv, PreviousInv, Same
    <2>3. phase' = "snap" /\ pend' # Nil => num' = num
      OBVIOUS
    <2> QED BY <2>1, <2>2, <2>3 DEF PreviousInv, Same
  <1> QED BY <1>3, <1>4 DEF FallbackInv
---------------------------------------------------------------------------
(* Operations. *)

LEMMA SettingFallback ==
  ASSUME TypeInv, DiskInvariant, FallbackInv,
         \/ \E k \in Keys, v \in Values, f \in SetFlag, x \in Expiry :
              Set(k, v, f, x) \/ SetVector(k, v, f, x) \/ SetField(k, v, f, x)
         \/ \E k \in Keys, v \in Values :
              PutVector(k, v) \/ AttachVector(k, v) \/ Incr(k, v) \/ IncrField(k, v) \/ DelField(k, v)
         \/ \E k \in Keys : DelKey(k)
  PROVE  FallbackInv'
  <1>1. ASSUME NEW k \in Keys, NEW v \in Values, NEW f \in SetFlag, NEW x \in Expiry,
               Set(k, v, f, x) \/ SetVector(k, v, f, x) \/ SetField(k, v, f, x)
        PROVE  FallbackInv'
    <2>1. UNCHANGED <<now, fork>> /\ UNCHANGED files /\ pend'.rec.cmd = "SET"
      BY <1>1 DEF Set, SetVector, SetField, Mutating, Stage, SetRecord, history
    <2>2. phase' = "append"
      BY <1>1 DEF Set, SetVector, SetField, Stage
    <2> QED BY <2>1, <2>2, FilesStay
  <1>2. ASSUME NEW k \in Keys, NEW v \in Values,
               PutVector(k, v) \/ AttachVector(k, v) \/ Incr(k, v) \/ IncrField(k, v) \/ DelField(k, v)
        PROVE  FallbackInv'
    <2>1. UNCHANGED <<now, fork>> /\ UNCHANGED files
      BY <1>2 DEF PutVector, AttachVector, Incr, IncrField, DelField, Mutating, history
    <2>2. phase' = "append" /\ pend'.rec.cmd = "SET"
      BY <1>2 DEF PutVector, AttachVector, Incr, IncrField, DelField, Rewrite, Stage, SetRecord
    <2> QED BY <2>1, <2>2, FilesStay
  <1>3. ASSUME NEW k \in Keys, DelKey(k) PROVE FallbackInv'
    BY <1>3, FilesStay DEF DelKey, Stage, DelRecord, history
  <1> QED BY <1>1, <1>2, <1>3

(* A change of expiry that has no reason against it finds the entry alive,   *)
(* so in both generations.                                                   *)
LEMMA RetimeFallback ==
  ASSUME TypeInv, DiskInvariant, FallbackInv, NEW k \in Keys, NEW r, Retime(k, r), r.key = k,
         phase = "idle", UNCHANGED now, UNCHANGED files, UNCHANGED history
  PROVE  FallbackInv'
  <1>1. phase' = "append" /\ pend'.rec = r /\ mem[k] # Nil /\ UNCHANGED <<why, fork>>
        /\ (pend'.why = {} => ~Expired(mem[k], now))
    BY DEF Retime, Stage, history
  <1>2. ASSUME NEW n \in Gen, IsNewest(n), n > 0, pend'.why = {}, why[k] = {}, k \notin fork
        PROVE  Previous(n)[k] = Recovered(n)[k]
    <2>1. Same(mem[k], Recovered(n)[k])
      BY <1>2, QuietSame DEF DiskInvariant, TypeInv
    <2>2. Same(Previous(n)[k], Recovered(n)[k])
      BY <1>2 DEF FallbackInv, ForkInv
    <2>3. LiveAt(mem[k], now) = mem[k] /\ mem[k] # Nil
      BY <1>1, <1>2 DEF LiveAt
    <2>4. \A s : LiveAt(s, now) = mem[k] => s = mem[k]
      BY <2>3 DEF LiveAt
    <2> QED BY <2>1, <2>2, <2>3, <2>4 DEF Same
  <1> QED BY <1>1, <1>2, FilesStay

LEMMA RetimingFallback ==
  ASSUME TypeInv, DiskInvariant, FallbackInv,
         \/ \E k \in Keys, x \in Stamp : Expire(k, x) \/ ExpireAt(k, x)
         \/ \E k \in Keys : Persist(k)
  PROVE  FallbackInv'
  <1>1. ASSUME NEW k \in Keys, NEW x \in Stamp, Expire(k, x) \/ ExpireAt(k, x) PROVE FallbackInv'
    BY <1>1, RetimeFallback DEF Expire, ExpireAt, Mutating, ExpireRecord
  <1>2. ASSUME NEW k \in Keys, Persist(k) PROVE FallbackInv'
    BY <1>2, RetimeFallback DEF Persist, Mutating, PersistRecord
  <1> QED BY <1>1, <1>2

(* What starts, reads, cleans or gives up leaves the files alone.            *)
LEMMA OtherFallback ==
  ASSUME TypeInv, DiskInvariant, FallbackInv,
         \/ \E n \in Gen : StartLoad(n)
         \/ ReplaySnapshot \/ ReplayLog \/ ReplayDone \/ ReadFails
         \/ \E k \in Keys, v \in Values : DropVector(k, v)
         \/ \E ks \in SUBSET Keys : Del(ks)
         \/ \E k \in Keys : GetRead(k)
         \/ \E k \in Keys, x \in Stamp : GetReturn(k, x) \/ GetRemove(k, x)
         \/ \E t \in 0 .. MaxTime : CleanExpired(t)
         \/ CompactFails \/ Close \/ UNCHANGED vars
  PROVE  FallbackInv'
  <1>1. phase = "snap" => num - 1 \in Gen
    BY Newest DEF DiskInvariant, Running
  <1>2. CASE \/ \E n \in Gen : StartLoad(n)
             \/ ReplaySnapshot \/ ReplayLog \/ ReplayDone \/ ReadFails
    <2>1. UNCHANGED <<now, fork>> /\ UNCHANGED files /\ phase' \in {"load", "idle"}
      BY <1>2 DEF StartLoad, ReplaySnapshot, ReplayLog, ReplayDone, ReadFails, Loaded, Loading, files
    <2> QED BY <2>1, FilesStay
  <1>3. CASE CompactFails
    <2>1. UNCHANGED <<now, fork>> /\ UNCHANGED files /\ phase' \in {"closed", "idle", "del"}
      BY <1>3 DEF CompactFails, GiveUp, Refuse, Release
    <2> QED BY <2>1, FilesStay
  <1>4. CASE (\E ks \in SUBSET Keys : Del(ks)) \/ Close
    <2>1. phase = "idle" /\ UNCHANGED <<now, fork, pend>> /\ UNCHANGED files
          /\ phase' \in {"del", "snap", "closed"}
      BY <1>4 DEF Del, Close, history
    <2>2. pend = Nil
      BY <2>1 DEF DiskInvariant, NumberInv, Running
    <2> QED BY <2>1, <2>2, FilesStay
  <1>5. CASE \/ \E k \in Keys, x \in Stamp : GetRemove(k, x)
             \/ \E t \in 0 .. MaxTime : CleanExpired(t)
    <2>1. phase' = "idle" /\ UNCHANGED <<now, fork>> /\ UNCHANGED files
      BY <1>5 DEF GetRemove, CleanExpired, history
    <2> QED BY <2>1, FilesStay
  <1>6. CASE \/ \E k \in Keys, v \in Values : DropVector(k, v)
             \/ \E k \in Keys : GetRead(k)
             \/ \E k \in Keys, x \in Stamp : GetReturn(k, x)
             \/ UNCHANGED vars
    <2>1. UNCHANGED <<now, fork, phase, pend, why, mem, num>> /\ UNCHANGED files
      BY <1>6 DEF DropVector, GetRead, GetReturn, vars, files, history
    <2> QED BY <1>1, <2>1, FilesStay
  <1> QED BY <1>2, <1>3, <1>4, <1>5, <1>6
---------------------------------------------------------------------------
(* The append of a record, whole, in part or not at all.                     *)

(* A log after the append: a key that has to be restored alike and is not    *)
(* the record's is replayed as before, and nothing more of it is hidden.     *)
LEMMA AppendedSees ==
  ASSUME NEW o \in LogFile, ~o.torn => o.seen = o.eff, NEW r \in Record, NEW k \in Keys,
         o.torn => o.seen[k] = o.eff[k]
  PROVE  /\ Appended(o, r).seen[k] = Appended(o, r).eff[k]
         /\ k # r.key \/ o.torn => Appended(o, r).seen[k] = o.seen[k]
         /\ k = r.key /\ ~o.torn => Appended(o, r).seen[k] = Then(o.seen[k], r)
         /\ \A w \in BOOLEAN : k # r.key \/ ~w =>
              /\ AppendedPart(o, r, w).seen[k] = o.seen[k]
              /\ AppendedPart(o, r, w).seen[k] = AppendedPart(o, r, w).eff[k]
  <1>1. o.eff \in [Keys -> Effect] /\ o.torn \in BOOLEAN /\ o.seen[k] = o.eff[k]
    BY DEF LogFile
  <1>2. WithLine(o.eff, r)[r.key] = Then(o.eff[r.key], r)
        /\ (k # r.key => WithLine(o.eff, r)[k] = o.eff[k])
    BY <1>1, WithLineType
  <1>3. Appended(o, r).seen = Appended(o, r).eff
        /\ Appended(o, r).seen = IF o.torn THEN o.eff ELSE WithLine(o.eff, r)
    BY DEF Appended
  <1>4. \A w \in BOOLEAN :
          /\ AppendedPart(o, r, w).eff = o.eff
          /\ AppendedPart(o, r, w).seen = IF w /\ ~o.torn THEN WithLine(o.eff, r) ELSE o.eff
    BY DEF AppendedPart
  <1> QED BY <1>1, <1>2, <1>3, <1>4

(* A full record puts the same in both generations, a changed expiry is one  *)
(* both find the same; other keys are replayed as before.                    *)
LEMMA LogForks ==
  ASSUME TypeInv, DiskInvariant, phase = "append", NEW k \in Keys,
         NEW l, NEW forked,
         \/ l = LogOf(num) /\ forked = fork
         \/ l = Appended(LogOf(num), pend.rec) /\ forked = ForkAfter
         \/ \E w \in BOOLEAN :
               /\ l = AppendedPart(LogOf(num), pend.rec, w)
               /\ forked = fork \cup Hidden \cup IF w THEN {pend.rec.key} ELSE {},
         k \notin forked
  PROVE  /\ l \in LogFile /\ (l.seen[k] = l.eff[k] \/ l = LogOf(num))
         /\ \/ k \notin fork /\ l.seen[k] = LogOf(num).seen[k]
            \/ /\ snaps[num] = Nil /\ k = pend.rec.key /\ l.seen[k] = Then(LogOf(num).seen[k], pend.rec)
               /\ \/ pend.rec.cmd \in {"SET", "DEL"}
                  \/ k \notin fork /\ why[k] \cup pend.why = {}
  <1> DEFINE o == LogOf(num)
             r == pend.rec
  <1>1. /\ o \in LogFile /\ o.torn \in BOOLEAN /\ (~o.torn => o.seen = o.eff)
        /\ r \in Record
    BY LogFacts, PendTypes DEF DiskInvariant, TypeInv, TypeOK
  <1>3. CASE l = o /\ forked = fork
    BY <1>1, <1>3
  <1>4. CASE l = Appended(o, r) /\ forked = ForkAfter
    <2>1. k \notin Hidden
      BY <1>4 DEF ForkAfter
    <2>2. o.torn => o.seen[k] = o.eff[k]
      BY <2>1 DEF Hidden
    <2>3. l \in LogFile
      BY <1>1, <1>4, AppendedType
    <2>4. /\ l.seen[k] = l.eff[k]
          /\ k # r.key \/ o.torn => l.seen[k] = o.seen[k]
          /\ k = r.key /\ ~o.torn => l.seen[k] = Then(o.seen[k], r)
      BY <1>1, <1>4, <2>2, AppendedSees
    <2>5. CASE k # r.key \/ o.torn
      <3>1. k \notin fork
        BY <1>4, <2>5 DEF ForkAfter
      <3> QED BY <2>3, <2>4, <2>5, <3>1
    <2>6. CASE k = r.key /\ ~o.torn
      <3>1. snaps[num] = Nil
        BY <1>4, <2>6 DEF ForkAfter
      <3>2. r.cmd \in {"SET", "DEL"} \/ (k \notin fork /\ why[k] \cup pend.why = {})
        BY <1>4, <2>6 DEF ForkAfter
      <3> QED BY <2>3, <2>4, <2>6, <3>1, <3>2
    <2> QED BY <1>1, <2>5, <2>6
  <1>5. ASSUME NEW w \in BOOLEAN, l = AppendedPart(o, r, w),
               forked = fork \cup Hidden \cup IF w THEN {r.key} ELSE {}
        PROVE  l \in LogFile /\ k \notin fork /\ l.seen[k] = l.eff[k] /\ l.seen[k] = o.seen[k]
    <2>1. k \notin fork /\ k \notin Hidden /\ (k # r.key \/ ~w)
      BY <1>5
    <2>2. o.torn => o.seen[k] = o.eff[k]
      BY <2>1 DEF Hidden
    <2> QED BY <1>1, <1>5, <2>1, <2>2, AppendedSees, AppendedType
  <1> QED BY <1>3, <1>4, <1>5

(* Whatever has reached the log, the generations still restore alike the     *)
(* keys that are not noted, and both are still there.                        *)
LEMMA ReachedForks ==
  ASSUME TypeInv, DiskInvariant, FallbackInv, phase = "append", phase' # "append",
         Reached(pend.rec), UNCHANGED <<snaps, now>>
  PROVE  ForkInv' /\ \A n \in Gen : IsNewest(n)' /\ n > 1 => snaps'[n - 1] # Nil
  <1>1. /\ pend # Nil /\ Running
        /\ num \in Gen /\ num > 0 /\ num - 1 \in Gen /\ num = (num - 1) + 1
        /\ \A n \in Gen : IsNewest(n) => n = num - 1 \/ n = num
        /\ logs \in [Gen -> LogFile \cup {Nil}]
    BY Newest DEF DiskInvariant, TypeInv, TypeOK, Running
  <1>2. \A n \in Gen : Base(n)' = Base(n) /\ (IsNewest(n)' <=> IsNewest(n))
    BY DEF Base, IsNewest
  <1>3. \A n \in Gen : IsNewest(n)' /\ n > 1 => snaps'[n - 1] # Nil
    BY <1>2 DEF FallbackInv, PreviousInv
  <1>4. CASE logs' = logs /\ fork' = fork
    <2>1. \A n \in Gen : Recovered(n)' = Recovered(n) /\ Previous(n)' = Previous(n)
      BY <1>4, SameFiles, SamePrevious DEF files
    <2> QED BY <1>2, <1>3, <1>4, <2>1 DEF FallbackInv, ForkInv, Same
  <1>5. ASSUME NEW l, logs' = [logs EXCEPT ![num] = l],
               \/ l = LogOf(num) /\ fork' = fork
               \/ l = Appended(LogOf(num), pend.rec) /\ fork' = ForkAfter
               \/ \E w \in BOOLEAN :
                     /\ l = AppendedPart(LogOf(num), pend.rec, w)
                     /\ fork' = fork \cup Hidden \cup IF w THEN {pend.rec.key} ELSE {}
        PROVE  ForkInv'
    <2>1. logs'[num] = l /\ \A m \in Gen : m # num => logs'[m] = logs[m]
      BY <1>1, <1>5
    <2> SUFFICES ASSUME NEW n \in Gen, IsNewest(n), n > 0, NEW k \in Keys, k \notin fork'
                 PROVE  /\ LiveAt(Previous(n)'[k], now) = LiveAt(Recovered(n)'[k], now)
                        /\ logs'[n + 1] # Nil => logs'[n + 1].seen[k] = logs'[n + 1].eff[k]
      BY <1>2 DEF ForkInv, Same
    <2>2. /\ l \in LogFile /\ (l.seen[k] = l.eff[k] \/ l = LogOf(num)) /\ l # Nil
          /\ \/ k \notin fork /\ l.seen[k] = LogOf(num).seen[k]
             \/ /\ snaps[num] = Nil /\ k = pend.rec.key /\ l.seen[k] = Then(LogOf(num).seen[k], pend.rec)
                /\ \/ pend.rec.cmd \in {"SET", "DEL"}
                   \/ k \notin fork /\ why[k] \cup pend.why = {}
      BY <1>5, LogForks, NilNoData
    <2>3. LogOf(num) \in LogFile /\ LogOf(num).seen[k] \in Effect /\ pend.rec \in Record
      BY <1>1, LogFacts, PendTypes DEF DiskInvariant, TypeInv
    <2>4. k \notin fork => Same(Previous(n)[k], Recovered(n)[k])
      BY DEF FallbackInv, ForkInv
    <2>5. n \in Nat /\ n - 1 \in Gen /\ (n - 1) + 1 = n /\ snaps[n] # Nil
      BY NewestBelow
    <2>6. CASE n = num - 1
      <3> DEFINE older == Replayed1(Base(n - 1), n)
      <3>1. older \in Image /\ Base(n) \in Image /\ n + 1 = num /\ n # num
        BY <1>1, <2>5, <2>6, PreviousType, BaseType, GenBounds DEF TypeInv
      <3>2. older' = older /\ Base(n)' = Base(n)
        BY <1>2, <2>1, <2>5, <3>1 DEF Replayed1
      <3>3. /\ Previous(n) = Replayed1(older, n + 1) /\ Previous(n)' = Replayed1(older, n + 1)'
            /\ Recovered(n)' = Replayed1(Base(n), n + 1)'
        BY DEF Previous, Recovered
      <3>4. Previous(n) = ReplayInto(older, LogOf(num)) /\ Recovered(n) = ReplayInto(Base(n), LogOf(num))
        <4>1. ReplayInto(older, EmptyLog) = older
          BY <3>1, EmptyLogReplay
        <4>2. Recovered(n) = ReplayInto(Base(n), LogOf(num))
          BY <1>1, <2>6, RecoveredCurrent
        <4> HIDE DEF older
        <4> QED BY <1>1, <3>1, <3>3, <4>1, <4>2 DEF Replayed1, LogOf
      <3>5. Previous(n)' = ReplayInto(older, l) /\ Recovered(n)' = ReplayInto(Base(n), l)
        <4> HIDE DEF older
        <4>1. logs'[n + 1] = l /\ n + 1 \in Gen
          BY <1>1, <2>1, <3>1
        <4> QED BY <2>2, <3>2, <3>3, <4>1 DEF Replayed1
      <3>6. older[k] \in Slot /\ Base(n)[k] \in Slot
        BY <3>1 DEF Image
      <3> HIDE DEF older
      <3>7. /\ Previous(n)[k] = Apply(LogOf(num).seen[k], older[k])
            /\ Recovered(n)[k] = Apply(LogOf(num).seen[k], Base(n)[k])
            /\ Previous(n)'[k] = Apply(l.seen[k], older[k])
            /\ Recovered(n)'[k] = Apply(l.seen[k], Base(n)[k])
        BY <3>4, <3>5 DEF ReplayInto
      <3>8. LiveAt(Previous(n)'[k], now) = LiveAt(Recovered(n)'[k], now)
        <4>1. CASE k \notin fork /\ l.seen[k] = LogOf(num).seen[k]
          BY <2>4, <3>7, <4>1 DEF Same
        <4>2. CASE /\ k = pend.rec.key /\ l.seen[k] = Then(LogOf(num).seen[k], pend.rec)
                   /\ \/ pend.rec.cmd \in {"SET", "DEL"}
                      \/ k \notin fork /\ why[k] \cup pend.why = {}
          <5>1. /\ Previous(n)'[k] = Replayed(pend.rec, Previous(n)[k])
                /\ Recovered(n)'[k] = Replayed(pend.rec, Recovered(n)[k])
            BY <2>3, <3>6, <3>7, <4>2, ThenReplays
          <5>2. CASE pend.rec.cmd \in {"SET", "DEL"}
            BY <5>1, <5>2 DEF Replayed
          <5>3. CASE pend.rec.cmd \notin {"SET", "DEL"}
            <6>1. k \notin fork /\ why[k] = {} /\ pend.why = {} /\ IsPending(k)
              BY <1>1, <4>2, <5>3 DEF IsPending
            <6>2. Previous(n)[k] = Recovered(n)[k]
              BY <5>3, <6>1 DEF FallbackInv, ForkInv
            <6> QED BY <5>1, <6>2
          <5> QED BY <5>2, <5>3
        <4> QED BY <2>2, <4>1, <4>2
      <3>9. l.seen[k] = l.eff[k]
        <4>1. CASE l = LogOf(num)
          <5>1. k \notin fork \/ l.seen[k] = l.eff[k]
            BY <1>5 DEF Appended
          <5>2. logs[num] # Nil /\ k \notin fork => logs[num].seen[k] = logs[num].eff[k]
            BY <3>1 DEF FallbackInv, ForkInv
          <5> QED BY <4>1, <5>1, <5>2 DEF LogOf, EmptyLog
        <4> QED BY <2>2, <4>1
      <3> QED BY <2>1, <3>1, <3>8, <3>9
    <2>7. CASE n = num
      <3>1. /\ k \notin fork /\ l.seen[k] = LogOf(num).seen[k]
            /\ logs[n + 1] = Nil /\ n + 1 \in Gen /\ n + 1 # num
        BY <1>1, <2>2, <2>5, <2>7, RecoveredSuperseded, GenBounds DEF DiskInvariant
      <3>2. logs'[n + 1] = Nil /\ logs'[n] = l
        BY <2>1, <2>7, <3>1
      <3>3. Recovered(n)' = Recovered(n)
        BY <1>2, <3>1, <3>2 DEF Recovered, Replayed1
      <3>4. Previous(n) = ReplayInto(Base(n - 1), LogOf(num))
        <4>1. Previous(n) = Replayed1(Base(n - 1), n)
          BY <3>1 DEF Previous, Replayed1
        <4>2. Recovered(n - 1) = Replayed1(Base(n - 1), n)
          BY <2>5 DEF Recovered
        <4> QED BY <1>1, <2>7, <4>1, <4>2, RecoveredCurrent
      <3>5. Previous(n)' = ReplayInto(Base(n - 1), l)
        <4>1. Base(n - 1)' = Base(n - 1)
          BY <1>2, <2>5
        <4> QED BY <2>2, <3>1, <3>2, <4>1 DEF Previous, Replayed1
      <3>6. Previous(n)'[k] = Previous(n)[k]
        BY <3>1, <3>4, <3>5 DEF ReplayInto
      <3> QED BY <2>4, <3>1, <3>2, <3>3, <3>6 DEF Same
    <2> QED BY <1>1, <2>6, <2>7
  <1> QED BY <1>3, <1>4, <1>5 DEF Reached

LEMMA AppendRecordFallback ==
  ASSUME TypeInv, DiskInvariant, FallbackInv, NEW over \in BOOLEAN, AppendRecord(over)
  PROVE  FallbackInv'
  <1>1. /\ phase = "append" /\ Reached(pend.rec) /\ phase' # "append"
        /\ logs' = [logs EXCEPT ![num] = Appended(LogOf(num), pend.rec)] /\ fork' = ForkAfter
        /\ UNCHANGED <<mem, num, snaps, now>>
    BY DEF AppendRecord, Reached, Acknowledge, Release
  <1>2. /\ pend # Nil /\ Running /\ pend.rec.key \in Keys
        /\ num \in Gen /\ num - 1 \in Gen /\ num = (num - 1) + 1
    BY <1>1, PendTypes, Newest DEF DiskInvariant, TypeInv, TypeOK, Running
  <1>3. ASSUME phase' = "snap", pend' # Nil
        PROVE  IF snaps[num] # Nil THEN pend'.rec.key \in fork'
               ELSE why'[pend'.rec.key] \cup pend'.why = {} =>
                      LiveAt(mem[pend'.rec.key], now) = LiveAt(Recovered(num - 1)'[pend'.rec.key], now)
    <2>1. pend' = pend /\ why'[pend.rec.key] = WhyNow(pend.rec.key)
      BY <1>2, <1>3 DEF AppendRecord, Acknowledge, Release
    <2>2. CASE snaps[num] # Nil
      BY <1>1, <2>1, <2>2 DEF ForkAfter
    <2>3. CASE snaps[num] = Nil /\ why'[pend.rec.key] \cup pend.why = {}
      <3>1. why[pend.rec.key] = {} /\ pend.why = {} /\ pend.rec.key \notin Merged
        BY <2>1, <2>3 DEF WhyNow
      <3>2. IsNewest(num - 1)
        BY <1>2, <2>3, Newest DEF DiskInvariant, NumberInv
      <3>3. mem[pend.rec.key] = Replayed(pend.rec, Recovered(num - 1)[pend.rec.key])
        BY <1>1, <1>2, <3>1, <3>2 DEF DiskInvariant, DiskInv
      <3>4. \A n \in Gen : n = num - 1 =>
              Recovered(n)'[pend.rec.key] = Replayed(pend.rec, Recovered(n)[pend.rec.key])
        BY <1>1, <1>2, <3>1, AppendReplays DEF DiskInvariant
      <3>5. \A n \in Gen : n = num - 1 => Recovered(n)' = Recovered(num - 1)'
        BY <1>1
      <3> QED BY <1>2, <2>1, <2>3, <3>3, <3>4, <3>5
    <2> QED BY <2>1, <2>2, <2>3
  <1> QED BY <1>1, <1>3, ReachedForks DEF FallbackInv, PreviousInv, Same

LEMMA AppendFailsFallback ==
  ASSUME TypeInv, DiskInvariant, FallbackInv, AppendFails
  PROVE  FallbackInv'
  <1>1. /\ phase = "append" /\ Reached(pend.rec) /\ UNCHANGED <<snaps, now>>
        /\ phase' \notin {"append", "snap"}
    BY DEF AppendFails, Refuse, Release
  <1> QED BY <1>1, ReachedForks DEF FallbackInv, PreviousInv

LEMMA CrashFallback ==
  ASSUME TypeInv, DiskInvariant, FallbackInv, Crash
  PROVE  FallbackInv'
  <1>1. phase' = "down" /\ UNCHANGED <<snaps, now>>
    BY DEF Crash
  <1>2. CASE phase = "append"
    BY <1>1, <1>2, ReachedForks DEF Crash, FallbackInv, PreviousInv
  <1>3. CASE phase # "append"
    <2>1. UNCHANGED files /\ fork' = fork
      BY <1>1, <1>3 DEF Crash, files
    <2> QED BY <1>1, <2>1, FilesStay
  <1> QED BY <1>2, <1>3
---------------------------------------------------------------------------
(* Compaction and collection. *)

(* The new snapshot agrees with what it and the log before it are made of,   *)
(* but for the keys memory is known to differ on.                            *)
LEMMA SnapshotFallback ==
  ASSUME TypeInv, DiskInvariant, FallbackInv, WriteSnapshot
  PROVE  FallbackInv'
  <1>1. /\ num \in Gen /\ num > 0 /\ num < MaxGen /\ num - 1 \in Gen /\ (num - 1) + 1 = num
        /\ snaps'[num] # Nil /\ \A m \in Gen : m # num => snaps'[m] = snaps[m]
        /\ \A n \in Gen : IsNewest(n)' <=> n = num
        /\ num + 1 \in Gen /\ logs[num + 1] = Nil
        /\ \A n \in Gen : n = num => Recovered(n)' = Serialized
        /\ \A k \in Keys : Same(mem[k], Serialized[k])
    BY SnapshotTaken DEF DiskInvariant
  <1>2. /\ phase = "snap" /\ phase' = "renamed" /\ Running /\ UNCHANGED <<mem, num, logs, now>>
        /\ \A k \in Keys \ fork' : why[k] = {} /\ (IsPending(k) => pend.why = {})
        /\ snaps[num] # Nil => fork \subseteq fork'
    BY DEF WriteSnapshot, PutSnapshot, Running, IsPending
  <1>3. ASSUME NEW n \in Gen, n = num PROVE Previous(n)' = Recovered(num - 1)
    <2>1. Base(n - 1)' = Base(n - 1)
      <3>1. n - 1 \in Gen /\ n - 1 # num
        BY <1>1, <1>3, GenBounds
      <3> QED BY <1>1, <3>1 DEF Base
    <2>2. Replayed1(Base(n - 1), n)' = Recovered(n - 1)
      BY <1>1, <1>2, <1>3, <2>1 DEF Replayed1, Recovered
    <2>3. Previous(n)' = Replayed1(Base(n - 1), n)'
      BY <1>1, <1>2, <1>3 DEF Previous, Replayed1
    <2> QED BY <1>3, <2>2, <2>3
  <1>4. IsNewest(num - 1) \/ IsNewest(num)
    BY <1>2 DEF DiskInvariant, NumberInv
  <1>5. ASSUME NEW k \in Keys \ fork' PROVE Same(mem[k], Recovered(num - 1)[k])
    <2>1. why[k] = {} /\ (IsPending(k) => pend.why = {})
      BY <1>2
    <2>2. CASE snaps[num] = Nil
      <3>1. IsNewest(num - 1)
        BY <1>1, <1>4, <2>2, NewestBelow
      <3>2. CASE ~IsPending(k)
        BY <1>1, <1>2, <2>1, <3>1, <3>2 DEF DiskInvariant, DiskInv
      <3>3. CASE IsPending(k)
        BY <1>2, <2>1, <2>2, <3>3 DEF FallbackInv, PreviousInv, IsPending
      <3> QED BY <3>2, <3>3
    <2>3. CASE snaps[num] # Nil
      <3>1. IsNewest(num) /\ k \notin fork
        BY <1>1, <1>2, <1>4, <2>3, Newest DEF DiskInvariant
      <3>2. ~IsPending(k)
        BY <1>2, <2>3, <3>1 DEF FallbackInv, PreviousInv, IsPending
      <3>3. Same(mem[k], Recovered(num)[k])
        BY <1>1, <1>2, <2>1, <3>1, <3>2 DEF DiskInvariant, DiskInv
      <3>4. Same(Previous(num)[k], Recovered(num)[k])
        BY <1>1, <3>1 DEF FallbackInv, ForkInv
      <3>5. Previous(num) = Recovered(num - 1)
        BY <1>1 DEF Previous, Recovered, Replayed1
      <3> QED BY <3>3, <3>4, <3>5 DEF Same
    <2> QED BY <2>2, <2>3
  <1>6. ForkInv'
    <2> SUFFICES ASSUME NEW n \in Gen, n = num, NEW k \in Keys \ fork'
                 PROVE  LiveAt(Previous(n)'[k], now) = LiveAt(Recovered(n)'[k], now)
      BY <1>1, <1>2 DEF ForkInv, Same
    <2> QED BY <1>1, <1>3, <1>5 DEF Same
  <1>7. PreviousInv'
    <2>1. num > 1 => snaps'[num - 1] # Nil
      <3>1. num > 1 => snaps[num - 1] # Nil
        BY <1>1, <1>4, GenBounds, NewestBelow DEF FallbackInv, PreviousInv
      <3> QED BY <1>1, <3>1, GenBounds
    <2> QED BY <1>1, <1>2, <2>1 DEF PreviousInv
  <1> QED BY <1>6, <1>7 DEF FallbackInv

(* The new log is empty.                                                     *)
LEMMA NextLogFallback ==
  ASSUME TypeInv, DiskInvariant, FallbackInv, OpenNextLog
  PROVE  FallbackInv'
  <1>1. /\ phase = "renamed" /\ logs' = [logs EXCEPT ![num + 1] = LogOf(num + 1)] /\ Running
        /\ UNCHANGED <<snaps, now, fork>> /\ phase' \in {"idle", "del", "closed"}
    BY DEF OpenNextLog, Acknowledge, Release, Running
  <1>2. IsNewest(num) /\ num \in Gen /\ \A n \in Gen : IsNewest(n) => n = num
    BY <1>1, Newest DEF DiskInvariant, NumberInv
  <1>3. logs[num + 1] = Nil /\ num + 1 \in Gen /\ num + 1 # num
    BY <1>1, <1>2, RecoveredSuperseded, GenBounds DEF DiskInvariant
  <1>4. logs'[num + 1] = EmptyLog /\ \A m \in Gen : m # num + 1 => logs'[m] = logs[m]
    BY <1>1, <1>3 DEF LogOf, TypeInv, TypeOK
  <1>5. \A n \in Gen : IsNewest(n)' <=> IsNewest(n)
    BY <1>1 DEF IsNewest
  <1>6. ASSUME NEW n \in Gen, IsNewest(n), n > 0
        PROVE  Recovered(n)' = Recovered(n) /\ Previous(n)' = Previous(n)
    <2>1. n = num /\ n - 1 \in Gen
      BY <1>2, <1>6, NewestBelow
    <2>2. \A m \in Gen : Base(m)' = Base(m) /\ Base(m) \in Image
      BY <1>1, BaseType DEF Base, TypeInv
    <2>3. \A img \in Image : Replayed1(img, n + 1) = img /\ ReplayInto(img, EmptyLog) = img
      BY <1>3, <2>1, EmptyLogReplay DEF Replayed1
    <2>4. EmptyLog # Nil /\ logs'[n + 1] = EmptyLog
      BY <1>4, <2>1, EmptyLogType, NilNoData
    <2>5. Recovered(n) = Base(n) /\ Recovered(n)' = ReplayInto(Base(n), EmptyLog)
      BY <1>3, <2>1, <2>2, <2>3, <2>4 DEF Recovered, Replayed1
    <2>6. Replayed1(Base(n - 1), n)' = Replayed1(Base(n - 1), n) /\ Replayed1(Base(n - 1), n) \in Image
      BY <1>3, <1>4, <2>1, <2>2, Replayed1Type DEF Replayed1, TypeInv
    <2>7. Previous(n) = Replayed1(Base(n - 1), n)
      BY <2>3, <2>6 DEF Previous
    <2>8. Previous(n)' = ReplayInto(Replayed1(Base(n - 1), n)', EmptyLog)
      BY <1>3, <2>1, <2>4 DEF Previous, Replayed1
    <2> QED BY <2>2, <2>3, <2>5, <2>6, <2>7, <2>8
  <1>7. EmptyLog.seen = EmptyLog.eff
    BY DEF EmptyLog
  <1> QED BY <1>1, <1>2, <1>4, <1>5, <1>6, <1>7 DEF FallbackInv, ForkInv, PreviousInv, Same

(* The collector takes nothing that the two newest generations are read from. *)
LEMMA CollectorFallback ==
  ASSUME TypeInv, DiskInvariant, FallbackInv, NEW g \in Gen, GcSnapshot(g) \/ GcLog(g)
  PROVE  FallbackInv'
  <1>1. /\ UNCHANGED store /\ UNCHANGED now /\ UNCHANGED history
        /\ Running /\ num \in Gen /\ num - 1 \in Gen /\ num > 0 /\ g < num - 1
        /\ GcSnapshot(g) => g + 1 < num - 1
        /\ \A n \in Gen : IsNewest(n) => n = num - 1 \/ n = num
        /\ \A n \in Gen : n # g => snaps'[n] = snaps[n] /\ logs'[n] = logs[n]
        /\ GcLog(g) => snaps'[g] = snaps[g]
        /\ \A n \in Gen : IsNewest(n)' <=> IsNewest(n)
    BY CollectorBelow
  <1>2. ASSUME NEW n \in Gen, n = num - 1 \/ n = num, n > 0
        PROVE  /\ n - 1 \in Gen /\ snaps'[n - 1] = snaps[n - 1]
               /\ Recovered(n)' = Recovered(n) /\ Previous(n)' = Previous(n)
               /\ n + 1 \in Gen => logs'[n + 1] = logs[n + 1]
    <2>1. n - 1 \in Gen /\ snaps'[n - 1] = snaps[n - 1]
      BY <1>1, <1>2, GenBounds
    <2>2. snaps'[n] = snaps[n] /\ logs'[n] = logs[n] /\ (n + 1 \in Gen => logs'[n + 1] = logs[n + 1])
      BY <1>1, <1>2, GenBounds
    <2> QED BY <2>1, <2>2 DEF Recovered, Previous, Replayed1, Base
  <1>3. ForkInv'
    <2> SUFFICES ASSUME NEW n \in Gen, IsNewest(n), n > 0, NEW k \in Keys \ fork
                 PROVE  /\ Same(Previous(n)[k], Recovered(n)[k])
                        /\ logs[n + 1] # Nil => logs[n + 1].seen[k] = logs[n + 1].eff[k]
                        /\ phase = "append" /\ IsPending(k) /\ pend.why = {} /\ why[k] = {}
                              /\ pend.rec.cmd \notin {"SET", "DEL"} =>
                             Previous(n)[k] = Recovered(n)[k]
      BY <1>1, <1>2, NewestBelow DEF ForkInv, Same, IsPending, store, history
    <2> QED BY DEF FallbackInv, ForkInv
  <1>4. PreviousInv'
    <2>1. \A n \in Gen : IsNewest(n)' /\ n > 1 => snaps'[n - 1] # Nil
      BY <1>1, <1>2, GenBounds DEF FallbackInv, PreviousInv
    <2>2. Recovered(num - 1)' = Recovered(num - 1) /\ snaps'[num] = snaps[num]
      <3>1. num' = num /\ (num - 1) + 1 = num /\ num \in Nat
        BY <1>1, GenBounds DEF store
      <3>2. num # g /\ num - 1 # g
        BY <1>1, GenBounds
      <3>3. \A n \in Gen : n # g /\ n + 1 # g => Recovered(n)' = Recovered(n)
        BY <1>1 DEF Recovered, Replayed1, Base
      <3> QED BY <1>1, <3>1, <3>2, <3>3
    <2> QED BY <1>1, <2>1, <2>2 DEF FallbackInv, PreviousInv, Same, store, history
  <1> QED BY <1>3, <1>4 DEF FallbackInv

(* Time passes: what the generations restore alike, they go on so restoring. *)
LEMMA TickFallback ==
  ASSUME TypeInv, TypeInv', DiskInvariant, FallbackInv, Tick
  PROVE  FallbackInv'
  <1>1. /\ UNCHANGED store /\ UNCHANGED files /\ UNCHANGED history
        /\ now \in 0 .. MaxTime /\ now' \in 0 .. MaxTime /\ now <= now'
    BY TimeAssumption DEF Tick, TypeInv, TypeOK
  <1>2. \A n \in Gen : /\ Recovered(n)' = Recovered(n) /\ Previous(n)' = Previous(n)
                       /\ IsNewest(n)' <=> IsNewest(n)
    BY <1>1, SameFiles, SamePrevious
  <1>3. \A s, u \in Slot : LiveAt(s, now) = LiveAt(u, now) => LiveAt(s, now') = LiveAt(u, now')
    BY <1>1, TimeAssumption, LiveLater
  <1>4. UNCHANGED <<phase, mem, num, pend, why, fork, snaps, logs>>
    BY <1>1 DEF store, files, history
  <1>5. ForkInv'
    <2> SUFFICES ASSUME NEW n \in Gen, IsNewest(n), n > 0, NEW k \in Keys \ fork
                 PROVE  /\ LiveAt(Previous(n)[k], now') = LiveAt(Recovered(n)[k], now')
                        /\ logs[n + 1] # Nil => logs[n + 1].seen[k] = logs[n + 1].eff[k]
                        /\ phase = "append" /\ IsPending(k) /\ pend.why = {} /\ why[k] = {}
                              /\ pend.rec.cmd \notin {"SET", "DEL"} =>
                             Previous(n)[k] = Recovered(n)[k]
      BY <1>2, <1>4 DEF ForkInv, Same, IsPending
    <2>1. Previous(n)[k] \in Slot /\ Recovered(n)[k] \in Slot
      BY PreviousType, RecoveredType DEF TypeInv, Image
    <2>2. Same(Previous(n)[k], Recovered(n)[k])
      BY DEF FallbackInv, ForkInv
    <2>3. LiveAt(Previous(n)[k], now') = LiveAt(Recovered(n)[k], now')
      BY <1>3, <2>1, <2>2 DEF Same
    <2> QED BY <2>3 DEF FallbackInv, ForkInv
  <1>6. PreviousInv'
    <2>1. \A n \in Gen : IsNewest(n)' /\ n > 1 => snaps'[n - 1] # Nil
      BY <1>2, <1>4 DEF FallbackInv, PreviousInv
    <2>2. ASSUME phase = "snap", pend # Nil, snaps[num] = Nil, why[pend.rec.key] \cup pend.why = {}
          PROVE  LiveAt(mem[pend.rec.key], now') = LiveAt(Recovered(num - 1)[pend.rec.key], now')
      <3>1. num - 1 \in Gen /\ pend.rec.key \in Keys
        BY <2>2, Newest, PendTypes DEF DiskInvariant, TypeInv, Running
      <3>2. mem[pend.rec.key] \in Slot /\ Recovered(num - 1)[pend.rec.key] \in Slot
        BY <3>1, RecoveredType DEF TypeInv, TypeOK, Image
      <3>3. Same(mem[pend.rec.key], Recovered(num - 1)[pend.rec.key])
        BY <2>2 DEF FallbackInv, PreviousInv
      <3> QED BY <1>3, <3>2, <3>3 DEF Same
    <2>3. phase = "snap" => num - 1 \in Gen
      BY Newest DEF DiskInvariant, Running
    <2>4. phase = "snap" => Recovered(num - 1)' = Recovered(num - 1)
      BY <1>2, <1>4, <2>3
    <2> QED BY <1>4, <2>1, <2>2, <2>4 DEF FallbackInv, PreviousInv, Same
  <1> QED BY <1>5, <1>6 DEF FallbackInv
---------------------------------------------------------------------------
LEMMA InitFallback == Init => FallbackInv
  <1> SUFFICES ASSUME Init PROVE FallbackInv
    OBVIOUS
  <1>1. \A n \in Gen : IsNewest(n) => ~(n > 0)
    BY GenBounds DEF Init, IsNewest
  <1>2. ForkInv
    BY <1>1 DEF ForkInv
  <1>3. PreviousInv
    BY <1>1, GenBounds DEF Init, PreviousInv
  <1> QED BY <1>2, <1>3 DEF FallbackInv

LEMMA StepFallback ==
  ASSUME TypeInv, TypeInv', DiskInvariant, FallbackInv, [Next]_vars
  PROVE  FallbackInv'
  <1>1. CASE \/ \E k \in Keys, v \in Values, f \in SetFlag, x \in Expiry :
                 Set(k, v, f, x) \/ SetVector(k, v, f, x) \/ SetField(k, v, f, x)
             \/ \E k \in Keys, v \in Values :
                 PutVector(k, v) \/ AttachVector(k, v) \/ Incr(k, v) \/ IncrField(k, v) \/ DelField(k, v)
             \/ \E k \in Keys : DelKey(k)
    BY <1>1, SettingFallback
  <1>2. CASE \/ \E k \in Keys, x \in Stamp : Expire(k, x) \/ ExpireAt(k, x)
             \/ \E k \in Keys : Persist(k)
    BY <1>2, RetimingFallback
  <1>3. CASE \/ \E n \in Gen : StartLoad(n)
             \/ ReplaySnapshot \/ ReplayLog \/ ReplayDone \/ ReadFails
             \/ \E k \in Keys, v \in Values : DropVector(k, v)
             \/ \E ks \in SUBSET Keys : Del(ks)
             \/ \E k \in Keys : GetRead(k)
             \/ \E k \in Keys, x \in Stamp : GetReturn(k, x) \/ GetRemove(k, x)
             \/ \E t \in 0 .. MaxTime : CleanExpired(t)
             \/ CompactFails \/ Close \/ UNCHANGED vars
    BY <1>3, OtherFallback
  <1>4. CASE (\E over \in BOOLEAN : AppendRecord(over)) \/ AppendFails \/ Crash
    BY <1>4, AppendRecordFallback, AppendFailsFallback, CrashFallback
  <1>5. CASE WriteSnapshot \/ OpenNextLog \/ (\E n \in Gen : GcSnapshot(n) \/ GcLog(n)) \/ Tick
    BY <1>5, SnapshotFallback, NextLogFallback, CollectorFallback, TickFallback
  <1> QED BY <1>1, <1>2, <1>3, <1>4, <1>5 DEF Next

(* Where files can be read, whatever fails or tears and wherever the process *)
(* stops: the generation before the newest is there, and a replay from it    *)
(* ends with the same keys, but for those a reason is recorded against or a  *)
(* lost or superseded record has made the two differ on.                     *)
THEOREM FallbackKept ==
  ASSUME "read" \notin Faults
  PROVE  Spec => []FallbackComplete
  <1>1. Init => FallbackInv
    BY InitFallback
  <1>2. TypeInv /\ TypeInv' /\ DiskInvariant /\ FallbackInv /\ [Next]_vars => FallbackInv'
    BY StepFallback
  <1>3. TypeInv /\ FallbackInv => FallbackComplete
    <2> SUFFICES ASSUME TypeInv, FallbackInv, NEW n \in Gen, IsNewest(n), n > 1
                 PROVE  /\ snaps[n - 1] # Nil
                        /\ logs[n] # Nil =>
                             \A k \in Keys : why[k] = {} /\ k \notin fork =>
                               LiveAt(Fallback(n)[k], now) = LiveAt(Recovered(n)[k], now)
      BY DEF FallbackComplete
    <2>1. logs[n] # Nil => Fallback(n) = Previous(n)
      BY DEF Fallback, Previous
    <2>2. n > 0 /\ n \in Gen
      BY GenBounds
    <2> QED BY <2>1, <2>2 DEF FallbackInv, ForkInv, PreviousInv, Same
  <1> QED BY <1>1, <1>2, <1>3, AlwaysDisk, PTL DEF Spec
============================================================================
