--------------------------- MODULE DbTypeProofs ---------------------------
(* Lemmas about the data of Entries, then theorems about one database that   *)
(* hold whatever fails: the types, and that a directory that could not be    *)
(* read is left as it is.                                                    *)
EXTENDS DbInvariant, TLAPS

(* Entries, records and effects: types, and what the normal form of a log    *)
(* says about replaying its lines one by one.                                *)

LEMMA RestampedType ==
  ASSUME NEW s \in Slot, NEW x \in Expiry
  PROVE  Restamped(s, x) \in Slot
  BY NilNoEntry DEF Restamped, Slot, Entry

LEMMA RecordExpiry ==
  ASSUME NEW r \in Record
  PROVE  r.exp \in Expiry
  BY DEF Record, Expiry

LEMMA ReplayedType ==
  ASSUME NEW r \in Record, NEW s \in Slot
  PROVE  Replayed(r, s) \in Slot
  <1>1. CASE r.cmd = "SET"
    BY <1>1 DEF Replayed, Record, Slot, Entry
  <1>2. CASE r.cmd = "DEL"
    BY <1>2 DEF Replayed, Slot
  <1>3. CASE r.cmd \in {"EXPIRE", "EXPIREAT"}
    BY <1>3, RecordExpiry, RestampedType DEF Replayed
  <1>4. CASE r.cmd = "PERSIST"
    <2>1. Nil \in Expiry
      BY DEF Expiry
    <2> QED BY <1>4, <2>1, RestampedType DEF Replayed
  <1> QED BY <1>1, <1>2, <1>3, <1>4 DEF Record

LEMMA LiveAtType ==
  ASSUME NEW s \in Slot, NEW t
  PROVE  LiveAt(s, t) \in Slot
  BY DEF LiveAt, Slot

LEMMA EffectCases ==
  ASSUME NEW f \in Effect
  PROVE  \/ f = Keep
         \/ f.op = "put" /\ f.slot \in Slot /\ f = Put(f.slot)
         \/ f.op = "stamp" /\ f.exp \in Expiry /\ f = Stamping(f.exp)
  BY DEF Effect, Keep, Put, Stamping

LEMMA PutEffect ==
  ASSUME NEW s \in Slot
  PROVE  Put(s) \in Effect
  BY DEF Effect

LEMMA StampingEffect ==
  ASSUME NEW x \in Expiry
  PROVE  Stamping(x) \in Effect
  BY DEF Effect

LEMMA ApplyType ==
  ASSUME NEW f \in Effect, NEW s \in Slot
  PROVE  Apply(f, s) \in Slot
  <1>1. CASE f = Keep
    BY <1>1 DEF Apply, Keep
  <1>2. CASE f.op = "put" /\ f.slot \in Slot
    BY <1>2 DEF Apply
  <1>3. CASE f.op = "stamp" /\ f.exp \in Expiry
    BY <1>3, RestampedType DEF Apply
  <1> QED BY <1>1, <1>2, <1>3, EffectCases

LEMMA ThenType ==
  ASSUME NEW f \in Effect, NEW r \in Record
  PROVE  Then(f, r) \in Effect
  <1>1. CASE r.cmd = "SET"
    <2>1. [val |-> r.val, exp |-> r.exp] \in Slot
      BY <1>1 DEF Record, Slot, Entry
    <2> QED BY <1>1, <2>1, PutEffect DEF Then
  <1>2. CASE r.cmd = "DEL"
    <2>1. Nil \in Slot
      BY DEF Slot
    <2> QED BY <1>2, <2>1, PutEffect DEF Then
  <1>3. CASE r.cmd \in {"EXPIRE", "EXPIREAT", "PERSIST"}
    <2>1. CASE f.op = "put"
      <3>1. f.slot \in Slot
        BY <2>1, EffectCases DEF Keep
      <3>2. Put(Restamped(f.slot, r.exp)) \in Effect
        BY <3>1, RecordExpiry, RestampedType, PutEffect
      <3> QED BY <1>3, <2>1, <3>2 DEF Then
    <2>2. CASE f.op # "put"
      BY <1>3, <2>2, RecordExpiry, StampingEffect DEF Then
    <2> QED BY <2>1, <2>2
  <1> QED BY <1>1, <1>2, <1>3 DEF Record
---------------------------------------------------------------------------
(* The normal form is faithful: appending a record to a log and replaying it *)
(* is replaying the log, then the record (replayInto reads line by line).    *)
THEOREM ThenReplays ==
  ASSUME NEW f \in Effect, NEW r \in Record, NEW s \in Slot
  PROVE  Apply(Then(f, r), s) = Replayed(r, Apply(f, s))
  <1>1. CASE r.cmd = "SET"
    BY <1>1 DEF Then, Apply, Put, Replayed
  <1>2. CASE r.cmd = "DEL"
    BY <1>2 DEF Then, Apply, Put, Replayed
  <1>3. CASE r.cmd \in {"EXPIRE", "EXPIREAT", "PERSIST"}
    <2>1. \A t : Replayed(r, t) = Restamped(t, r.exp)
      BY <1>3 DEF Replayed, Record
    <2>2. CASE f.op = "put"
      BY <1>3, <2>1, <2>2 DEF Then, Apply, Put
    <2>3. CASE f = Keep
      BY <1>3, <2>1, <2>3 DEF Then, Apply, Keep, Stamping
    <2>4. CASE f.op = "stamp" /\ f.exp \in Expiry
      <3>1. Apply(f, s) = Restamped(s, f.exp)
        BY <2>4 DEF Apply
      <3>2. Restamped(Restamped(s, f.exp), r.exp) = Restamped(s, r.exp)
        BY NilNoEntry, RecordExpiry, <2>4 DEF Restamped, Slot, Entry
      <3>3. Apply(Then(f, r), s) = Restamped(s, r.exp)
        BY <1>3, <2>4 DEF Then, Apply, Stamping
      <3> QED BY <2>1, <3>1, <3>2, <3>3
    <2> QED BY <2>2, <2>3, <2>4, EffectCases
  <1> QED BY <1>1, <1>2, <1>3 DEF Record

(* The clock only takes entries away: slots that agree for a reader now      *)
(* agree for every later reader (Get, cleanExpired and serialize all test    *)
(* *ExpireAt <= now).                                                        *)
THEOREM LiveLater ==
  ASSUME NEW s \in Slot, NEW u \in Slot, NEW t \in Nat, NEW d \in Nat,
         t <= d, LiveAt(s, t) = LiveAt(u, t)
  PROVE  LiveAt(s, d) = LiveAt(u, d)
  <1>1. \A w \in Slot : Expired(w, t) => Expired(w, d)
    BY NilAssumption, TimeAssumption DEF Expired, Slot, Entry, Expiry, Stamp
  <1>2. \A w \in Slot : LiveAt(LiveAt(w, t), d) = LiveAt(w, d)
    BY <1>1 DEF LiveAt, Expired
  <1> QED BY <1>2
---------------------------------------------------------------------------
(* Log files stay log files, and images images.                              *)
LEMMA EmptyLogType == EmptyLog \in LogFile
  BY DEF EmptyLog, LogFile, Effect

LEMMA WithLineType ==
  ASSUME NEW f \in [Keys -> Effect], NEW r \in Record
  PROVE  /\ WithLine(f, r) \in [Keys -> Effect]
         /\ WithLine(f, r)[r.key] = Then(f[r.key], r)
         /\ \A k \in Keys : k # r.key => WithLine(f, r)[k] = f[k]
  <1>1. r.key \in Keys
    BY DEF Record
  <1> QED BY <1>1, ThenType DEF WithLine

LEMMA AppendedType ==
  ASSUME NEW l \in LogFile, NEW r \in Record
  PROVE  /\ Appended(l, r) \in LogFile
         /\ \A whole \in BOOLEAN : AppendedPart(l, r, whole) \in LogFile
  BY WithLineType DEF Appended, AppendedPart, LogFile

LEMMA ReplayIntoType ==
  ASSUME NEW img \in Image, NEW l \in LogFile
  PROVE  ReplayInto(img, l) \in Image
  BY ApplyType DEF ReplayInto, Image, LogFile

LEMMA EmptyImageType == EmptyImage \in Image
  BY DEF EmptyImage, Image, Slot
---------------------------------------------------------------------------
(* The database. *)

LEMMA EntryIsSlot ==
  ASSUME NEW v \in Values, NEW x \in Expiry
  PROVE  [val |-> v, exp |-> x] \in Slot
  BY DEF Slot, Entry

LEMMA RecordTypes ==
  ASSUME NEW k \in Keys
  PROVE  /\ \A v \in Values, x \in Expiry : SetRecord(k, v, x) \in Record
         /\ \A x \in Expiry : ExpireRecord("EXPIRE", k, x) \in Record
         /\ \A x \in Expiry : ExpireRecord("EXPIREAT", k, x) \in Record
         /\ PersistRecord(k) \in Record /\ DelRecord(k) \in Record
  BY DEF SetRecord, ExpireRecord, PersistRecord, DelRecord, Record

(* What staging a record gives. *)
LEMMA StageType ==
  ASSUME NEW r \in Record, NEW w \in SUBSET Reason, Stage(r, w)
  PROVE  pend' \in Staged /\ phase' = "append"
  BY DEF Stage, Staged

LEMMA BaseType ==
  ASSUME NEW n \in Gen, TypeOK
  PROVE  Base(n) \in Image
  BY EmptyImageType DEF Base, TypeOK

LEMMA LogOfType ==
  ASSUME NEW n \in Gen, TypeOK
  PROVE  LogOf(n) \in LogFile
  BY EmptyLogType DEF LogOf, TypeOK

LEMMA Replayed1Type ==
  ASSUME NEW img \in Image, NEW n, TypeOK
  PROVE  Replayed1(img, n) \in Image
  BY ReplayIntoType DEF Replayed1, TypeOK

(* What changes when one slot of the map does. *)
LEMMA MemUpdate ==
  ASSUME mem \in Image, NEW k \in Keys, NEW s \in Slot
  PROVE  [mem EXCEPT ![k] = s] \in Image
  BY DEF Image

LEMMA EntryUpdate ==
  ASSUME mem \in Image, NEW k \in Keys, mem[k] # Nil
  PROVE  /\ mem[k].val \in Values /\ mem[k].exp \in Expiry
         /\ mem[k] = [val |-> mem[k].val, exp |-> mem[k].exp]
         /\ \A v \in Values : [mem EXCEPT ![k].val = v] \in Image
         /\ \A x \in Expiry : [mem EXCEPT ![k].exp = x] \in Image
  BY DEF Image, Slot, Entry
---------------------------------------------------------------------------
LEMMA InitTyped == Init => TypeInv
  <1> SUFFICES ASSUME Init PROVE TypeInv
    OBVIOUS
  <1>1. MaxGen \in Gen /\ 0 \in Gen /\ 0 < MaxGen /\ 0 \in 0 .. MaxTime
    BY BoundsAssumption, TimeAssumption DEF Gen
  <1>2. mem \in Image /\ served \in Image
    BY EmptyImageType DEF Init
  <1>3. /\ snaps \in [Gen -> Image \cup {Nil}] /\ logs \in [Gen -> LogFile \cup {Nil}]
        /\ why \in [Keys -> SUBSET Reason]
    BY DEF Init
  <1>4. TypeOK
    BY <1>1, <1>2, <1>3 DEF Init, TypeOK
  <1> QED BY <1>1, <1>4 DEF Init, TypeInv

(* Loading: the cursor stays within the generations the files have. *)
LEMMA LoadTyped ==
  ASSUME TypeInv, \/ \E n \in Gen : StartLoad(n)
                  \/ ReplaySnapshot \/ ReplayLog \/ ReplayDone \/ ReadFails
  PROVE  TypeInv'
  <1>0. MaxGen \in Nat /\ MaxGen > 0 /\ Gen = 0 .. MaxGen
    BY BoundsAssumption DEF Gen
  <1>1. ASSUME NEW n \in Gen, StartLoad(n) PROVE TypeInv'
    <2>1. snaps[MaxGen] = Nil /\ n < MaxGen
      BY <1>0, <1>1 DEF StartLoad, IsNewest, TypeInv, TypeOK, Loading
    <2>2. cur' \in Cursor
      BY <1>0, <1>1, EmptyImageType DEF StartLoad, LoadGeneration, Cursor, TypeInv, TypeOK, Loading
    <2> QED BY <1>0, <1>1, <2>1, <2>2, NilNoData DEF StartLoad, LoadGeneration, TypeInv, TypeOK, Loading
  <1>2. ASSUME ReplaySnapshot PROVE TypeInv'
    <2>1. cur \in Cursor /\ cur.gen \in Gen /\ cur.next \in 0 .. MaxGen + 1 /\ cur.gen < MaxGen
      BY <1>2 DEF ReplaySnapshot, Cursor, TypeInv, TypeOK, Loading
    <2>2. Base(cur.gen) \in Image
      BY <2>1, BaseType DEF TypeInv
    <2>3. cur' \in Cursor /\ cur'.gen = cur.gen /\ cur'.next = cur.gen + 1
      <3>1. cur.gen + 1 \in 0 .. MaxGen + 1
        BY <1>0, <2>1
      <3>2. cur' = [cur EXCEPT !.next = cur.gen + 1, !.data = Base(cur.gen)]
        BY <1>2 DEF ReplaySnapshot
      <3> QED BY <2>1, <2>2, <3>1, <3>2 DEF Cursor
    <2> QED BY <1>0, <1>2, <2>1, <2>3, NilNoData DEF ReplaySnapshot, TypeInv, TypeOK, Loading
  <1>3. ASSUME ReplayLog PROVE TypeInv'
    <2>1. /\ cur \in Cursor /\ cur.gen \in Gen /\ cur.next \in Gen /\ cur.gen < MaxGen
          /\ cur.data \in Image /\ logs[cur.next] \in LogFile /\ cur.gen < cur.next
      BY <1>0, <1>3 DEF ReplayLog, Cursor, TypeInv, TypeOK, Loading
    <2>2. ReplayInto(cur.data, logs[cur.next]) \in Image
      BY <2>1, ReplayIntoType
    <2>3. cur' \in Cursor /\ cur'.gen = cur.gen /\ cur'.next = cur.next + 1
      <3>1. cur.next + 1 \in 0 .. MaxGen + 1
        BY <1>0, <2>1
      <3>2. cur' = [cur EXCEPT !.next = cur.next + 1, !.data = ReplayInto(cur.data, logs[cur.next])]
        BY <1>3 DEF ReplayLog
      <3> QED BY <2>1, <2>2, <3>1, <3>2 DEF Cursor
    <2>4. cur'.gen < MaxGen /\ cur'.gen <= cur'.next /\ cur' # Nil
      BY <1>0, <2>1, <2>3, NilNoData
    <2> QED BY <1>3, <2>1, <2>3, <2>4, NilNoData DEF ReplayLog, TypeInv, TypeOK, Loading
  <1>4. ASSUME ReplayDone PROVE TypeInv'
    <2>1. /\ cur.gen \in Gen /\ cur.next \in 0 .. MaxGen + 1 /\ cur.gen < MaxGen
          /\ cur.gen < cur.next /\ cur.data \in Image
      BY <1>0, <1>4 DEF ReplayDone, Cursor, TypeInv, TypeOK, Loading
    <2>2. num' \in Gen
      BY <1>0, <1>4, <2>1 DEF ReplayDone, LastLog, Loaded, TypeInv, TypeOK, Loading
    <2>3. /\ phase' = "idle" /\ cur' = Nil /\ mem' \in Image /\ served' \in Image
          /\ loadErr' \in BOOLEAN /\ why' \in [Keys -> SUBSET Reason]
      BY <1>4, <2>1, EmptyImageType DEF ReplayDone, Loaded, TypeInv, TypeOK, Loading
    <2> QED BY <1>4, <2>2, <2>3 DEF ReplayDone, Loaded, TypeInv, TypeOK, Loading
  <1>5. ASSUME ReadFails PROVE TypeInv'
    <2>1. cur \in Cursor /\ cur.gen \in Gen /\ cur.gen < MaxGen
      BY <1>5 DEF ReadFails, Cursor, TypeInv, TypeOK, Loading
    <2>2. ASSUME NEW m \in Gen, m < cur.gen, LoadGeneration(m),
                 Loading(<<phase, mem, num, due, loadErr, why, served>>)
          PROVE  TypeInv'
      <3>1. cur' \in Cursor /\ cur'.gen < MaxGen /\ cur'.gen <= cur'.next
        BY <1>0, <2>1, <2>2, EmptyImageType DEF LoadGeneration, Cursor, TypeInv, TypeOK, Loading
      <3> QED BY <1>0, <1>5, <2>2, <3>1, NilNoData DEF ReadFails, TypeInv, TypeOK, Loading
    <2>3. ASSUME Loaded(EmptyImage, 0, TRUE) PROVE TypeInv'
      BY <1>0, <1>5, <2>3, EmptyImageType DEF ReadFails, Loaded, TypeInv, TypeOK, Loading
    <2> QED BY <1>5, <2>2, <2>3 DEF ReadFails, TypeInv, TypeOK, Loading
  <1> QED BY <1>1, <1>2, <1>3, <1>4, <1>5

(* A step that only stages a mutation. *)
LEMMA StagedTyped ==
  ASSUME TypeInv, mem' \in Image, pend' \in Staged, phase' = "append", phase \in {"idle", "del"},
         pend'.job => pend'.rec.cmd = "SET",
         todo' \in SUBSET Keys, jobs' \in SUBSET (Keys \X Values),
         gets' \in SUBSET (Keys \X Stamp),
         UNCHANGED <<num, due, loadErr, gcKeep, cur, now>>, UNCHANGED files, UNCHANGED history
  PROVE  TypeInv'
  BY NilNoData DEF TypeInv, TypeOK, files, history

(* Set, SetVector, SetField: the key gets an entry made of the arguments. *)
LEMMA SettingTyped ==
  ASSUME TypeInv, NEW k \in Keys, NEW v \in Values, NEW f \in SetFlag, NEW x \in Expiry,
         Set(k, v, f, x) \/ SetVector(k, v, f, x) \/ SetField(k, v, f, x)
  PROVE  TypeInv'
  <1>1. mem \in Image /\ jobs \in SUBSET (Keys \X Values)
    BY DEF TypeInv, TypeOK
  <1>2. SetRecord(k, v, x) \in Record /\ SetRecord(k, v, x).cmd = "SET"
    BY RecordTypes DEF SetRecord
  <1>3. {} \in SUBSET Reason /\ {"ttl"} \in SUBSET Reason
    BY DEF Reason
  <1>4. CASE Set(k, v, f, x)
    <2>1. mem' \in Image
      BY <1>1, <1>4, EntryIsSlot, MemUpdate DEF Set
    <2>2. pend' \in Staged /\ phase' = "append" /\ pend'.job = FALSE
      BY <1>2, <1>3, <1>4 DEF Set, Stage, Staged
    <2> QED BY <1>4, <2>1, <2>2, StagedTyped DEF Set, Mutating, TypeInv, TypeOK
  <1>5. CASE SetVector(k, v, f, x)
    <2>1. mem' \in Image
      BY <1>1, <1>5, EntryIsSlot, MemUpdate DEF SetVector
    <2>2. pend' \in Staged /\ phase' = "append" /\ pend'.rec.cmd = "SET"
      BY <1>2, <1>3, <1>5 DEF SetVector, Staged
    <2> QED BY <1>5, <2>1, <2>2, StagedTyped DEF SetVector, Mutating, TypeInv, TypeOK
  <1>6. CASE SetField(k, v, f, x)
    <2> DEFINE kept == IF mem[k] # Nil /\ x = Nil THEN mem[k].exp ELSE x
    <2>1. kept \in Expiry
      BY <1>1, EntryUpdate
    <2>2. mem' \in Image
      <3>1. mem' = [mem EXCEPT ![k] = [val |-> v, exp |-> kept]]
        BY <1>6 DEF SetField
      <3> HIDE DEF kept
      <3> QED BY <1>1, <2>1, <3>1, EntryIsSlot, MemUpdate
    <2>3. pend' \in Staged /\ phase' = "append" /\ pend'.job = FALSE
      BY <1>2, <1>3, <1>6 DEF SetField, Stage, Staged
    <2> QED BY <1>6, <2>2, <2>3, StagedTyped DEF SetField, Mutating, TypeInv, TypeOK
  <1> QED BY <1>4, <1>5, <1>6

LEMMA PutVectorTyped ==
  ASSUME TypeInv, NEW k \in Keys, NEW v \in Values, PutVector(k, v)
  PROVE  TypeInv'
  <1> DEFINE kept == IF mem[k] # Nil THEN mem[k].exp ELSE Nil
  <1>1. mem \in Image /\ jobs \in SUBSET (Keys \X Values)
    BY DEF TypeInv, TypeOK
  <1>2. kept \in Expiry
    BY <1>1, EntryUpdate DEF Expiry
  <1>3. mem' = [mem EXCEPT ![k] = [val |-> v, exp |-> kept]]
    BY DEF PutVector
  <1>4. pend' \in Staged /\ phase' = "append" /\ pend'.job = FALSE
    <2>1. SetRecord(k, v, Nil) \in Record
      BY RecordTypes DEF Expiry
    <2> QED BY <2>1 DEF PutVector, Stage, Staged, Reason
  <1>5. phase = "idle" /\ UNCHANGED <<num, due, loadErr, todo, gets, gcKeep, cur, now, jobs>>
        /\ UNCHANGED files /\ UNCHANGED history
    BY DEF PutVector, Mutating
  <1> HIDE DEF kept
  <1>6. mem' \in Image
    BY <1>1, <1>2, <1>3, EntryIsSlot, MemUpdate
  <1> QED BY <1>1, <1>4, <1>5, <1>6, StagedTyped DEF TypeInv, TypeOK

(* Incr, IncrField, DelField and the vector job: the old expiry is logged. *)
LEMMA RewritingTyped ==
  ASSUME TypeInv, NEW k \in Keys, NEW v \in Values,
         Incr(k, v) \/ IncrField(k, v) \/ DelField(k, v) \/ AttachVector(k, v)
  PROVE  TypeInv'
  <1>1. mem \in Image /\ jobs \in SUBSET (Keys \X Values) /\ mem[k] # Nil
    BY DEF TypeInv, TypeOK, Incr, IncrField, DelField, AttachVector
  <1>2. mem[k].exp \in Expiry
    BY <1>1, EntryUpdate
  <1>3. mem' \in Image
    BY <1>1, EntryUpdate DEF Incr, IncrField, DelField, AttachVector, Rewrite
  <1>4. SetRecord(k, v, mem[k].exp) \in Record
    BY <1>2, RecordTypes
  <1>5. pend' \in Staged /\ phase' = "append" /\ pend'.job = FALSE
    <2>1. Stage(SetRecord(k, v, mem[k].exp), {})
      BY DEF Incr, IncrField, DelField, AttachVector, Rewrite
    <2> QED BY <1>4, <2>1 DEF Stage, Staged
  <1>6. jobs' \in SUBSET (Keys \X Values)
    BY <1>1 DEF Incr, IncrField, DelField, AttachVector, Rewrite
  <1>7. phase = "idle" /\ UNCHANGED <<num, due, loadErr, todo, gets, gcKeep, cur, now>>
        /\ UNCHANGED files /\ UNCHANGED history
    BY DEF Incr, IncrField, DelField, AttachVector, Mutating
  <1> QED BY <1>3, <1>5, <1>6, <1>7, StagedTyped DEF TypeInv, TypeOK

(* Expire, ExpireAt and Persist: the entry gets the expiry of the record. *)
LEMMA RetimeTyped ==
  ASSUME TypeInv, NEW k \in Keys, NEW r \in Record, Retime(k, r), phase = "idle",
         UNCHANGED <<num, due, loadErr, todo, gets, gcKeep, cur, now>>,
         UNCHANGED files, UNCHANGED history
  PROVE  TypeInv'
  <1>1. mem \in Image /\ mem[k] # Nil
    BY DEF TypeInv, TypeOK, Retime
  <1>2. mem' \in Image
    BY <1>1, RecordExpiry, EntryUpdate DEF Retime
  <1>3. pend' \in Staged /\ phase' = "append" /\ pend'.job = FALSE
    BY DEF Retime, Stage, Staged, Reason
  <1> QED BY <1>2, <1>3, StagedTyped DEF Retime, TypeInv, TypeOK

LEMMA RetimingTyped ==
  ASSUME TypeInv, NEW k \in Keys, NEW x \in Stamp, Expire(k, x) \/ ExpireAt(k, x)
  PROVE  TypeInv'
  <1>1. CASE Expire(k, x)
    <2>1. now + x \in Expiry
      BY <1>1 DEF Expire, Expiry
    <2>2. ExpireRecord("EXPIRE", k, now + x) \in Record
      BY <2>1, RecordTypes
    <2> QED BY <1>1, <2>2, RetimeTyped DEF Expire, Mutating
  <1>2. CASE ExpireAt(k, x)
    <2>1. ExpireRecord("EXPIREAT", k, x) \in Record
      BY RecordTypes DEF Expiry
    <2> QED BY <1>2, <2>1, RetimeTyped DEF ExpireAt, Mutating
  <1> QED BY <1>1, <1>2

LEMMA PersistingTyped ==
  ASSUME TypeInv, NEW k \in Keys, Persist(k)
  PROVE  TypeInv'
  BY RecordTypes, RetimeTyped DEF Persist, Mutating

LEMMA DelKeyTyped ==
  ASSUME TypeInv, NEW k \in Keys, DelKey(k)
  PROVE  TypeInv'
  <1>1. mem' \in Image
    BY MemUpdate DEF DelKey, TypeInv, TypeOK, Slot
  <1>2. pend' \in Staged /\ phase' = "append" /\ pend'.job = FALSE
    BY RecordTypes DEF DelKey, Stage, Staged
  <1>3. todo' \in SUBSET Keys /\ gets' \in SUBSET (Keys \X Stamp) /\ jobs' \in SUBSET (Keys \X Values)
    BY DEF DelKey, GetsWithout, TypeInv, TypeOK
  <1> QED BY <1>1, <1>2, <1>3, StagedTyped DEF DelKey

(* Steps that stage nothing and leave the files alone. *)
LEMMA ReadingTyped ==
  ASSUME TypeInv, \/ \E k \in Keys, v \in Values : DropVector(k, v)
                  \/ \E ks \in SUBSET Keys : Del(ks)
                  \/ \E k \in Keys : GetRead(k)
                  \/ \E k \in Keys, x \in Stamp : GetReturn(k, x) \/ GetRemove(k, x)
                  \/ \E t \in 0 .. MaxTime : CleanExpired(t)
                  \/ Close \/ Tick \/ UNCHANGED vars
  PROVE  TypeInv'
  <1>1. ASSUME NEW k \in Keys, NEW v \in Values, DropVector(k, v) PROVE TypeInv'
    BY <1>1 DEF DropVector, TypeInv, TypeOK, files, history
  <1>2. ASSUME NEW ks \in SUBSET Keys, Del(ks) PROVE TypeInv'
    BY <1>2 DEF Del, TypeInv, TypeOK, files, history
  <1>3. ASSUME NEW k \in Keys, GetRead(k) PROVE TypeInv'
    <2>1. mem[k].exp \in Stamp
      BY <1>3, EntryUpdate DEF GetRead, TypeInv, TypeOK, Expiry
    <2>2. gets' \in SUBSET (Keys \X Stamp)
      BY <1>3, <2>1 DEF GetRead, TypeInv, TypeOK
    <2> QED BY <1>3, <2>2 DEF GetRead, TypeInv, TypeOK, files, history
  <1>4. ASSUME NEW k \in Keys, NEW x \in Stamp, GetReturn(k, x) PROVE TypeInv'
    BY <1>4 DEF GetReturn, TypeInv, TypeOK, files, history
  <1>5. ASSUME NEW k \in Keys, NEW x \in Stamp, GetRemove(k, x) PROVE TypeInv'
    <2>1. mem' \in Image
      BY <1>5, MemUpdate DEF GetRemove, TypeInv, TypeOK, Slot
    <2>2. gets' \in SUBSET (Keys \X Stamp)
      BY <1>5 DEF GetRemove, GetsWithout, TypeInv, TypeOK
    <2>3. why' \in [Keys -> SUBSET Reason]
      BY <1>5 DEF GetRemove, TypeInv, TypeOK, Reason
    <2> QED BY <1>5, <2>1, <2>2, <2>3 DEF GetRemove, TypeInv, TypeOK, files
  <1>6. ASSUME NEW t \in 0 .. MaxTime, CleanExpired(t) PROVE TypeInv'
    <2>1. mem' \in Image
      BY <1>6, LiveAtType DEF CleanExpired, TypeInv, TypeOK, Image
    <2>2. gets' \in SUBSET (Keys \X Stamp)
      BY <1>6 DEF CleanExpired, GetsWithout, TypeInv, TypeOK
    <2> QED BY <1>6, <2>1, <2>2 DEF CleanExpired, TypeInv, TypeOK, files, history
  <1>7. ASSUME Close PROVE TypeInv'
    BY <1>7 DEF Close, TypeInv, TypeOK, files, history
  <1>8. ASSUME Tick PROVE TypeInv'
    BY <1>8, TimeAssumption DEF Tick, TypeInv, TypeOK, store, files, history
  <1>9. ASSUME UNCHANGED vars PROVE TypeInv'
    BY <1>9 DEF vars, TypeInv, TypeOK
  <1> QED BY <1>1, <1>2, <1>3, <1>4, <1>5, <1>6, <1>7, <1>8, <1>9
---------------------------------------------------------------------------
(* The end of an operation, with an error or without. *)
LEMMA EndTyped ==
  ASSUME TypeInv, pend # Nil, Acknowledge \/ Refuse
  PROVE  /\ phase' \in {"idle", "del"} /\ pend' = Nil
         /\ jobs' \in SUBSET (Keys \X Values) /\ why' \in [Keys -> SUBSET Reason]
  <1>1. pend \in Staged /\ pend.rec \in Record /\ pend.rec.key \in Keys /\ pend.why \in SUBSET Reason
    BY DEF TypeInv, TypeOK, Staged, Record
  <1>2. \A k \in Keys : WhyNow(k) \in SUBSET Reason
    BY DEF WhyNow, Reason, TypeInv, TypeOK
  <1>3. CASE Acknowledge
    <2>1. pend.job => pend.rec.val \in Values
      BY <1>1 DEF TypeInv, Record
    <2>2. jobs' \in SUBSET (Keys \X Values)
      BY <1>1, <1>3, <2>1 DEF Acknowledge, TypeInv, TypeOK
    <2>3. why' \in [Keys -> SUBSET Reason]
      BY <1>1, <1>2, <1>3 DEF Acknowledge
    <2> QED BY <1>3, <2>2, <2>3 DEF Acknowledge, Release
  <1>4. CASE Refuse
    <2>1. {IF pend.rec.cmd = "DEL" THEN "swallowed" ELSE "unacked"} \in SUBSET Reason
      BY DEF Reason
    <2>2. why' \in [Keys -> SUBSET Reason]
      BY <1>1, <1>2, <1>4, <2>1 DEF Refuse
    <2> QED BY <1>4, <2>2 DEF Refuse, Release, TypeInv, TypeOK
  <1> QED BY <1>3, <1>4

LEMMA ReachedTyped ==
  ASSUME TypeInv, pend # Nil, Reached(pend.rec)
  PROVE  logs' \in [Gen -> LogFile \cup {Nil}] /\ fork' \in SUBSET Keys
  <1>1. pend.rec \in Record /\ pend.rec.key \in Keys
    BY DEF TypeInv, TypeOK, Staged, Record
  <1>2. LogOf(num) \in LogFile
    BY LogOfType DEF TypeInv, TypeOK
  <1>3. Appended(LogOf(num), pend.rec) \in LogFile
    BY <1>1, <1>2, AppendedType
  <1>4. \A whole \in BOOLEAN : AppendedPart(LogOf(num), pend.rec, whole) \in LogFile
    BY <1>1, <1>2, AppendedType
  <1>5. ForkAfter \in SUBSET Keys
    BY <1>1 DEF ForkAfter, Hidden, TypeInv, TypeOK
  <1>6. Hidden \in SUBSET Keys
    BY DEF Hidden
  <1> QED BY <1>1, <1>2, <1>3, <1>4, <1>5, <1>6 DEF Reached, TypeInv, TypeOK

LEMMA AppendingTyped ==
  ASSUME TypeInv, (\E over \in BOOLEAN : AppendRecord(over)) \/ AppendFails
  PROVE  TypeInv'
  <1>1. pend # Nil /\ phase = "append"
    BY DEF TypeInv, TypeOK, AppendRecord, AppendFails
  <1>2. pend \in Staged /\ pend.rec \in Record /\ pend.rec.key \in Keys
    BY <1>1 DEF TypeInv, TypeOK, Staged, Record
  <1>3. ASSUME NEW over \in BOOLEAN, AppendRecord(over) PROVE TypeInv'
    <2>1. Appended(LogOf(num), pend.rec) \in LogFile
      BY <1>2, LogOfType, AppendedType DEF TypeInv, TypeOK
    <2>2. logs' \in [Gen -> LogFile \cup {Nil}]
      BY <1>3, <2>1 DEF AppendRecord, TypeInv, TypeOK
    <2>3. fork' \in SUBSET Keys
      BY <1>2, <1>3 DEF AppendRecord, ForkAfter, Hidden, TypeInv, TypeOK
    <2>4. due' \in BOOLEAN /\ (due' => num < MaxGen)
      BY <1>3 DEF AppendRecord, TypeInv, TypeOK
    <2>5. CASE due \/ over
      <3>1. why' \in [Keys -> SUBSET Reason] /\ phase' = "snap" /\ UNCHANGED <<pend, jobs>>
        BY <1>3, <2>5 DEF AppendRecord, WhyNow, Reason, TypeInv, TypeOK
      <3>2. due'
        BY <1>3, <2>5 DEF AppendRecord
      <3> QED BY <1>1, <1>3, <2>2, <2>3, <2>4, <3>1, <3>2 DEF AppendRecord, TypeInv, TypeOK
    <2>6. CASE ~(due \/ over)
      <3>1. /\ phase' \in {"idle", "del"} /\ pend' = Nil
            /\ jobs' \in SUBSET (Keys \X Values) /\ why' \in [Keys -> SUBSET Reason]
        BY <1>1, <1>3, <2>6, EndTyped DEF AppendRecord
      <3> QED BY <1>1, <1>3, <2>2, <2>3, <2>4, <3>1 DEF AppendRecord, TypeInv, TypeOK
    <2> QED BY <2>5, <2>6
  <1>4. ASSUME AppendFails PROVE TypeInv'
    <2>1. /\ phase' \in {"idle", "del"} /\ pend' = Nil
          /\ jobs' \in SUBSET (Keys \X Values) /\ why' \in [Keys -> SUBSET Reason]
      BY <1>1, <1>4, EndTyped DEF AppendFails
    <2>2. logs' \in [Gen -> LogFile \cup {Nil}] /\ fork' \in SUBSET Keys
      BY <1>1, <1>4, ReachedTyped DEF AppendFails
    <2> QED BY <1>1, <1>4, <2>1, <2>2 DEF AppendFails, TypeInv, TypeOK
  <1> QED BY <1>3, <1>4

LEMMA CompactingTyped ==
  ASSUME TypeInv, WriteSnapshot \/ OpenNextLog \/ CompactFails
  PROVE  TypeInv'
  <1>0. MaxGen \in Nat /\ Gen = 0 .. MaxGen /\ num \in Gen
    BY BoundsAssumption DEF Gen, TypeInv, TypeOK
  <1>1. ASSUME WriteSnapshot PROVE TypeInv'
    <2>1. [k \in Keys |-> LiveAt(mem[k], now)] \in Image
      BY LiveAtType DEF TypeInv, TypeOK, Image
    <2>2. num < MaxGen /\ snaps' \in [Gen -> Image \cup {Nil}] /\ snaps'[MaxGen] = Nil
      BY <1>0, <1>1, <2>1 DEF WriteSnapshot, PutSnapshot, Serialized, TypeInv, TypeOK
    <2>3. pend' \in Staged \cup {Nil} /\ (pend' # Nil => (pend'.job => pend'.rec.cmd = "SET"))
      BY <1>1 DEF WriteSnapshot, PutSnapshot, TypeInv, TypeOK, Staged
    <2>4. fork' \in SUBSET Keys /\ why' \in [Keys -> SUBSET Reason]
      BY <1>1 DEF WriteSnapshot, PutSnapshot, TypeInv, TypeOK
    <2> QED BY <1>1, <2>2, <2>3, <2>4 DEF WriteSnapshot, PutSnapshot, TypeInv, TypeOK
  <1>2. ASSUME OpenNextLog PROVE TypeInv'
    <2>1. num < MaxGen /\ num + 1 \in Gen
      BY <1>0, <1>2 DEF OpenNextLog, TypeInv
    <2>2. LogOf(num + 1) \in LogFile
      BY <2>1, LogOfType DEF TypeInv
    <2>3. logs' \in [Gen -> LogFile \cup {Nil}]
      BY <1>2, <2>1, <2>2 DEF OpenNextLog, TypeInv, TypeOK
    <2>4. /\ phase' \in {"idle", "del", "closed"} /\ pend' = Nil
          /\ jobs' \in SUBSET (Keys \X Values) /\ why' \in [Keys -> SUBSET Reason]
      BY <1>2, EndTyped DEF OpenNextLog, TypeInv, TypeOK
    <2> QED BY <1>0, <1>2, <2>1, <2>3, <2>4 DEF OpenNextLog, TypeInv, TypeOK
  <1>3. ASSUME CompactFails PROVE TypeInv'
    <2>1. /\ phase' \in {"idle", "del", "closed"} /\ pend' = Nil
          /\ jobs' \in SUBSET (Keys \X Values) /\ why' \in [Keys -> SUBSET Reason]
      BY <1>3, EndTyped DEF CompactFails, GiveUp, TypeInv, TypeOK
    <2> QED BY <1>3, <2>1 DEF CompactFails, GiveUp, files, TypeInv, TypeOK
  <1> QED BY <1>1, <1>2, <1>3

LEMMA StoppingTyped ==
  ASSUME TypeInv, (\E n \in Gen : GcSnapshot(n) \/ GcLog(n)) \/ Crash
  PROVE  TypeInv'
  <1>1. ASSUME NEW n \in Gen, GcSnapshot(n) PROVE TypeInv'
    BY <1>1 DEF GcSnapshot, store, history, TypeInv, TypeOK
  <1>2. ASSUME NEW n \in Gen, GcLog(n) PROVE TypeInv'
    BY <1>2 DEF GcLog, store, history, TypeInv, TypeOK
  <1>3. ASSUME Crash PROVE TypeInv'
    <2>1. logs' \in [Gen -> LogFile \cup {Nil}] /\ fork' \in SUBSET Keys
      BY <1>3, ReachedTyped DEF Crash, TypeInv, TypeOK
    <2>2. why' \in [Keys -> SUBSET Reason]
      BY <1>3 DEF Crash, WhyNow, Reason, TypeInv, TypeOK
    <2>3. mem' \in Image /\ served' \in Image
      BY <1>3, EmptyImageType DEF Crash, TypeInv, TypeOK
    <2>4. num' \in Gen /\ gcKeep' \in Gen
      BY <1>3, BoundsAssumption DEF Crash, Gen
    <2> QED BY <1>3, <2>1, <2>2, <2>3, <2>4 DEF Crash, TypeInv, TypeOK
  <1> QED BY <1>1, <1>2, <1>3

LEMMA StepTyped ==
  ASSUME TypeInv, [Next]_vars
  PROVE  TypeInv'
  <1>1. CASE (\E n \in Gen : StartLoad(n)) \/ ReplaySnapshot \/ ReplayLog \/ ReplayDone \/ ReadFails
    BY <1>1, LoadTyped
  <1>2. CASE \E k \in Keys, v \in Values, f \in SetFlag, x \in Expiry :
               Set(k, v, f, x) \/ SetVector(k, v, f, x) \/ SetField(k, v, f, x)
    BY <1>2, SettingTyped
  <1>3. CASE \E k \in Keys, v \in Values :
               PutVector(k, v) \/ Incr(k, v) \/ IncrField(k, v) \/ DelField(k, v) \/ AttachVector(k, v)
    BY <1>3, PutVectorTyped, RewritingTyped
  <1>4. CASE \E k \in Keys, x \in Stamp : Expire(k, x) \/ ExpireAt(k, x)
    BY <1>4, RetimingTyped
  <1>5. CASE \E k \in Keys : Persist(k)
    BY <1>5, PersistingTyped
  <1>6. CASE \E k \in Keys : DelKey(k)
    BY <1>6, DelKeyTyped
  <1>7. CASE \/ \E k \in Keys, v \in Values : DropVector(k, v)
             \/ \E ks \in SUBSET Keys : Del(ks)
             \/ \E k \in Keys : GetRead(k)
             \/ \E k \in Keys, x \in Stamp : GetReturn(k, x) \/ GetRemove(k, x)
             \/ \E t \in 0 .. MaxTime : CleanExpired(t)
             \/ Close \/ Tick \/ UNCHANGED vars
    BY <1>7, ReadingTyped
  <1>8. CASE (\E over \in BOOLEAN : AppendRecord(over)) \/ AppendFails
    BY <1>8, AppendingTyped
  <1>9. CASE WriteSnapshot \/ OpenNextLog \/ CompactFails
    BY <1>9, CompactingTyped
  <1>10. CASE (\E n \in Gen : GcSnapshot(n) \/ GcLog(n)) \/ Crash
    BY <1>10, StoppingTyped
  <1> QED BY <1>1, <1>2, <1>3, <1>4, <1>5, <1>6, <1>7, <1>8, <1>9, <1>10 DEF Next

(* Every variable stays in its domain, whatever fails and whenever the       *)
(* process stops.                                                            *)
THEOREM TypeCorrect == Spec => []TypeOK
  <1>1. TypeInv => TypeOK
    BY DEF TypeInv
  <1> QED BY <1>1, InitTyped, StepTyped, PTL DEF Spec

LEMMA AlwaysTyped == Spec => []TypeInv
  BY InitTyped, StepTyped, PTL DEF Spec
---------------------------------------------------------------------------
LEMMA UnreadableInit == Init => UnreadableInv
  BY DEF Init, UnreadableInv

(* Operations, readers and appends neither load, number nor collect.         *)
LEMMA UnreadableQuiet ==
  ASSUME UnreadableInv, UNCHANGED <<loadErr, num, gcKeep>>,
         (phase \notin {"down", "load"} /\ phase' \notin {"down", "load"}) \/ phase' = phase,
         phase' = "renamed" => ~loadErr \/ phase = "renamed"
  PROVE  UnreadableInv'
  BY DEF UnreadableInv

LEMMA UnreadableStep ==
  ASSUME UnreadableInv, TypeOK, [Next]_vars
  PROVE  UnreadableInv'
  <1>1. ASSUME NEW n \in Gen, StartLoad(n) PROVE UnreadableInv'
    BY <1>1 DEF StartLoad, Loading, UnreadableInv
  <1>2. CASE ReplaySnapshot \/ ReplayLog
    BY <1>2, UnreadableQuiet DEF ReplaySnapshot, ReplayLog, Loading
  <1>3. CASE ReplayDone \/ ReadFails
    BY <1>3 DEF ReplayDone, ReadFails, Loaded, Loading, UnreadableInv
  <1>4. ASSUME NEW k \in Keys, NEW v \in Values, NEW f \in SetFlag, NEW x \in Expiry,
               Set(k, v, f, x) \/ SetVector(k, v, f, x) \/ SetField(k, v, f, x)
        PROVE UnreadableInv'
    BY <1>4, UnreadableQuiet DEF Set, SetVector, SetField, Mutating, Stage
  <1>5. ASSUME NEW k \in Keys, NEW v \in Values,
               PutVector(k, v) \/ Incr(k, v) \/ IncrField(k, v) \/ DelField(k, v) \/ AttachVector(k, v)
        PROVE UnreadableInv'
    BY <1>5, UnreadableQuiet DEF PutVector, Incr, IncrField, DelField, AttachVector, Rewrite, Mutating, Stage
  <1>6. ASSUME NEW k \in Keys, NEW x \in Stamp, Expire(k, x) \/ ExpireAt(k, x) \/ Persist(k)
        PROVE UnreadableInv'
    BY <1>6, UnreadableQuiet DEF Expire, ExpireAt, Persist, Retime, Mutating, Stage
  <1>7. ASSUME NEW k \in Keys, Persist(k) PROVE UnreadableInv'
    BY <1>7, UnreadableQuiet DEF Persist, Retime, Mutating, Stage
  <1>8. ASSUME NEW k \in Keys, DelKey(k) PROVE UnreadableInv'
    BY <1>8, UnreadableQuiet DEF DelKey, Stage
  <1>9. CASE \/ \E k \in Keys, v \in Values : DropVector(k, v)
             \/ \E ks \in SUBSET Keys : Del(ks)
             \/ \E k \in Keys : GetRead(k)
             \/ \E k \in Keys, x \in Stamp : GetReturn(k, x) \/ GetRemove(k, x)
             \/ \E t \in 0 .. MaxTime : CleanExpired(t)
             \/ Close
    BY <1>9, UnreadableQuiet DEF DropVector, Del, GetRead, GetReturn, GetRemove, CleanExpired, Close
  <1>10. CASE (\E over \in BOOLEAN : AppendRecord(over)) \/ AppendFails
    BY <1>10, UnreadableQuiet DEF AppendRecord, AppendFails, Acknowledge, Refuse, Release
  <1>11. CASE WriteSnapshot \/ CompactFails
    BY <1>11, UnreadableQuiet DEF WriteSnapshot, PutSnapshot, CompactFails, GiveUp, Refuse, Release
  <1>12. CASE OpenNextLog
    BY <1>12 DEF OpenNextLog, Acknowledge, Release, UnreadableInv
  <1>13. CASE (\E n \in Gen : GcSnapshot(n) \/ GcLog(n)) \/ Tick \/ UNCHANGED vars
    BY <1>13, UnreadableQuiet DEF GcSnapshot, GcLog, Tick, store, vars
  <1>14. CASE Crash
    BY <1>14 DEF Crash, UnreadableInv
  <1> QED BY <1>1, <1>2, <1>3, <1>4, <1>5, <1>6, <1>7, <1>8, <1>9, <1>10, <1>11, <1>12, <1>13, <1>14 DEF Next

(* With every generation unreadable the store still answers and logs, but    *)
(* no step of it changes a snapshot or a log that a later start may read.    *)
THEOREM UnreadableKept == Spec => UnreadableUntouched
  <1>1. ASSUME UnreadableInv, TypeOK, [Next]_vars, loadErr, NEW n \in Gen
        PROVE  snaps'[n] = snaps[n] /\ (n > 0 => logs'[n] = logs[n])
    <2>1. num = 0 /\ gcKeep = 0 /\ phase \notin {"down", "load", "renamed"} /\ n \in Nat
      BY <1>1, BoundsAssumption DEF UnreadableInv, Gen
    <2>2. logs \in [Gen -> LogFile \cup {Nil}] /\ 0 \in Gen
      BY <1>1, BoundsAssumption DEF TypeOK, Gen
    <2>3. CASE UNCHANGED files \/ UNCHANGED vars
      BY <2>3 DEF files, vars
    <2>4. CASE (\E over \in BOOLEAN : AppendRecord(over)) \/ AppendFails \/ Crash
      <3>1. snaps' = snaps /\ (logs' = logs \/ \E l : logs' = [logs EXCEPT ![0] = l])
        BY <2>1, <2>4 DEF AppendRecord, AppendFails, Crash, Reached
      <3> QED BY <2>1, <2>2, <3>1
    <2>5. CASE \E m \in Gen : GcSnapshot(m) \/ GcLog(m)
      BY <1>1, <2>1, <2>5, BoundsAssumption DEF GcSnapshot, GcLog, Gen
    <2>6. ~(WriteSnapshot \/ OpenNextLog)
      BY <1>1, <2>1 DEF WriteSnapshot, OpenNextLog
    <2>7. CASE CompactFails \/ Close \/ Tick
      BY <2>3, <2>7 DEF CompactFails, GiveUp, Close, Tick
    <2>8. CASE \/ \E m \in Gen : StartLoad(m)
               \/ ReplaySnapshot \/ ReplayLog \/ ReplayDone \/ ReadFails
      BY <2>1, <2>8 DEF StartLoad, ReplaySnapshot, ReplayLog, ReplayDone, ReadFails
    <2>9. CASE \/ \E k \in Keys, v \in Values, f \in SetFlag, x \in Expiry :
                    Set(k, v, f, x) \/ SetVector(k, v, f, x) \/ SetField(k, v, f, x)
               \/ \E k \in Keys, v \in Values :
                    \/ PutVector(k, v) \/ AttachVector(k, v) \/ DropVector(k, v)
                    \/ Incr(k, v) \/ IncrField(k, v) \/ DelField(k, v)
      <3>1. UNCHANGED files
        <4>1. CASE \E k \in Keys, v \in Values, f \in SetFlag, x \in Expiry :
                     Set(k, v, f, x) \/ SetVector(k, v, f, x) \/ SetField(k, v, f, x)
          BY <4>1 DEF Set, SetVector, SetField, Mutating
        <4>2. CASE \E k \in Keys, v \in Values :
                    \/ PutVector(k, v) \/ AttachVector(k, v) \/ DropVector(k, v)
                    \/ Incr(k, v) \/ IncrField(k, v) \/ DelField(k, v)
          BY <4>2 DEF PutVector, AttachVector, DropVector, Incr, IncrField, DelField, Mutating
        <4> QED BY <2>9, <4>1, <4>2
      <3> QED BY <2>3, <3>1
    <2>10. CASE \/ \E k \in Keys, x \in Stamp :
                     Expire(k, x) \/ ExpireAt(k, x) \/ GetReturn(k, x) \/ GetRemove(k, x)
                \/ \E k \in Keys : Persist(k) \/ DelKey(k) \/ GetRead(k)
                \/ \E ks \in SUBSET Keys : Del(ks)
                \/ \E t \in 0 .. MaxTime : CleanExpired(t)
      BY <2>3, <2>10 DEF Expire, ExpireAt, Persist, Mutating, Del, DelKey, GetRead, GetReturn,
                         GetRemove, CleanExpired
    <2> QED BY <1>1, <2>3, <2>4, <2>5, <2>6, <2>7, <2>8, <2>9, <2>10 DEF Next
  <1>2. Spec => [](UnreadableInv /\ TypeOK)
    BY UnreadableInit, UnreadableStep, TypeCorrect, PTL DEF Spec
  <1>3. UnreadableInv /\ TypeOK /\ [Next]_vars =>
          [loadErr => \A n \in Gen : snaps'[n] = snaps[n] /\ (n > 0 => logs'[n] = logs[n])]_vars
    BY <1>1
  <1> QED BY <1>2, <1>3, PTL DEF Spec, UnreadableUntouched
============================================================================
