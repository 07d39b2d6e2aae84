------------------------------ MODULE Records ------------------------------
(* What an entry holds: the raw text, the parsed cache that field reads are  *)
(* answered from, the vector and the two times; and what a restart would     *)
(* make of the records logged for it (src/core/store/set.go, setField.go,    *)
(* incr.go, incrField.go, del.go, get.go, aof.go).                           *)
(*                                                                           *)
(* An operation is one step, its record is written and nothing fails: locks, *)
(* the log, its errors and the expiries are Db's. The raw text is kept as    *)
(* the value it denotes, so Type is TypeJSON exactly when raw is a document. *)
EXTENDS Documents, FiniteSets

CONSTANTS
  Keys,         \* keys of the database
  Texts,        \* texts callers Set
  Embedded,     \* those callers SetVector
  Paths,        \* paths of fields, in their parts (splitKey)
  Operands,     \* texts callers SetField
  Deltas,       \* what callers Incr by
  MaxTime,      \* bound: the clock runs from 1 to MaxTime
  Nil           \* no vector, no time

ASSUME ValuesAssumption == \A t \in Texts \cup Embedded \cup Operands : IsTree(t)
ASSUME PathsAssumption == Paths \subseteq Seq(STRING) \ {<<>>}
ASSUME DeltasAssumption == Deltas \subseteq Int
ASSUME TimeAssumption == MaxTime \in Nat \ {0}
ASSUME NilAssumption == Nil \notin Nat /\ Nil \notin Embedded

SetFlag == {"SetDefault", "SetNX", "SetXX"}

VARIABLES
  mem,      \* db.data: raw, parsed (Absent unless raw is a document), vec
            \* (the text that was embedded), created, updated
  disk,     \* the entries that a replay of snapshot and log would make
  jobs,     \* <<key, text>> of the vector jobs under way
  now,      \* time.Now().Unix()
  drift,    \* history, of each key: "rewritten", its vector is of an earlier
            \* text; and since an operation last wrote it: "straddled", that
            \* was logged in a later second than it was made in; "attached",
            \* a vector was logged; "compacted", a snapshot was taken
  imprecise \* history: the keys into whose cache a field write has put an
            \* integer beyond float64, or failed to write, since the cache
            \* was last made from the text

vars == <<mem, disk, jobs, now, drift, imprecise>>

NoEntry == [raw |-> Absent, parsed |-> Absent, vec |-> Nil, created |-> 0, updated |-> Nil]

CacheOf(raw) == IF IsDoc(raw) THEN Parsed(raw) ELSE Absent

(* A new entry, and an existing one with the fields of Set replaced; both    *)
(* serve the operations and the replay of a SET record.                      *)
Fresh(raw, vec, t) ==
  [raw |-> raw, parsed |-> CacheOf(raw), vec |-> vec, created |-> t, updated |-> Nil]

Upsert(e, raw, vec, t) ==
  IF e = NoEntry THEN Fresh(raw, vec, t)
  ELSE [Fresh(raw, vec, e.created) EXCEPT !.updated = t]

(* addToAOF and addToAOFWithVector. They read the clock again, so that the   *)
(* record may be of a later second than the change it is of.                 *)
Log(k, raw, vec, t) == disk' = [disk EXCEPT ![k] = Upsert(@, raw, vec, t)]
Straddles(t) == IF t = now THEN {} ELSE {"straddled"}
---------------------------------------------------------------------------
Init ==
  /\ mem = [k \in Keys |-> NoEntry] /\ disk = [k \in Keys |-> NoEntry]
  /\ jobs = {} /\ now = 1 /\ drift = [k \in Keys |-> {}] /\ imprecise = {}

FlagAllows(k, flag) ==
  /\ flag = "SetNX" => mem[k] = NoEntry
  /\ flag = "SetXX" => mem[k] # NoEntry

WriteKeepsCache(k, text, flag) ==   \* mutant: the text is assigned without setValue
  /\ FlagAllows(k, flag)
  /\ LET e == Upsert(mem[k], text, Nil, now)
     IN  mem' = [mem EXCEPT ![k] = IF @ # NoEntry /\ IsDoc(@.raw) /\ IsDoc(text)
                                   THEN [e EXCEPT !.parsed = mem[k].parsed] ELSE e]
  /\ \E t \in now .. MaxTime :
       Log(k, text, Nil, t) /\ now' = t /\ drift' = [drift EXCEPT ![k] = Straddles(t)]
  /\ imprecise' = imprecise \ {k}

Write(k, text, flag) ==
  /\ FlagAllows(k, flag)
  /\ mem' = [mem EXCEPT ![k] = Upsert(@, text, Nil, now)]
  /\ \E t \in now .. MaxTime :
       Log(k, text, Nil, t) /\ now' = t /\ drift' = [drift EXCEPT ![k] = Straddles(t)]
  /\ imprecise' = imprecise \ {k}

Set(k, text, flag) == Write(k, text, flag) /\ UNCHANGED jobs

SetVector(k, text, flag) == Write(k, text, flag) /\ jobs' = jobs \cup {<<k, text>>}

(* writeVectorToEntry: the record carries the time of the job.               *)
AttachVectorBlindly(k, text) ==     \* mutant: does not compare the text
  /\ <<k, text>> \in jobs /\ jobs' = jobs \ {<<k, text>>}
  /\ mem[k] # NoEntry
  /\ mem' = [mem EXCEPT ![k].vec = text]
  /\ Log(k, mem[k].raw, text, now)
  /\ drift' = [drift EXCEPT ![k] = {"attached"}]
  /\ UNCHANGED <<now, imprecise>>

AttachVector(k, text) ==
  /\ <<k, text>> \in jobs /\ jobs' = jobs \ {<<k, text>>}
  /\ mem[k] # NoEntry /\ mem[k].raw = text
  /\ mem' = [mem EXCEPT ![k].vec = text]
  /\ Log(k, text, text, now)
  /\ drift' = [drift EXCEPT ![k] = {"attached"}]
  /\ UNCHANGED <<now, imprecise>>

DropVector(k, text) ==
  /\ <<k, text>> \in jobs /\ jobs' = jobs \ {<<k, text>>}
  /\ UNCHANGED <<mem, disk, now, drift, imprecise>>
---------------------------------------------------------------------------
(* The operations that rewrite an entry in place: they keep the vector, and  *)
(* log none. An entry they make holds the cache they made its text from.     *)
Rewritten(k) == IF mem[k] # NoEntry /\ mem[k].vec # Nil THEN {"rewritten"} ELSE {}

RewriteUntimed(k, raw, parsed) ==   \* mutant: UpdatedAt is left alone
  /\ mem' = [mem EXCEPT ![k] =
       IF @ = NoEntry THEN [Fresh(raw, Nil, now) EXCEPT !.parsed = parsed]
       ELSE [@ EXCEPT !.raw = raw, !.parsed = parsed]]
  /\ \E t \in now .. MaxTime :
       /\ Log(k, raw, Nil, t) /\ now' = t
       /\ drift' = [drift EXCEPT ![k] = Rewritten(k) \cup Straddles(t)]
  /\ UNCHANGED jobs

Rewrite(k, raw, parsed) ==
  /\ mem' = [mem EXCEPT ![k] =
       IF @ = NoEntry THEN [Fresh(raw, Nil, now) EXCEPT !.parsed = parsed]
       ELSE [@ EXCEPT !.raw = raw, !.parsed = parsed, !.updated = now]]
  /\ \E t \in now .. MaxTime :
       /\ Log(k, raw, Nil, t) /\ now' = t
       /\ drift' = [drift EXCEPT ![k] = Rewritten(k) \cup Straddles(t)]
  /\ UNCHANGED jobs

(* A field write changes the cached document in place, then setParsed writes *)
(* it as text. When that fails the cache stays changed, and nothing else.    *)
(* wide: the key, when what is written is an integer beyond float64.         *)
IsObject(k) == mem[k] # NoEntry /\ mem[k].parsed[<<>>] = Object

RewriteField(k, v, path, new, wide) ==
  LET doc == WalkKeysAndSet(v, path, new)
  IN  /\ CanSet(v, path)
      /\ \/ /\ Writable(doc) /\ Rewrite(k, doc, doc)
            /\ imprecise' = imprecise \cup wide
         \/ /\ ~Writable(doc) /\ IsObject(k)
            /\ mem' = [mem EXCEPT ![k].parsed = doc]
            /\ imprecise' = imprecise \cup {k}
            /\ UNCHANGED <<disk, jobs, now, drift>>

(* Whatever is not an object gives way to a new one: no entry, an array.     *)
Target(k) == IF IsObject(k) THEN mem[k].parsed ELSE EmptyObj

SetField(k, path, text, flag) ==
  /\ FlagAllows(k, flag)
  /\ mem[k] # NoEntry => IsDoc(mem[k].raw)
  /\ LET new == Atov(text)
     IN  RewriteField(k, Target(k), path, new, IF Parsed(new) = new THEN {} ELSE {k})

DelField(k, path) == IsObject(k) /\ RewriteField(k, mem[k].parsed, path, Null, {})

IncrField(k, path, d) ==
  LET v == WalkKeys(mem[k].parsed, path)
  IN  /\ IsObject(k) /\ IsNumber(v)
      /\ RewriteField(k, mem[k].parsed, path, Plus(v, d), {})

Incr(k, d) ==
  /\ mem[k] # NoEntry /\ IsNumber(mem[k].raw)
  /\ Rewrite(k, Plus(mem[k].raw, d), Absent) /\ UNCHANGED imprecise

DelUnlogged(k) ==           \* mutant: no record
  /\ mem[k] # NoEntry
  /\ mem' = [mem EXCEPT ![k] = NoEntry]
  /\ drift' = [drift EXCEPT ![k] = {}] /\ imprecise' = imprecise \ {k}
  /\ UNCHANGED <<disk, jobs, now>>

Del(k) ==
  /\ mem[k] # NoEntry
  /\ mem' = [mem EXCEPT ![k] = NoEntry] /\ disk' = [disk EXCEPT ![k] = NoEntry]
  /\ drift' = [drift EXCEPT ![k] = {}] /\ imprecise' = imprecise \ {k}
  /\ UNCHANGED <<jobs, now>>
---------------------------------------------------------------------------
(* serialize: the time of a snapshot's record is CreatedAt; the vector goes  *)
(* with it whatever text it is of.                                           *)
Compact ==
  /\ disk' = [k \in Keys |-> IF mem[k] = NoEntry THEN NoEntry
                             ELSE Fresh(mem[k].raw, mem[k].vec, mem[k].created)]
  /\ drift' = [k \in Keys |-> IF mem[k] = NoEntry THEN {}
                              ELSE (drift[k] \cap {"rewritten"}) \cup {"compacted"}]
  /\ UNCHANGED <<mem, jobs, now, imprecise>>

(* The process stops, wherever it is, and another one replays the files.     *)
Restart ==
  /\ mem' = disk /\ jobs' = {} /\ imprecise' = {}
  /\ drift' = [k \in Keys |-> IF disk[k] # NoEntry /\ disk[k].vec # Nil
                              THEN drift[k] \cap {"rewritten"} ELSE {}]
  /\ UNCHANGED <<disk, now>>

Tick == now < MaxTime /\ now' = now + 1 /\ UNCHANGED <<mem, disk, jobs, drift, imprecise>>
---------------------------------------------------------------------------
Next ==
  \/ \E k \in Keys, t \in Texts, f \in SetFlag : Set(k, t, f)
  \/ \E k \in Keys, t \in Embedded, f \in SetFlag : SetVector(k, t, f)
  \/ \E k \in Keys, t \in Embedded : AttachVector(k, t)
  \/ \E k \in Keys, t \in Embedded : DropVector(k, t)
  \/ \E k \in Keys, p \in Paths, t \in Operands, f \in SetFlag : SetField(k, p, t, f)
  \/ \E k \in Keys, p \in Paths : DelField(k, p)
  \/ \E k \in Keys, p \in Paths, d \in Deltas : IncrField(k, p, d)
  \/ \E k \in Keys, d \in Deltas : Incr(k, d)
  \/ \E k \in Keys : Del(k)
  \/ Compact
  \/ Restart
  \/ Tick

Spec == Init /\ [][Next]_vars
---------------------------------------------------------------------------
(* Every variable stays in its domain, and an entry is in memory exactly     *)
(* when it is on disk.                                                       *)
IsEntry(e) ==
  /\ DOMAIN e = {"raw", "parsed", "vec", "created", "updated"}
  /\ IsTree(e.raw) /\ IsTree(e.parsed)
  /\ IF IsDoc(e.raw) THEN e.parsed[<<>>] = e.raw[<<>>] ELSE e.parsed = Absent
  /\ e.vec \in Embedded \cup {Nil}
  /\ e.created \in 1 .. now /\ e.updated \in e.created .. now \cup {Nil}

TypeOK ==
  /\ DOMAIN mem = Keys /\ DOMAIN disk = Keys
  /\ \A k \in Keys :
       /\ mem[k] = NoEntry <=> disk[k] = NoEntry
       /\ mem[k] # NoEntry => IsEntry(mem[k]) /\ IsEntry(disk[k])
  /\ jobs \subseteq Keys \X Embedded
  /\ now \in 1 .. MaxTime
  /\ drift \in [Keys -> SUBSET {"rewritten", "straddled", "attached", "compacted"}]
  /\ imprecise \subseteq Keys

(* Whatever Get, GetField and Query answer from memory they answer after a   *)
(* restart: the raw text on disk is the one in memory, and the cache is what *)
(* it parses to. The exception is a cache into which a field write has put   *)
(* an integer beyond float64, which is rounded when it is read back, or that *)
(* a field write has changed and then failed to write (setField.go:47-53);   *)
(* and it lasts until the entry is set whole.                                *)
RestartAnswers ==
  \A k \in Keys : mem[k] # NoEntry =>
    /\ mem[k].raw = disk[k].raw
    /\ Writable(mem[k].parsed) => Parsed(mem[k].parsed) = disk[k].parsed
    /\ k \notin imprecise => mem[k].parsed = disk[k].parsed

(* A vector is of the text beside it, in memory and on disk, unless a field  *)
(* write or an Incr has changed the text under it: a job that comes late     *)
(* attaches nothing, a Set removes the vector, a restart brings none back.   *)
VectorFresh ==
  \A k \in Keys : mem[k] # NoEntry /\ "rewritten" \notin drift[k] =>
    /\ mem[k].vec \in {Nil, mem[k].raw}
    /\ disk[k].vec = mem[k].vec

(* The time by which Find and Query order an entry.                          *)
EntryTime(e) == IF e.updated = Nil THEN e.created ELSE e.updated

(* A restart never makes an entry older, and keeps its time unless the last  *)
(* write of it was logged in another second than it was made in, or a vector *)
(* has been logged since. Once a snapshot was taken the time is that of the  *)
(* entry's creation, whatever has been written to it.                        *)
TimesKept ==
  \A k \in Keys : mem[k] # NoEntry =>
    IF "compacted" \in drift[k] THEN EntryTime(disk[k]) = mem[k].created
    ELSE /\ EntryTime(mem[k]) <= EntryTime(disk[k])
         /\ drift[k] \cap {"straddled", "attached"} = {} => EntryTime(mem[k]) = EntryTime(disk[k])

(* A field write changes no other field of an object: what GetField answers  *)
(* for a path that is neither above nor below the one written is as before,  *)
(* through arrays and through the objects it creates (setField.go:78-129).   *)
Apart(p, q) == ~IsPrefix(p, q) /\ ~IsPrefix(q, p)

OtherFieldsKept ==
  \A k \in Keys : IsObject(k) =>
    \A p \in Paths, t \in Operands \cup {Null} :
      CanSet(mem[k].parsed, p) =>
        \A q \in Paths : Apart(p, q) =>
          WalkKeys(WalkKeysAndSet(mem[k].parsed, p, Atov(t)), q) = WalkKeys(mem[k].parsed, q)
============================================================================
