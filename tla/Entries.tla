------------------------------ MODULE Entries ------------------------------
(* The data of one database of a store: entries, records of the append log,  *)
(* and what replaying a record does to a key (src/core/store/set.go, aof.go).*)
(*                                                                           *)
(* A value stands for the bytes of an entry together with the type           *)
(* detectType gives them: Values is split into JSON objects, numbers and the *)
(* rest. A key holds a slot: an entry or Nil. Vectors and the timestamps     *)
(* CreatedAt and UpdatedAt are left out, no property here is about them.     *)
EXTENDS Naturals

CONSTANTS
  Keys,         \* keys of the database
  Values,       \* values a key can hold
  JsonValues,   \* those detectType calls TypeJSON and that are JSON objects
  NumValues,    \* those detectType calls TypeInt or TypeFloat
  MaxTime,      \* bound: the clock runs from 0 to MaxTime
  Nil           \* no entry, no expiry, no file

ASSUME ValuesAssumption == JsonValues \subseteq Values /\ NumValues \subseteq Values
ASSUME TimeAssumption == MaxTime \in Nat
ASSUME NilAssumption == Nil \notin Nat /\ Nil \notin Values

Stamp == 1 .. MaxTime
Expiry == Stamp \cup {Nil}
Entry == [val : Values, exp : Expiry]
Slot == Entry \cup {Nil}
Image == [Keys -> Slot]
EmptyImage == [k \in Keys |-> Nil]

(* Nil is one value for every absence, so it is told apart from the records  *)
(* it stands beside; a model value is.                                       *)
ASSUME NilNoEntry == Nil \notin Entry

SetFlag == {"SetDefault", "SetNX", "SetXX"}

(* The expiry test every reader makes: e.ExpireAt != nil && *e.ExpireAt <= now *)
Expired(s, t) == s # Nil /\ s.exp # Nil /\ s.exp <= t

(* What a reader at time t sees of a slot: an expired entry counts as absent. *)
LiveAt(s, t) == IF Expired(s, t) THEN Nil ELSE s

Restamped(s, x) == IF s = Nil THEN Nil ELSE [s EXCEPT !.exp = x]
---------------------------------------------------------------------------
(* Records of the log, and the switch of replayInto.                         *)
Record ==
  [cmd : {"SET"}, key : Keys, val : Values, exp : Expiry]
    \cup [cmd : {"EXPIRE", "EXPIREAT"}, key : Keys, val : {Nil}, exp : Expiry]
    \cup [cmd : {"DEL", "PERSIST"}, key : Keys, val : {Nil}, exp : {Nil}]

SetRecord(k, v, x) == [cmd |-> "SET", key |-> k, val |-> v, exp |-> x]
DelRecord(k) == [cmd |-> "DEL", key |-> k, val |-> Nil, exp |-> Nil]
ExpireRecord(c, k, x) == [cmd |-> c, key |-> k, val |-> Nil, exp |-> x]
PersistRecord(k) == [cmd |-> "PERSIST", key |-> k, val |-> Nil, exp |-> Nil]

Replayed(r, s) ==
  CASE r.cmd = "SET" -> [val |-> r.val, exp |-> r.exp]
    [] r.cmd = "DEL" -> Nil
    [] r.cmd \in {"EXPIRE", "EXPIREAT"} -> Restamped(s, r.exp)
    [] r.cmd = "PERSIST" -> Restamped(s, Nil)
---------------------------------------------------------------------------
(* The lines of a log about one key, in normal form. Only the last SET or    *)
(* DEL and the last expiry after it matter to a replay, so a log file is     *)
(* kept as one effect per key: nothing said of it, a slot put there, or the  *)
(* expiry of whatever is there changed.                                      *)
Keep == [op |-> "keep", slot |-> Nil, exp |-> Nil]
Put(s) == [op |-> "put", slot |-> s, exp |-> Nil]
Stamping(x) == [op |-> "stamp", slot |-> Nil, exp |-> x]

Effect == {Keep} \cup {Put(s) : s \in Slot} \cup {Stamping(x) : x \in Expiry}

Apply(f, s) ==
  CASE f.op = "keep" -> s
    [] f.op = "put" -> f.slot
    [] f.op = "stamp" -> Restamped(s, f.exp)

(* The effect of the lines summed up by f followed by the record r.          *)
ThenDeaf(f, r) ==           \* mutant: replayInto has no case for EXPIREAT
  CASE r.cmd = "SET" -> Put([val |-> r.val, exp |-> r.exp])
    [] r.cmd = "DEL" -> Put(Nil)
    [] r.cmd = "EXPIREAT" -> f
    [] r.cmd \in {"EXPIRE", "PERSIST"} ->
         IF f.op = "put" THEN Put(Restamped(f.slot, r.exp)) ELSE Stamping(r.exp)

Then(f, r) ==
  CASE r.cmd = "SET" -> Put([val |-> r.val, exp |-> r.exp])
    [] r.cmd = "DEL" -> Put(Nil)
    [] r.cmd \in {"EXPIRE", "EXPIREAT", "PERSIST"} ->
         IF f.op = "put" THEN Put(Restamped(f.slot, r.exp)) ELSE Stamping(r.exp)
---------------------------------------------------------------------------
(* A log file. eff sums up its complete lines; seen is what a replay reads   *)
(* now: ReadBytes also hands over a last line without its newline, and       *)
(* json.Unmarshal accepts it when it is a whole record. torn says the file   *)
(* does not end in a newline, so that the next record goes on that line.     *)
LogFile == [eff : [Keys -> Effect], seen : [Keys -> Effect], torn : BOOLEAN]

EmptyLog ==
  [eff |-> [k \in Keys |-> Keep], seen |-> [k \in Keys |-> Keep], torn |-> FALSE]

WithLine(f, r) == [f EXCEPT ![r.key] = Then(f[r.key], r)]

(* A record and its newline written at the end of the file (O_APPEND). After *)
(* a torn tail the two make one line that no Unmarshal accepts.              *)
Appended(l, r) ==
  IF l.torn
  THEN [eff |-> l.eff, seen |-> l.eff, torn |-> FALSE]
  ELSE [eff |-> WithLine(l.eff, r), seen |-> WithLine(l.eff, r), torn |-> FALSE]

(* Part of a record written, without the newline; whole says the part is the *)
(* whole JSON text, which a replay accepts until something is appended.      *)
AppendedPart(l, r, whole) ==
  [eff  |-> l.eff,
   seen |-> IF whole /\ ~l.torn THEN WithLine(l.eff, r) ELSE l.eff,
   torn |-> TRUE]

ReplayInto(img, l) == [k \in Keys |-> Apply(l.seen[k], img[k])]
============================================================================
