------------------------------ MODULE Handlers -----------------------------
(* One request to the server over many keys, while other connections go on   *)
(* writing: entries, expire, keys page by page, vsearch, and the store's     *)
(* Find and Query (src/core/daemon/handler.go, src/core/store/keys.go,       *)
(* find.go, query.go, vsearch.go).                                           *)
(*                                                                           *)
(* An action is one section of the database's lock. Expire takes it once for *)
(* each key of its list, keys once for each page; entries takes it shared to *)
(* copy an entry, and again, to remove the entry, when the copy has expired; *)
(* a search, a find and a query hold it, shared, from the first key to the   *)
(* last, so that nothing is written, and go by the time at which they began. *)
(* What a section does inside the store is Db's; keys are numbers in the     *)
(* order of sort.Strings.                                                    *)
EXTENDS Integers, FiniteSetsExt, SequencesExt

CONSTANTS
  Keys,       \* the keys of the database
  Values,     \* what they hold
  Display,    \* the place of "key: value", of each key and value, in the order
              \* of sort.Strings
  Score,      \* the similarity of each value's vector to the query; 0 for no
              \* vector, another length or no length
  Requests,   \* what a client asks for
  Block,      \* keys to a shard of a find (sliceBlock)
  MaxTime,    \* bound: the clock runs from 1 to MaxTime
  MaxWrites,  \* bound: writes of the other connections during a request
  Nil         \* no entry, no expiry

ASSUME KeysAssumption == Keys \subseteq Nat /\ IsFiniteSet(Keys)
ASSUME DisplayAssumption == Display \in [Keys -> [Values -> Nat]]
ASSUME ScoreAssumption == Score \in [Values -> Nat]
ASSUME BoundsAssumption == Block \in Nat \ {0} /\ MaxTime \in Nat \ {0} /\ MaxWrites \in Nat

Time == 1 .. MaxTime
Deadline == 1 .. 2 * MaxTime
Entry == [value : Values, time : Time, exp : Deadline \cup {Nil}]
ASSUME NilAssumption == Nil \notin Nat \cup Entry

Finds == {"find", "query"}
Ops == {"entries", "expire", "keys", "vsearch"} \cup Finds

(* pattern: the keys that it matches, or that are asked for; asked: the list *)
(* of those an expire asks for, which may name a key twice; wanted: the      *)
(* values that contain the text or match the filter; after, limit and ttl    *)
(* are 0 when there are none.                                                *)
Request == [op : Ops, pattern : SUBSET Keys, asked : Seq(Keys), wanted : SUBSET Values,
            after : Nat, limit : Nat, ttl : 0 .. MaxTime]
ASSUME RequestsAssumption ==
  \A q \in Requests : q \in Request /\ (q.op = "expire" => q.pattern = Range(q.asked))

NoRequest == [op |-> "none", pattern |-> {}, asked |-> <<>>, wanted |-> {},
              after |-> 0, limit |-> 0, ttl |-> 0]

VARIABLES
  data,     \* db.data: the value, entryTime and the expiry of each key
  now,      \* time.Now().Unix()
  req,      \* the request under way
  phase,    \* "idle", "busy"; "answered" is the end: one request is followed
  todo,     \* keys still to visit
  got,      \* Get's copy of the entry of the least of them, if there is one,
            \* and whether db.data still holds the entry it was copied from
  at,       \* how many keys of its list an expire has visited
  list,     \* the keys in the answer so far
  count,    \* keys that received the ttl; pages answered
  found,    \* items of a find, or the heap of a search
  shards,   \* the parts of a find that have not been scanned
  since,    \* history: when the request began
  steady,   \* history: keys that could be answered at every moment since
  ever,     \* history: keys that could at some moment since
  touched,  \* history: keys that changed since, by another's hand or by time
  failed,   \* history: visits of an expire whose record was not written
  writes    \* how many writes are left to the other connections

database == <<data, now, writes>>
history == <<since, steady, ever, touched, failed>>
vars == <<database, req, phase, todo, got, at, list, count, found, shards, history>>
---------------------------------------------------------------------------
LiveAt(e, t) == e # Nil /\ (e.exp # Nil => e.exp > t)

(* What the request may answer: a live entry that the pattern, the text or   *)
(* filter and the time let through.                                          *)
Passes(q, e) == e.time >= q.after /\ e.value \in q.wanted
Wanted(q, d, t) == {k \in q.pattern : LiveAt(d[k], t) /\ Passes(q, d[k])}

Ascending(s) == \A i, j \in DOMAIN s : i < j => s[i] < s[j]
Sorted(S) == {s \in SetToSeqs(S) : Ascending(s)}
Least(S) == CHOOSE k \in S : \A l \in S : k <= l

NoCopy == [entry |-> Nil, same |-> FALSE]

(* The history of a step: what can be answered after it.                     *)
Observe ==
  /\ steady' = steady \cap Wanted(req, data', now')
  /\ ever' = ever \cup Wanted(req, data', now')
  /\ UNCHANGED since
---------------------------------------------------------------------------
Init ==
  /\ data \in [Keys -> Entry \cup {Nil}] /\ now = 1
  /\ \A k \in Keys : data[k] # Nil => data[k].time = 1 /\ data[k].exp \in Time \cup {Nil}
  /\ req = NoRequest /\ phase = "idle"
  /\ todo = {} /\ got = NoCopy /\ at = 0 /\ list = <<>> /\ count = 0 /\ found = {} /\ shards = {}
  /\ since = 1 /\ steady = {} /\ ever = {} /\ touched = {} /\ failed = {} /\ writes = MaxWrites

Begin(q, op) ==
  /\ phase = "idle" /\ phase' = "busy"
  /\ q.op = op /\ req' = q
  /\ got' = NoCopy /\ at' = 0 /\ list' = <<>> /\ count' = 0 /\ found' = {}
  /\ since' = now /\ touched' = {} /\ failed' = {}
  /\ steady' = Wanted(q, data, now) /\ ever' = Wanted(q, data, now)
  /\ UNCHANGED database

Busy(op) == phase = "busy" /\ req.op = op

---------------------------------------------------------------------------
(* handleEntries: Keys in one section, then Get of each key.                 *)
HandleEntriesUnmatched(q) ==    \* mutant: the pattern is not applied
  /\ Begin(q, "entries")
  /\ todo' = {k \in Keys : LiveAt(data[k], now)}
  /\ UNCHANGED shards

HandleEntries(q) ==
  /\ Begin(q, "entries")
  /\ todo' = {k \in q.pattern : LiveAt(data[k], now)}
  /\ UNCHANGED shards

(* Get copies the entry in one section.                                      *)
ReadEntry ==
  /\ Busy("entries") /\ todo # {} /\ got = NoCopy
  /\ LET k == Least(todo)
     IN  IF data[k] = Nil THEN todo' = todo \ {k} /\ UNCHANGED got
         ELSE got' = [entry |-> data[k], same |-> TRUE] /\ UNCHANGED todo
  /\ UNCHANGED <<database, req, phase, at, list, count, found, shards, history>>

(* Then it reads the clock, and a copy that has expired has it remove the    *)
(* entry in another section, whatever became of it, unless it was removed in *)
(* between. (An entry that has expired when the clock is read has when the   *)
(* lock is taken, so that the two are one step.)                             *)
CheckEntryStops ==         \* mutant: return for continue
  /\ Busy("entries") /\ got # NoCopy /\ got' = NoCopy
  /\ LET k == Least(todo)
     IN  IF LiveAt(got.entry, now)
         THEN /\ list' = IF Passes(req, got.entry) THEN Append(list, k) ELSE list
              /\ todo' = todo \ {k} /\ UNCHANGED data
         ELSE /\ data' = IF got.same THEN [data EXCEPT ![k] = Nil] ELSE data
              /\ todo' = {} /\ UNCHANGED list
  /\ UNCHANGED <<now, writes, req, phase, at, count, found, shards, touched, failed>>
  /\ Observe

CheckEntry ==
  /\ Busy("entries") /\ got # NoCopy /\ got' = NoCopy
  /\ LET k == Least(todo)
     IN  /\ todo' = todo \ {k}
         /\ IF LiveAt(got.entry, now)
            THEN /\ list' = IF Passes(req, got.entry) THEN Append(list, k) ELSE list
                 /\ UNCHANGED data
            ELSE /\ data' = IF got.same THEN [data EXCEPT ![k] = Nil] ELSE data
                 /\ UNCHANGED list
  /\ UNCHANGED <<now, writes, req, phase, at, count, found, shards, touched, failed>>
  /\ Observe

(* The last limit of the list (100 when none was given, never reached here). *)
LastOnes(s, n) == IF n > 0 /\ Len(s) > n THEN SubSeq(s, Len(s) - n + 1, Len(s)) ELSE s

AnswerEntries ==
  /\ Busy("entries") /\ todo = {} /\ phase' = "answered"
  /\ list' = LastOnes(list, req.limit)
  /\ UNCHANGED <<database, req, todo, got, at, count, found, shards, history>>
---------------------------------------------------------------------------
(* handleExpire: Expire of one key after the other, each in a section of its *)
(* own. Expire does not look whether the entry it finds has expired, and has *)
(* given it the deadline by the time its record fails (ttl.go:28-39).        *)
HandleExpire(q) ==
  /\ Begin(q, "expire") /\ q.ttl > 0 /\ q.asked # <<>>
  /\ todo' = {} /\ UNCHANGED shards

ExpireOneMiscounts ==      \* mutant: the error is not looked at
  /\ Busy("expire") /\ at < Len(req.asked) /\ at' = at + 1 /\ count' = count + 1
  /\ LET k == req.asked[at + 1]
     IN  IF data[k] = Nil THEN UNCHANGED <<data, failed>>
         ELSE /\ data' = [data EXCEPT ![k].exp = now + req.ttl]
              /\ failed' \in {failed, failed \cup {at + 1}}
  /\ UNCHANGED <<now, writes, req, phase, todo, got, list, found, shards, touched>>
  /\ Observe

ExpireOne ==
  /\ Busy("expire") /\ at < Len(req.asked) /\ at' = at + 1
  /\ LET k == req.asked[at + 1]
     IN  IF data[k] = Nil THEN UNCHANGED <<data, count, failed>>
         ELSE /\ data' = [data EXCEPT ![k].exp = now + req.ttl]
              /\ \/ count' = count + 1 /\ UNCHANGED failed
                 \/ failed' = failed \cup {at + 1} /\ UNCHANGED count
  /\ UNCHANGED <<now, writes, req, phase, todo, got, list, found, shards, touched>>
  /\ Observe

AnswerExpire ==
  /\ Busy("expire") /\ at = Len(req.asked) /\ phase' = "answered"
  /\ UNCHANGED <<database, req, todo, got, at, list, count, found, shards, history>>
---------------------------------------------------------------------------
(* handleKeys: a client asks for page after page, each in one section; count *)
(* is the number of pages it has. page * limit stays within an int.          *)
HandleKeys(q) ==
  /\ Begin(q, "keys") /\ q.limit > 0
  /\ todo' = {} /\ UNCHANGED shards

Lower(a, b) == IF a < b THEN a ELSE b

PageAfter(keys, page, limit) ==      \* mutant: pages counted from zero
  SubSeq(keys, Lower(page * limit, Len(keys)) + 1,
         Lower(page * limit + limit, Len(keys)))

Page(keys, page, limit) ==
  LET from == Lower((page - 1) * limit, Len(keys))
      to == Lower(from + limit, Len(keys))
  IN  SubSeq(keys, from + 1, to)

KeysPage ==
  /\ Busy("keys")
  /\ \E keys \in Sorted(Wanted(req, data, now)) :
       /\ count * req.limit < Len(keys)
       /\ list' = list \o Page(keys, count + 1, req.limit)
  /\ count' = count + 1
  /\ UNCHANGED <<database, req, phase, todo, got, at, found, shards, history>>

LastPage ==
  /\ Busy("keys") /\ count * req.limit >= Cardinality(Wanted(req, data, now))
  /\ phase' = "answered"
  /\ UNCHANGED <<database, req, todo, got, at, list, count, found, shards, history>>
---------------------------------------------------------------------------
(* scanTopK: the entries come in the order of a map, which is any; the heap  *)
(* keeps limit of them (container/heap: its root has the least score).       *)
HandleVSearch(q) ==
  /\ Begin(q, "vsearch") /\ q.limit > 0
  /\ todo' = Keys /\ UNCHANGED shards

ScoreOf(k) == Score[data[k].value]
Candidate(k) == k \in Wanted(req, data, since) /\ ScoreOf(k) > 0
IsRoot(k) == k \in found /\ \A l \in found : ScoreOf(k) <= ScoreOf(l)

OfferFirst(k) ==        \* mutant: the item replaced is not the root
  /\ Busy("vsearch") /\ k \in todo /\ todo' = todo \ {k}
  /\ \/ ~Candidate(k) /\ UNCHANGED found
     \/ Candidate(k) /\ Cardinality(found) < req.limit /\ found' = found \cup {k}
     \/ /\ Candidate(k) /\ Cardinality(found) >= req.limit
        /\ \E r \in found : found' = IF ScoreOf(k) > ScoreOf(r) THEN (found \ {r}) \cup {k} ELSE found
  /\ UNCHANGED <<database, req, phase, got, at, list, count, shards, history>>

Offer(k) ==
  /\ Busy("vsearch") /\ k \in todo /\ todo' = todo \ {k}
  /\ \/ ~Candidate(k) /\ UNCHANGED found
     \/ Candidate(k) /\ Cardinality(found) < req.limit /\ found' = found \cup {k}
     \/ /\ Candidate(k) /\ Cardinality(found) >= req.limit
        /\ \E r \in found : IsRoot(r) /\
             found' = IF ScoreOf(k) > ScoreOf(r) THEN (found \ {r}) \cup {k} ELSE found
  /\ UNCHANGED <<database, req, phase, got, at, list, count, shards, history>>

(* The roots fill the answer from its end.                                   *)
PopRoot(k) ==
  /\ Busy("vsearch") /\ todo = {} /\ IsRoot(k)
  /\ found' = found \ {k} /\ list' = <<k>> \o list
  /\ UNCHANGED <<database, req, phase, todo, got, at, count, shards, history>>

AnswerVSearch ==
  /\ Busy("vsearch") /\ todo = {} /\ found = {} /\ phase' = "answered"
  /\ UNCHANGED <<database, req, todo, got, at, list, count, found, shards, history>>
---------------------------------------------------------------------------
(* Find and Query: the keys, in the order of the map, are cut into shards,   *)
(* which goroutines scan side by side.                                       *)
ShardsOneShort(keys) ==     \* mutant: the number of shards is rounded down
  LET n == Len(keys)
  IN  {Range(SubSeq(keys, i * Block + 1, Lower(i * Block + Block, n))) : i \in 0 .. n \div Block - 1}

Shards(keys) ==
  LET n == Len(keys)
      chunks == (n + Block - 1) \div Block
  IN  {Range(SubSeq(keys, i * Block + 1, Lower(i * Block + Block, n))) : i \in 0 .. chunks - 1}

HandleFind(q) ==
  /\ q.op \in Finds /\ Begin(q, q.op)
  /\ \E keys \in SetToSeqs({k \in Keys : data[k] # Nil}) : shards' = Shards(keys)
  /\ todo' = {}

Scanning == phase = "busy" /\ req.op \in Finds

ScanShard(chunk) ==
  /\ Scanning /\ chunk \in shards /\ shards' = shards \ {chunk}
  /\ found' = found \cup (chunk \cap Wanted(req, data, since))
  /\ UNCHANGED <<database, req, phase, todo, got, at, list, count, history>>

(* sortAndCollect: newest first, then by what is displayed, the key of a     *)
(* find and the key with its value of a query; no more than limit, if any.   *)
Shown(k) == IF req.op = "query" THEN Display[k][data[k].value] ELSE k

Before(k, l) ==
  data[k].time > data[l].time \/ (data[k].time = data[l].time /\ Shown(k) < Shown(l))

AnswerFind ==
  /\ Scanning /\ shards = {} /\ phase' = "answered"
  /\ \E all \in SetToSeqs(found) :
       /\ \A i, j \in DOMAIN all : i < j => ~Before(all[j], all[i])
       /\ list' = IF req.limit > 0 /\ req.limit < Len(all) THEN SubSeq(all, 1, req.limit) ELSE all
  /\ UNCHANGED <<database, req, todo, got, at, count, found, shards, history>>
---------------------------------------------------------------------------
(* The other connections. Nothing is written while a find, a query or a      *)
(* search reads. Only a Del, a sweep or a Get takes an entry out of db.data: *)
(* a Set or an Expire of a key that is there changes its entry in place.     *)
Unlocked == phase = "busy" /\ req.op \notin {"vsearch"} \cup Finds

Watch == got' = [got EXCEPT !.same = @ /\ data'[Least(todo)] # Nil]

Change(k, e) ==
  /\ Unlocked /\ writes > 0 /\ writes' = writes - 1
  /\ data' = [data EXCEPT ![k] = e] /\ Watch
  /\ touched' = touched \cup {k}
  /\ UNCHANGED <<now, req, phase, todo, at, list, count, found, shards, failed>>
  /\ Observe

SetByOther(k, v, x) == Change(k, [value |-> v, time |-> now, exp |-> x])
DelByOther(k) == data[k] # Nil /\ Change(k, Nil)
ExpireByOther(k, x) == data[k] # Nil /\ Change(k, [data[k] EXCEPT !.exp = x])

(* cleanExpired; and a second passes.                                        *)
Swept(k) == IF LiveAt(data[k], now) THEN data[k] ELSE Nil

CleanExpired ==
  /\ Unlocked /\ \E k \in Keys : Swept(k) # data[k]
  /\ data' = [k \in Keys |-> Swept(k)] /\ Watch
  /\ UNCHANGED <<now, writes, req, phase, todo, at, list, count, found, shards, history>>

Tick ==
  /\ phase = "busy" /\ now < MaxTime /\ now' = now + 1
  /\ touched' = touched \cup {k \in Keys : LiveAt(data[k], now) /\ ~LiveAt(data[k], now + 1)}
  /\ UNCHANGED <<data, writes, req, phase, todo, got, at, list, count, found, shards, failed>>
  /\ Observe
---------------------------------------------------------------------------
Next ==
  \/ \E q \in Requests : HandleEntries(q)
  \/ ReadEntry
  \/ CheckEntry
  \/ AnswerEntries
  \/ \E q \in Requests : HandleExpire(q)
  \/ ExpireOne
  \/ AnswerExpire
  \/ \E q \in Requests : HandleKeys(q)
  \/ KeysPage
  \/ LastPage
  \/ \E q \in Requests : HandleVSearch(q)
  \/ \E k \in Keys : Offer(k)
  \/ \E k \in Keys : PopRoot(k)
  \/ AnswerVSearch
  \/ \E q \in Requests : HandleFind(q)
  \/ \E chunk \in shards : ScanShard(chunk)
  \/ AnswerFind
  \/ \E k \in Keys, v \in Values, x \in Time \cup {Nil} : SetByOther(k, v, x)
  \/ \E k \in Keys : DelByOther(k)
  \/ \E k \in Keys, x \in Time : ExpireByOther(k, x)
  \/ CleanExpired
  \/ Tick

Spec == Init /\ [][Next]_vars
---------------------------------------------------------------------------
(* Every variable stays in its domain; the histories are about the request.  *)
TypeOK ==
  /\ data \in [Keys -> Entry \cup {Nil}] /\ now \in Time /\ writes \in 0 .. MaxWrites
  /\ req \in Requests \cup {NoRequest} /\ phase \in {"idle", "busy", "answered"}
  /\ (phase = "idle") <=> (req = NoRequest)
  /\ todo \subseteq Keys /\ (req.op = "entries" => todo \subseteq req.pattern)
  /\ got \in [entry : Entry \cup {Nil}, same : BOOLEAN]
  /\ at \in 0 .. Len(req.asked) /\ failed \subseteq 1 .. at
  /\ list \in Seq(Keys) /\ count \in Nat
  /\ found \subseteq Keys /\ shards \subseteq SUBSET Keys
  /\ since \in 1 .. now
  /\ steady \subseteq ever /\ ever \subseteq req.pattern /\ touched \subseteq Keys

(* entries answers, in order and once each, keys that could be answered at   *)
(* some moment since the request came, and every key that could be at all of *)
(* them; unless there are more than the limit, when it is the last of them   *)
(* (doc.md: keeps the last n). Entries that come, go, expire or are swept    *)
(* between two reads take no other key out of the answer.                    *)
EntriesAnswered ==
  (req.op = "entries" /\ phase = "answered") =>
    /\ Ascending(list) /\ \A i \in DOMAIN list : list[i] \in ever
    /\ req.limit > 0 => Len(list) <= req.limit
    /\ \A k \in steady :
         \/ \E i \in DOMAIN list : list[i] = k
         \/ req.limit > 0 /\ Len(list) = req.limit /\ k < list[1]

(* expire counts every visit to a key that was there throughout, a key named *)
(* twice as often, and none to a key that was absent and nobody else wrote;  *)
(* nor any whose record failed (doc.md: returns keys that received the TTL). *)
(* A key visited that nobody else touched has a deadline as far from some    *)
(* moment of the request as was asked, whether or not it was counted.        *)
ExpireCounts ==
  req.op = "expire" =>
    LET logged == (1 .. at) \ failed
    IN  /\ Cardinality({i \in logged : req.asked[i] \in steady}) <= count
        /\ count <= Cardinality({i \in logged : data[req.asked[i]] # Nil \/ req.asked[i] \in touched})
        /\ \A i \in 1 .. at : req.asked[i] \in steady \ touched =>
             /\ data[req.asked[i]].exp # Nil
             /\ data[req.asked[i]].exp \in since + req.ttl .. now + req.ttl

(* Pages taken one after the other hold, once each, the keys that are there  *)
(* throughout, up to the first key that somebody else wrote or that expired  *)
(* meanwhile: only a key behind such a one may be repeated or left out.      *)
Unmoved(k) == \A j \in touched : j > k
Rank(k) == Cardinality({j \in steady : j <= k})
Times(k) == Cardinality({i \in DOMAIN list : list[i] = k})

PagesCover ==
  req.op = "keys" =>
    \A k \in steady : Unmoved(k) =>
      Times(k) = IF Rank(k) <= count * req.limit \/ phase = "answered" THEN 1 ELSE 0

(* A search keeps as many as was asked for of the entries it has come to, no *)
(* one it let go being nearer than one it keeps, whatever order the map has; *)
(* it answers nearest first.                                                 *)
Kept == found \cup {list[i] : i \in DOMAIN list}

SearchBest ==
  (req.op = "vsearch" /\ phase = "busy") =>
    /\ Kept \subseteq {k \in Keys \ todo : Candidate(k)}
    /\ \A k \in Keys \ todo : Candidate(k) /\ k \notin Kept =>
         Cardinality(Kept) = req.limit /\ \A l \in Kept : ScoreOf(l) >= ScoreOf(k)
    /\ \A i, j \in DOMAIN list : i < j => ScoreOf(list[i]) >= ScoreOf(list[j])
    /\ \A k \in found, i \in DOMAIN list : ScoreOf(k) >= ScoreOf(list[i])

(* A find and a query answer matching entries, once each, the newest first   *)
(* and those of a second in the order in which they are displayed, and leave *)
(* out none that goes before one of these, however the keys were cut into    *)
(* shards.                                                                   *)
FindNewest ==
  (req.op \in Finds /\ phase = "answered") =>
    LET all == Wanted(req, data, since)
    IN  /\ Range(list) \subseteq all
        /\ \A i, j \in DOMAIN list : i < j => list[i] # list[j] /\ ~Before(list[j], list[i])
        /\ \A k \in all \ Range(list) :
             req.limit > 0 /\ Len(list) = req.limit /\ \A i \in DOMAIN list : ~Before(k, list[i])
============================================================================
