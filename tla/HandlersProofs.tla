--------------------------- MODULE HandlersProofs --------------------------
(* Theorems about Handlers, for any keys, values, requests and any number of *)
(* writes and seconds in between: what the six requests answer.              *)
EXTENDS Handlers, FiniteSetTheorems, FunctionTheorems, SequenceTheorems, WellFoundedInduction,
        TLAPS

(* The domains that the requests share.                                      *)
Base ==
  /\ data \in [Keys -> Entry \cup {Nil}] /\ now \in Time
  /\ req \in Request \cup {NoRequest} /\ phase \in {"idle", "busy", "answered"}
  /\ todo \subseteq Keys
  /\ got \in [entry : Entry \cup {Nil}, same : BOOLEAN]

(* What could be answered at every moment can be now, and what can be now is *)
(* among what could be at some moment.                                       *)
History ==
  phase # "idle" => steady \subseteq Wanted(req, data, now) /\ Wanted(req, data, now) \subseteq ever

(* entries: the copy of an entry is of the next key to check. While the copy *)
(* could be answered, so could the key at some moment; and a key that could  *)
(* be throughout is still held by the entry that was copied.                 *)
CopyHeld ==
  /\ todo # {}
  /\ LiveAt(got.entry, now) /\ Passes(req, got.entry) => Least(todo) \in ever
  /\ Least(todo) \in steady => Passes(req, got.entry) /\ got.same
Copied == got # NoCopy => CopyHeld

(* What is in the list comes before what is still to read, and a key that    *)
(* could be answered throughout is in one or the other.                      *)
Reading ==
  (req.op = "entries" /\ phase = "busy") =>
    /\ Copied
    /\ todo \subseteq req.pattern
    /\ list \in Seq(Keys) /\ Ascending(list)
    /\ \A i \in 1 .. Len(list) : list[i] \in ever /\ \A k \in todo : list[i] < k
    /\ \A k \in steady : k \in todo \/ \E i \in 1 .. Len(list) : list[i] = k

(* expire: a key that has been visited and nobody else touched is absent or  *)
(* live, as a key it was given a deadline for is.                            *)
Intact ==
  \A i \in 1 .. at : req.asked[i] \notin touched /\ data[req.asked[i]] # Nil =>
    LiveAt(data[req.asked[i]], now)
Expiring ==
  req.op = "expire" =>
    /\ phase # "idle" /\ req.ttl > 0 /\ at \in Nat /\ failed \subseteq 1 .. at /\ count \in Nat
    /\ since \in Nat /\ since <= now
    /\ Intact
    /\ ExpireCounts

(* vsearch: nothing is popped before every entry has been offered, and the   *)
(* heap never holds more than was asked for.                                 *)
Searching ==
  (req.op = "vsearch" /\ phase = "busy") =>
    /\ list \in Seq(Keys) /\ (todo # {} => list = <<>>)
    /\ found \subseteq Keys /\ Cardinality(found) <= req.limit
    /\ SearchBest

(* The rest of TypeOK.                                                       *)
Domains ==
  /\ req \in Requests \cup {NoRequest} /\ ((phase = "idle") <=> (req = NoRequest))
  /\ writes \in 0 .. MaxWrites /\ since \in 1 .. now
  /\ (req.op = "entries" => todo \subseteq req.pattern)
  /\ at \in 0 .. Len(req.asked) /\ failed \subseteq 1 .. at
  /\ list \in Seq(Keys) /\ count \in Nat
  /\ found \subseteq Keys /\ shards \subseteq SUBSET Keys
  /\ steady \subseteq ever /\ ever \subseteq req.pattern /\ touched \subseteq Keys

(* keys: a key that nobody else touched could be answered throughout or at   *)
(* no moment; an unmoved one is in the list, once, when its page is.         *)
Once(k) == \E i \in DOMAIN list : \A j \in DOMAIN list : list[j] = k <=> j = i
Never(k) == \A j \in DOMAIN list : list[j] # k
Placed(k) == IF Rank(k) <= count * req.limit \/ phase = "answered" THEN Once(k) ELSE Never(k)
Paging ==
  req.op = "keys" =>
    /\ phase # "idle" /\ req.limit > 0
    /\ ever \subseteq steady \cup touched
    /\ \A k \in steady : Unmoved(k) => Placed(k)

(* find, query: a matching entry has been found or is in a shard to scan.    *)
Finding ==
  Scanning =>
    /\ found \subseteq Wanted(req, data, since)
    /\ Wanted(req, data, since) \subseteq found \cup UNION shards

HandlersInv ==
  /\ Base /\ Domains /\ History
  /\ Reading /\ EntriesAnswered /\ Expiring /\ Paging /\ Searching /\ Finding /\ FindNewest
---------------------------------------------------------------------------
LEMMA LeastIn ==
  ASSUME NEW S \in SUBSET Nat, S # {}
  PROVE  Least(S) \in S /\ \A l \in S : Least(S) <= l
<1>1. PICK k \in S : \A l \in S : ~(<<l, k>> \in OpToRel(<, Nat))
  BY NatLessThanWellFounded, WFMin
<1>2. ASSUME NEW l \in S
      PROVE  k <= l
  <2>1. <<l, k>> \in Nat \X Nat /\ ~(<<l, k>>[1] < <<l, k>>[2])
    BY <1>1 DEF OpToRel
  <2> QED BY <2>1
<1> QED BY <1>2 DEF Least

(* Requests are about keys, and their bounds are numbers.                    *)
LEMMA RequestTypes == Requests \subseteq Request
BY RequestsAssumption

LEMMA RequestParts ==
  ASSUME Base
  PROVE  /\ req.pattern \subseteq Keys /\ req.limit \in Nat /\ req.ttl \in 0 .. MaxTime
         /\ req.asked \in Seq(Keys) /\ Len(req.asked) \in Nat
         /\ req # NoRequest => req \in Request
<1>1. CASE req = NoRequest
  <2>1. req.asked = <<>>
    BY <1>1 DEF NoRequest
  <2>2. req.asked \in Seq(Keys) /\ Len(req.asked) \in Nat
    BY <2>1, EmptySeq
  <2> QED BY <1>1, <2>2, BoundsAssumption DEF NoRequest
<1>2. CASE req \in Request
  BY <1>2 DEF Request
<1> QED BY <1>1, <1>2 DEF Base

LEMMA Entries ==
  ASSUME Base, NEW k \in Keys, data[k] # Nil
  PROVE  data[k] \in Entry
  BY DEF Base

LEMMA Stamped ==
  ASSUME Base, NEW k \in Keys, data[k] # Nil, NEW x \in Deadline
  PROVE  /\ [data[k] EXCEPT !.exp = x] \in Entry /\ [data[k] EXCEPT !.exp = x].exp = x
         /\ [data[k] EXCEPT !.exp = x].value = data[k].value
         /\ [data[k] EXCEPT !.exp = x].time = data[k].time
  BY Entries DEF Entry

LEMMA LaterDeadline ==
  ASSUME Base
  PROVE  req.ttl > 0 => now + req.ttl \in Deadline
  BY RequestParts, BoundsAssumption DEF Base, Time, Deadline

(* A sweep takes nothing that could be answered.                             *)
LEMMA SweepKeeps ==
  ASSUME Base, NEW t, NEW k \in Keys, t = now
  PROVE  /\ Swept(k) \in Entry \cup {Nil}
         /\ LiveAt(Swept(k), t) <=> LiveAt(data[k], t)
         /\ LiveAt(data[k], t) => Swept(k) = data[k]
  BY DEF Base, Swept, LiveAt

(* Base is inductive. *)
LEMMA DataType ==
  ASSUME Base, [Next]_vars
  PROVE  data' \in [Keys -> Entry \cup {Nil}]
<1>1. ASSUME CheckEntry
      PROVE  data' \in [Keys -> Entry \cup {Nil}]
  <2>1. data' \in {data, [data EXCEPT ![Least(todo)] = Nil]}
    BY <1>1 DEF CheckEntry
  <2> QED BY <2>1 DEF Base
<1>2. ASSUME ExpireOne
      PROVE  data' \in [Keys -> Entry \cup {Nil}]
  <2> DEFINE k == req.asked[at + 1]
  <2>1. CASE data[k] # Nil
    <3>1. data' = [data EXCEPT ![k].exp = now + req.ttl]
      BY <1>2, <2>1 DEF ExpireOne
    <3>2. data' = [data EXCEPT ![k] = [data[k] EXCEPT !.exp = now + req.ttl]]
      BY <3>1
    <3>3. now + req.ttl \in Deadline
      BY RequestParts, BoundsAssumption DEF Base, Time, Deadline
    <3>4. CASE k \in Keys
      <4>1. [data[k] EXCEPT !.exp = now + req.ttl] \in Entry
        BY <2>1, <3>3, <3>4, Stamped
      <4> QED BY <3>2, <4>1 DEF Base
    <3>5. CASE k \notin Keys
      BY <3>2, <3>5 DEF Base
    <3> QED BY <3>4, <3>5
  <2>2. CASE data[k] = Nil
    BY <1>2, <2>2 DEF Base, ExpireOne
  <2> QED BY <2>1, <2>2
<1>3. ASSUME NEW k \in Keys, NEW e \in Entry \cup {Nil}, Change(k, e)
      PROVE  data' \in [Keys -> Entry \cup {Nil}]
  BY <1>3 DEF Base, Change
<1>4. ASSUME NEW k \in Keys, NEW v \in Values, NEW x \in Time \cup {Nil}, SetByOther(k, v, x)
      PROVE  data' \in [Keys -> Entry \cup {Nil}]
  <2>1. [value |-> v, time |-> now, exp |-> x] \in Entry
    BY BoundsAssumption DEF Base, Entry, Time, Deadline
  <2> QED BY <1>3, <1>4, <2>1 DEF SetByOther
<1>5. ASSUME NEW k \in Keys, NEW x \in Time, ExpireByOther(k, x)
      PROVE  data' \in [Keys -> Entry \cup {Nil}]
  <2>1. x \in Deadline /\ data[k] # Nil /\ Change(k, [data[k] EXCEPT !.exp = x])
    BY <1>5, BoundsAssumption DEF ExpireByOther, Time, Deadline
  <2>2. [data[k] EXCEPT !.exp = x] \in Entry
    BY <2>1, Stamped
  <2> QED BY <1>3, <2>1, <2>2
<1>6. ASSUME CleanExpired
      PROVE  data' \in [Keys -> Entry \cup {Nil}]
  BY <1>6, SweepKeeps DEF CleanExpired
<1>7. CASE UNCHANGED data
  BY <1>7 DEF Base
<1>8. ASSUME NEW k \in Keys, DelByOther(k)
      PROVE  data' \in [Keys -> Entry \cup {Nil}]
  BY <1>3, <1>8 DEF DelByOther
<1>9. \/ UNCHANGED data
      \/ CheckEntry \/ ExpireOne \/ CleanExpired
      \/ \E k \in Keys : DelByOther(k)
      \/ \E k \in Keys, v \in Values, x \in Time \cup {Nil} : SetByOther(k, v, x)
      \/ \E k \in Keys, x \in Time : ExpireByOther(k, x)
  BY DEF Next, vars, database, Begin, HandleEntries, ReadEntry, AnswerEntries, HandleExpire, AnswerExpire,
         HandleKeys, KeysPage, LastPage, HandleVSearch, Offer, PopRoot, AnswerVSearch, HandleFind,
         ScanShard, AnswerFind, Tick
<1> QED BY <1>1, <1>2, <1>4, <1>5, <1>6, <1>7, <1>8, <1>9

(* How a request comes, goes on and ends. *)
LEMMA RequestSteps ==
  ASSUME Base, [Next]_vars
  PROVE  \/ /\ phase = "idle" /\ phase' = "busy" /\ UNCHANGED <<data, now>>
            /\ \E q \in Requests : Begin(q, q.op)
         \/ /\ phase = "busy" /\ phase' \in {"busy", "answered"} /\ UNCHANGED <<req, since>>
            /\ todo' \subseteq todo
         \/ UNCHANGED vars
<1>1. ASSUME \/ \E q \in Requests : \/ HandleEntries(q) \/ HandleExpire(q) \/ HandleKeys(q)
                                    \/ HandleVSearch(q)
             \/ \E q \in Requests : HandleFind(q)
      PROVE  /\ phase = "idle" /\ phase' = "busy" /\ UNCHANGED <<data, now>>
             /\ \E q \in Requests : Begin(q, q.op)
  BY <1>1 DEF HandleEntries, HandleExpire, HandleKeys, HandleVSearch, HandleFind, Begin, database
<1>2. ASSUME \/ ReadEntry \/ CheckEntry \/ AnswerEntries \/ AnswerExpire \/ KeysPage \/ LastPage
             \/ AnswerVSearch \/ AnswerFind \/ \E chunk \in shards : ScanShard(chunk)
             \/ ExpireOne \/ \E k \in Keys : Offer(k) \/ PopRoot(k)
      PROVE  /\ phase = "busy" /\ phase' \in {"busy", "answered"} /\ UNCHANGED <<req, since>>
             /\ todo' \subseteq todo
  BY <1>2 DEF ReadEntry, CheckEntry, AnswerEntries, AnswerExpire, KeysPage, LastPage, AnswerVSearch,
              AnswerFind, ScanShard, ExpireOne, Offer, PopRoot, Busy, Observe, history, Scanning
<1>3. ASSUME \/ \E k \in Keys : \E e : Change(k, e)
             \/ CleanExpired \/ Tick
      PROVE  /\ phase = "busy" /\ phase' \in {"busy", "answered"} /\ UNCHANGED <<req, since>>
             /\ todo' \subseteq todo
  BY <1>3 DEF Change, CleanExpired, Tick, Unlocked, Observe, history
<1>4. ASSUME \/ \E k \in Keys : DelByOther(k)
             \/ \E k \in Keys, v \in Values, x \in Time \cup {Nil} : SetByOther(k, v, x)
             \/ \E k \in Keys, x \in Time : ExpireByOther(k, x)
      PROVE  \E k \in Keys : \E e : Change(k, e)
  BY <1>4 DEF DelByOther, SetByOther, ExpireByOther
<1> QED BY <1>1, <1>2, <1>3, <1>4 DEF Next

LEMMA BaseStep ==
  ASSUME Base, [Next]_vars
  PROVE  Base'
<1>1. now' \in Time
  <2>1. UNCHANGED now \/ (now < MaxTime /\ now' = now + 1)
    BY DEF Next, vars, database, Begin, HandleEntries, ReadEntry, CheckEntry, AnswerEntries, HandleExpire,
           ExpireOne, AnswerExpire, HandleKeys, KeysPage, LastPage, HandleVSearch, Offer, PopRoot,
           AnswerVSearch, HandleFind, ScanShard, AnswerFind, Change, SetByOther, DelByOther,
           ExpireByOther, CleanExpired, Tick
  <2> QED BY <2>1, BoundsAssumption DEF Base, Time
<1>2. req' \in Request \cup {NoRequest} /\ phase' \in {"idle", "busy", "answered"}
  BY RequestSteps, RequestTypes DEF Base, Begin, vars
<1>3. todo' \subseteq Keys
  <2>1. CASE \E q \in Requests : HandleEntries(q)
    BY <2>1, RequestTypes DEF HandleEntries, Request
  <2>2. CASE ~\E q \in Requests : HandleEntries(q)
    <3>1. \/ todo' \subseteq todo \/ todo' = Keys \/ todo' = {}
      BY <2>2 DEF Next, vars, Begin, ReadEntry, CheckEntry, AnswerEntries, HandleExpire,
             ExpireOne, AnswerExpire, HandleKeys, KeysPage, LastPage, HandleVSearch, Offer, PopRoot,
             AnswerVSearch, HandleFind, ScanShard, AnswerFind, Change, SetByOther, DelByOther,
             ExpireByOther, CleanExpired, Tick
    <3> QED BY <3>1 DEF Base
  <2> QED BY <2>1, <2>2
<1>4. got' \in [entry : Entry \cup {Nil}, same : BOOLEAN]
  <2>1. NoCopy \in [entry : Entry \cup {Nil}, same : BOOLEAN]
    BY DEF NoCopy
  <2>2. CASE ReadEntry
    <3>1. todo # {} /\ Least(todo) \in Keys
      BY <2>2, LeastIn, KeysAssumption DEF Base, ReadEntry
    <3>2. got' = got \/ got' = [entry |-> data[Least(todo)], same |-> TRUE]
      BY <2>2 DEF ReadEntry
    <3>3. data[Least(todo)] \in Entry \cup {Nil} /\ TRUE \in BOOLEAN
      BY <3>1 DEF Base
    <3>4. [entry |-> data[Least(todo)], same |-> TRUE] \in [entry : Entry \cup {Nil}, same : BOOLEAN]
      BY <3>3
    <3> QED BY <3>2, <3>4 DEF Base
  <2>3. CASE CleanExpired \/ \E k \in Keys : \E e : Change(k, e)
    <3>1. Watch
      BY <2>3 DEF CleanExpired, Change
    <3>2. got.entry \in Entry \cup {Nil} /\ got.same \in BOOLEAN
      BY DEF Base
    <3>3. /\ got' = [got EXCEPT !.same = got.same /\ data'[Least(todo)] # Nil]
          /\ DOMAIN got = {"entry", "same"}
      BY <3>1 DEF Watch, Base
    <3>4. (got.same /\ data'[Least(todo)] # Nil) \in BOOLEAN
      OBVIOUS
    <3> QED BY <3>2, <3>3, <3>4
  <2>4. ASSUME \/ \E k \in Keys : DelByOther(k)
               \/ \E k \in Keys, v \in Values, x \in Time \cup {Nil} : SetByOther(k, v, x)
               \/ \E k \in Keys, x \in Time : ExpireByOther(k, x)
        PROVE  \E k \in Keys : \E e : Change(k, e)
    BY <2>4 DEF DelByOther, SetByOther, ExpireByOther
  <2>5. \/ got' = NoCopy \/ UNCHANGED got
        \/ ReadEntry \/ CleanExpired \/ \E k \in Keys : \E e : Change(k, e)
    BY <2>4 DEF Next, vars, Begin, HandleEntries, CheckEntry, AnswerEntries, HandleExpire,
           ExpireOne, AnswerExpire, HandleKeys, KeysPage, LastPage, HandleVSearch, Offer, PopRoot,
           AnswerVSearch, HandleFind, ScanShard, AnswerFind, Tick
  <2> QED BY <2>1, <2>2, <2>3, <2>5 DEF Base
<1> QED BY <1>1, <1>2, <1>3, <1>4, DataType DEF Base

(* History is inductive. *)
LEMMA HistoryStep ==
  ASSUME Base, History, [Next]_vars
  PROVE  History'
<1>1. CASE \E q \in Requests : Begin(q, q.op)
  BY <1>1 DEF Begin, database, History
<1>2. CASE Observe /\ UNCHANGED req
  BY <1>2 DEF Observe, History
<1>3. CASE CleanExpired
  <2>1. /\ data' = [k \in Keys |-> Swept(k)] /\ phase # "idle"
        /\ UNCHANGED <<now, req, steady, ever>>
    BY <1>3 DEF CleanExpired, Unlocked, history
  <2>2. ASSUME NEW k \in Keys
        PROVE  LiveAt(data'[k], now) /\ Passes(req, data'[k]) <=> LiveAt(data[k], now) /\ Passes(req, data[k])
    <3>1. data'[k] = Swept(k)
      BY <2>1
    <3> QED BY <3>1, SweepKeeps
  <2>3. Wanted(req, data', now) = Wanted(req, data, now)
    BY <2>2, RequestParts DEF Wanted
  <2> QED BY <2>1, <2>3 DEF History
<1>4. CASE UNCHANGED <<data, now, req, steady, ever>> /\ (phase = "idle" => phase' = "idle")
  BY <1>4 DEF History
<1>5. \/ \E q \in Requests : Begin(q, q.op)
      \/ Observe /\ UNCHANGED req
      \/ CleanExpired
      \/ UNCHANGED <<data, now, req, steady, ever>> /\ (phase = "idle" => phase' = "idle")
  <2>1. CASE \/ \E q \in Requests : \/ HandleEntries(q) \/ HandleExpire(q) \/ HandleKeys(q)
                                    \/ HandleVSearch(q)
             \/ \E q \in Requests : HandleFind(q)
    BY <2>1 DEF HandleEntries, HandleExpire, HandleKeys, HandleVSearch, HandleFind, Begin
  <2>2. CASE \/ CheckEntry \/ Tick
             \/ ExpireOne
             \/ \E k \in Keys : \E e : Change(k, e)
    BY <2>2 DEF CheckEntry, Tick, ExpireOne, Change
  <2>3. CASE \/ ReadEntry \/ AnswerEntries \/ AnswerExpire \/ KeysPage \/ LastPage
             \/ AnswerVSearch \/ AnswerFind \/ \E chunk \in shards : ScanShard(chunk)
             \/ \E k \in Keys : Offer(k) \/ PopRoot(k)
             \/ UNCHANGED vars
    BY <2>3 DEF ReadEntry, AnswerEntries, AnswerExpire, KeysPage, LastPage, AnswerVSearch, AnswerFind,
                ScanShard, Offer, PopRoot, Busy, database, history, vars, Scanning
  <2>4. ASSUME \/ \E k \in Keys : DelByOther(k)
               \/ \E k \in Keys, v \in Values, x \in Time \cup {Nil} : SetByOther(k, v, x)
               \/ \E k \in Keys, x \in Time : ExpireByOther(k, x)
        PROVE  \E k \in Keys : \E e : Change(k, e)
    BY <2>4 DEF DelByOther, SetByOther, ExpireByOther
  <2> QED BY <2>1, <2>2, <2>3, <2>4 DEF Next
<1> QED BY <1>1, <1>2, <1>3, <1>4, <1>5
---------------------------------------------------------------------------
(* entries *)
LEMMA EntriesBegin ==
  ASSUME Base, NEW q \in Requests, HandleEntries(q)
  PROVE  Reading' /\ EntriesAnswered'
<1>1. /\ req' = q /\ phase' = "busy" /\ list' = <<>>
      /\ todo' = {k \in q.pattern : LiveAt(data[k], now)}
      /\ steady' = Wanted(q, data, now) /\ got' = NoCopy
  BY DEF HandleEntries, Begin
<1>2. list' \in Seq(Keys) /\ Len(list') = 0
  BY <1>1, EmptySeq
<1>3. Ascending(list)'
  BY <1>1, <1>2 DEF Ascending
<1>4. steady' \subseteq todo'
  BY <1>1 DEF Wanted
<1>5. todo' \subseteq q.pattern
  BY <1>1
<1> QED BY <1>1, <1>2, <1>3, <1>4, <1>5 DEF Reading, Copied, NoCopy, EntriesAnswered

LEMMA EntriesRead ==
  ASSUME Base, History, Reading, ReadEntry
  PROVE  Reading' /\ EntriesAnswered'
<1> DEFINE k == Least(todo)
<1>1. /\ req.op = "entries" /\ phase = "busy" /\ todo # {}
      /\ UNCHANGED <<data, now, req, phase, list, steady, ever>>
  BY DEF ReadEntry, Busy, database, history
<1>2. k \in todo /\ k \in Keys
  BY <1>1, LeastIn, KeysAssumption DEF Base
<1>3. /\ todo \subseteq req.pattern /\ list \in Seq(Keys) /\ Ascending(list)
      /\ \A i \in 1 .. Len(list) : list[i] \in ever /\ \A l \in todo : list[i] < l
      /\ \A l \in steady : l \in todo \/ \E i \in 1 .. Len(list) : list[i] = l
      /\ steady \subseteq Wanted(req, data, now) /\ Wanted(req, data, now) \subseteq ever
  BY <1>1 DEF Reading, History
<1>4. EntriesAnswered'
  BY <1>1 DEF EntriesAnswered
<1>5. CASE data[k] = Nil
  <2>1. todo' = todo \ {k} /\ got' = NoCopy
    BY <1>5 DEF ReadEntry
  <2>2. k \notin steady
    BY <1>3, <1>5 DEF Wanted, LiveAt
  <2>3. Copied'
    BY <2>1 DEF Copied, NoCopy
  <2> QED BY <1>1, <1>3, <1>4, <2>1, <2>2, <2>3 DEF Reading, Ascending
<1>6. CASE data[k] # Nil
  <2>1. todo' = todo /\ got' = [entry |-> data[k], same |-> TRUE]
    BY <1>6 DEF ReadEntry
  <2>2. got'.entry = data[k] /\ got'.same
    BY <2>1
  <2>3. LiveAt(data[k], now) /\ Passes(req, data[k]) => k \in ever
    BY <1>2, <1>3 DEF Wanted
  <2>4. k \in steady => Passes(req, data[k])
    BY <1>3 DEF Wanted
  <2>5. Copied'
    <3> HIDE DEF k
    <3>1. Least(todo)' = k
      BY <2>1 DEF k
    <3> QED BY <1>1, <1>2, <1>6, <2>1, <2>2, <2>3, <2>4, <3>1 DEF Copied, CopyHeld, Passes, LiveAt
  <2> QED BY <1>1, <1>3, <1>4, <2>1, <2>5 DEF Reading, Ascending
<1> QED BY <1>5, <1>6

LEMMA EntriesCheck ==
  ASSUME Base, History, Reading, CheckEntry
  PROVE  Reading' /\ EntriesAnswered'
<1> DEFINE k == Least(todo)
           taken == LiveAt(got.entry, now) /\ Passes(req, got.entry)
<1>1. /\ req.op = "entries" /\ phase = "busy" /\ req' = req /\ phase' = "busy"
      /\ got # NoCopy /\ Copied /\ todo # {} /\ todo' = todo \ {k}
      /\ list' = IF taken THEN Append(list, k) ELSE list
      /\ steady' = steady \cap Wanted(req, data', now) /\ ever \subseteq ever'
      /\ ~LiveAt(got.entry, now) => data' = IF got.same THEN [data EXCEPT ![k] = Nil] ELSE data
  <2>1. req.op = "entries" /\ phase = "busy" /\ got # NoCopy
    BY DEF CheckEntry, Busy
  <2>2. Copied
    BY <2>1 DEF Reading
  <2> QED BY <2>1, <2>2 DEF CheckEntry, Observe, Copied, CopyHeld
<1>2. k \in todo /\ k \in Keys /\ k \in Nat /\ \A l \in todo : l \in Nat /\ (l # k => k < l)
  <2>1. todo \subseteq Nat
    BY KeysAssumption DEF Base
  <2>2. k \in todo /\ \A l \in todo : k <= l
    BY <1>1, <2>1, LeastIn
  <2>3. \A l \in todo : l # k => k < l
    <3> HIDE DEF k
    <3> QED BY <2>1, <2>2
  <2> QED BY <2>1, <2>2, <2>3 DEF Base
<1>3. /\ todo \subseteq req.pattern /\ list \in Seq(Keys) /\ Ascending(list)
      /\ \A i \in 1 .. Len(list) : list[i] \in ever /\ \A l \in todo : list[i] < l
      /\ \A l \in steady : l \in todo \/ \E i \in 1 .. Len(list) : list[i] = l
  BY <1>1 DEF Reading
<1>4. taken => k \in ever
  BY <1>1 DEF Copied, CopyHeld
<1>5. k \in steady' => taken
  <2>1. SUFFICES ASSUME k \in steady'
                 PROVE  LiveAt(got.entry, now)
    BY <1>1 DEF Copied, CopyHeld
  <2>2. got.same /\ data'[k] # Nil
    BY <1>1, <2>1 DEF Copied, CopyHeld, Wanted, LiveAt
  <2> QED BY <1>1, <1>2, <2>2 DEF Base
<1>6. Copied'
  BY DEF CheckEntry, Copied, NoCopy
<1> HIDE DEF taken, k
<1>7. CASE taken
  <2>1. /\ list' \in Seq(Keys) /\ Len(list') = Len(list) + 1 /\ Len(list) \in Nat
        /\ \A i \in 1 .. Len(list) : list'[i] = list[i]
        /\ list'[Len(list) + 1] = k
    BY <1>1, <1>2, <1>3, <1>7, AppendProperties
  <2>2. \A i \in 1 .. Len(list') : i \in 1 .. Len(list) \/ i = Len(list) + 1
    BY <2>1
  <2>3. \A i \in 1 .. Len(list') : list'[i] \in ever' /\ \A l \in todo' : list'[i] < l
    BY <1>1, <1>2, <1>3, <1>4, <1>7, <2>1, <2>2
  <2>4. Ascending(list)'
    <3>1. DOMAIN list' = 1 .. Len(list') /\ DOMAIN list = 1 .. Len(list)
      BY <1>3, <2>1
    <3>2. \A i \in 1 .. Len(list) : list[i] < k
      BY <1>2, <1>3
    <3> QED BY <1>3, <2>1, <2>2, <3>1, <3>2 DEF Ascending
  <2>5. ASSUME NEW l \in steady'
        PROVE  l \in todo' \/ \E i \in 1 .. Len(list') : list'[i] = l
    <3>1. CASE l = k
      BY <2>1, <3>1
    <3>2. CASE l # k /\ l \in todo
      BY <1>1, <3>2
    <3>3. CASE l \notin todo
      <4>1. PICK i \in 1 .. Len(list) : list[i] = l
        BY <1>1, <1>3, <3>3
      <4> QED BY <2>1, <4>1
    <3> QED BY <3>1, <3>2, <3>3
  <2> QED BY <1>1, <1>3, <1>6, <2>1, <2>3, <2>4, <2>5 DEF Reading, EntriesAnswered
<1>8. CASE ~taken
  <2>1. list' = list /\ \A l \in steady' : l # k
    BY <1>1, <1>5, <1>8
  <2> QED BY <1>1, <1>3, <1>6, <2>1 DEF Reading, EntriesAnswered, Ascending
<1> QED BY <1>7, <1>8

(* An entry whose deadline is still to come was live before.                 *)
LEMMA Aging ==
  ASSUME NEW e \in Entry \cup {Nil}, NEW t \in Nat, LiveAt(e, t + 1)
  PROVE  LiveAt(e, t)
<1>1. e \in Entry /\ (e.exp = Nil \/ e.exp \in Nat)
  BY BoundsAssumption DEF LiveAt, Entry, Deadline
<1> QED BY <1>1 DEF LiveAt

(* The copy of an entry while others write, sweep and time passes: the entry *)
(* leaves the database only when its key can no longer be answered.          *)
LEMMA CopyWaits ==
  ASSUME Base, History, Copied, phase = "busy",
         \/ CleanExpired \/ Tick \/ \E k \in Keys : \E e : Change(k, e)
  PROVE  Copied'
<1> DEFINE k == Least(todo)
<1>1. /\ UNCHANGED <<req, todo>> /\ steady' \subseteq steady /\ ever \subseteq ever'
      /\ got'.entry = got.entry /\ (got'.same <=> got.same /\ (Tick \/ data'[k] # Nil))
      /\ got' # NoCopy => got # NoCopy
  <2>1. got.entry \in Entry \cup {Nil} /\ got.same \in BOOLEAN /\ got = [entry |-> got.entry, same |-> got.same]
    BY DEF Base
  <2>2. CASE Tick
    BY <2>2 DEF Tick, Observe
  <2>3. CASE CleanExpired \/ \E l \in Keys : \E e : Change(l, e)
    <3>1. got' = [got EXCEPT !.same = @ /\ data'[k] # Nil]
      BY <2>3 DEF CleanExpired, Change, Watch
    <3>2. got'.entry = got.entry /\ (got'.same <=> got.same /\ data'[k] # Nil)
      BY <2>1, <3>1
    <3>3. ASSUME got = NoCopy
          PROVE  got' = NoCopy
      <4>1. got = [entry |-> Nil, same |-> FALSE] /\ ~got.same
        BY <3>3 DEF NoCopy
      <4>2. (got.same /\ data'[k] # Nil) = FALSE
        BY <4>1
      <4>3. got' = [got EXCEPT !.same = FALSE]
        BY <3>1, <4>2
      <4> HIDE DEF k
      <4> QED BY <4>1, <4>3 DEF NoCopy
    <3>4. /\ UNCHANGED <<req, todo>> /\ steady' \subseteq steady /\ ever \subseteq ever'
      BY <2>3 DEF CleanExpired, Change, Observe, history
    <3>5. Tick => UNCHANGED data
      BY DEF Tick
    <3>6. Tick => UNCHANGED got
      BY DEF Tick
    <3> QED BY <3>2, <3>3, <3>4, <3>6
  <2> QED BY <2>2, <2>3
<1>2. ASSUME got' # NoCopy
      PROVE  CopyHeld'
  <2>1. CopyHeld
    BY <1>1, <1>2 DEF Copied
  <2>2. LiveAt(got.entry, now') => LiveAt(got.entry, now)
    <3>1. now \in Nat /\ got.entry \in Entry \cup {Nil} /\ (now' = now \/ now' = now + 1)
      BY DEF Base, Time, CleanExpired, Change, Tick
    <3> QED BY <3>1, Aging
  <2>3. k \in steady' => Tick \/ data'[k] # Nil
    <3>1. CASE CleanExpired
      <4>1. k \in steady' => k \in Keys /\ LiveAt(data[k], now)
        BY <1>1, RequestParts DEF History, Wanted
      <4>2. k \in steady' => data'[k] = data[k] /\ data[k] # Nil
        BY <3>1, <4>1 DEF CleanExpired, Swept, LiveAt
      <4> QED BY <4>2
    <3>2. CASE \E l \in Keys : \E e : Change(l, e)
      BY <3>2 DEF Change, Observe, Wanted, LiveAt
    <3> QED BY <3>1, <3>2
  <2> QED BY <1>1, <2>1, <2>2, <2>3 DEF CopyHeld, Passes, LiveAt
<1> QED BY <1>2 DEF Copied

(* What others do takes nothing from the list and adds nothing to steady.    *)
LEMMA EntriesWait ==
  ASSUME Reading, EntriesAnswered, UNCHANGED <<req, phase, todo, list>>, Copied => Copied',
         steady' \subseteq steady, ever \subseteq ever'
  PROVE  Reading' /\ EntriesAnswered'
<1>1. Reading'
  BY DEF Reading, Ascending
<1>2. EntriesAnswered'
  BY DEF EntriesAnswered, Ascending
<1> QED BY <1>1, <1>2

LEMMA EntriesAnswer ==
  ASSUME Base, Reading, AnswerEntries
  PROVE  Reading' /\ EntriesAnswered'
<1>1. /\ req.op = "entries" /\ phase = "busy" /\ req' = req /\ phase' = "answered"
      /\ todo = {} /\ list' = LastOnes(list, req.limit) /\ steady' = steady /\ ever' = ever
  BY DEF AnswerEntries, Busy, history
<1>2. /\ list \in Seq(Keys) /\ Ascending(list) /\ Len(list) \in Nat
      /\ \A i \in 1 .. Len(list) : list[i] \in ever
      /\ \A l \in steady : \E i \in 1 .. Len(list) : list[i] = l
  BY <1>1 DEF Reading
<1>3. req.limit \in Nat
  BY RequestParts
<1>4. CASE ~(req.limit > 0 /\ Len(list) > req.limit)
  <2>1. list' = list
    BY <1>1, <1>4 DEF LastOnes
  <2>2. DOMAIN list = 1 .. Len(list)
    BY <1>2
  <2> QED BY <1>1, <1>2, <1>3, <1>4, <2>1, <2>2 DEF Reading, EntriesAnswered
<1>5. CASE req.limit > 0 /\ Len(list) > req.limit
  <2> DEFINE m == Len(list) - req.limit
             first == m + 1
  <2>1. /\ m \in Nat /\ first \in 1 .. Len(list) + 1 /\ Len(list) - m = req.limit
        /\ Len(list) \in first - 1 .. Len(list)
    BY <1>2, <1>3, <1>5
  <2>2. list' = SubSeq(list, first, Len(list))
    BY <1>1, <1>5 DEF LastOnes
  <2>4. /\ list' \in Seq(Keys)
        /\ Len(list') = Len(list) - first + 1
        /\ \A i \in 1 .. Len(list) - first + 1 : list'[i] = list[first + i - 1]
    <3> HIDE DEF first
    <3> QED BY <1>2, <2>1, <2>2, SubSeqProperties
  <2> HIDE DEF m
  <2>5. Len(list') = req.limit
    BY <1>2, <1>3, <2>1, <2>4
  <2>6. \A i \in 1 .. Len(list') : m + i \in 1 .. Len(list) /\ list'[i] = list[m + i]
    <3> TAKE i \in 1 .. Len(list')
    <3>1. i \in 1 .. Len(list) - (m + 1) + 1 /\ m + 1 + i - 1 = m + i /\ m + i \in 1 .. Len(list)
      BY <1>2, <1>3, <2>1, <2>5
    <3> QED BY <2>4, <3>1
  <2>7. DOMAIN list' = 1 .. Len(list') /\ DOMAIN list = 1 .. Len(list)
    BY <1>2, <2>4
  <2>8. Ascending(list)'
    <3> SUFFICES ASSUME NEW i \in 1 .. Len(list'), NEW j \in 1 .. Len(list'), i < j
                 PROVE  list'[i] < list'[j]
      BY <2>7 DEF Ascending
    <3>1. /\ m + i \in DOMAIN list /\ m + j \in DOMAIN list /\ m + i < m + j
          /\ list'[i] = list[m + i] /\ list'[j] = list[m + j]
      BY <2>1, <2>6, <2>7
    <3> QED BY <1>2, <3>1 DEF Ascending
  <2>9. \A i \in DOMAIN list' : list'[i] \in ever'
    BY <1>1, <1>2, <2>6, <2>7
  <2>10. ASSUME NEW l \in steady'
         PROVE  (\E i \in DOMAIN list' : list'[i] = l) \/ l < list'[1]
    <3>1. PICK j \in 1 .. Len(list) : list[j] = l
      BY <1>1, <1>2
    <3>2. CASE j > m
      <4>1. j - m \in 1 .. Len(list') /\ m + (j - m) = j
        BY <1>2, <2>1, <2>5, <3>2
      <4>2. list'[j - m] = l
        BY <2>6, <3>1, <4>1
      <4> QED BY <2>7, <4>1, <4>2
    <3>3. CASE j <= m
      <4>1. 1 \in 1 .. Len(list') /\ m + 1 \in 1 .. Len(list) /\ j < m + 1
        BY <1>2, <1>3, <1>5, <2>1, <2>5, <3>3
      <4>2. list'[1] = list[m + 1]
        BY <2>6, <4>1
      <4> QED BY <1>2, <2>7, <3>1, <4>1, <4>2 DEF Ascending
    <3> QED BY <2>1, <3>2, <3>3
  <2>11. Reading'
    BY <1>1 DEF Reading
  <2>12. EntriesAnswered'
    <3>1. /\ \A i \in DOMAIN list' : list'[i] \in ever'
          /\ req'.limit > 0 => Len(list') <= req'.limit
          /\ \A k \in steady' :
               \/ \E i \in DOMAIN list' : list'[i] = k
               \/ req'.limit > 0 /\ Len(list') = req'.limit /\ k < list'[1]
      BY <1>1, <1>3, <1>5, <2>5, <2>9, <2>10
    <3> QED BY <2>8, <3>1 DEF EntriesAnswered
  <2> QED BY <2>11, <2>12
<1> QED BY <1>4, <1>5

(* Steps after which the request is not one of entries, or nothing of it is  *)
(* changed, leave Reading and EntriesAnswered true.                          *)
LEMMA EntriesStep ==
  ASSUME Base, History, Reading, EntriesAnswered, [Next]_vars
  PROVE  Reading' /\ EntriesAnswered'
<1>1. CASE \E q \in Requests : HandleEntries(q)
  BY <1>1, EntriesBegin
<1>2. CASE ReadEntry
  BY <1>2, EntriesRead
<1>3. CASE CheckEntry \/ AnswerEntries
  BY <1>3, EntriesCheck, EntriesAnswer
<1>4. CASE \/ CleanExpired \/ Tick \/ UNCHANGED vars
           \/ \E k \in Keys : \E e : Change(k, e)
  <2>1. /\ UNCHANGED <<req, phase, todo, list>>
        /\ steady' \subseteq steady /\ ever \subseteq ever'
    BY <1>4 DEF CleanExpired, Tick, Change, Observe, history, vars
  <2>2. CASE UNCHANGED vars
    <3>1. Copied => Copied'
      BY <2>2 DEF Copied, CopyHeld, LiveAt, Passes, vars, database, history
    <3> QED BY <2>1, <3>1, EntriesWait
  <2>3. CASE ~UNCHANGED vars
    <3>1. phase = "busy"
      BY <1>4, <2>3 DEF CleanExpired, Tick, Change, Unlocked
    <3>2. Copied => Copied'
      BY <1>4, <2>3, <3>1, CopyWaits
    <3> QED BY <2>1, <3>2, EntriesWait
  <2> QED BY <2>2, <2>3
<1>5. ASSUME req'.op # "entries"
      PROVE  Reading' /\ EntriesAnswered'
  BY <1>5 DEF Reading, EntriesAnswered
<1>6. CASE \/ \E q \in Requests : HandleExpire(q) \/ HandleKeys(q) \/ HandleVSearch(q)
           \/ \E q \in Requests : HandleFind(q)
           \/ AnswerExpire \/ KeysPage \/ LastPage \/ AnswerVSearch \/ AnswerFind
           \/ \E chunk \in shards : ScanShard(chunk)
           \/ ExpireOne \/ \E k \in Keys : Offer(k) \/ PopRoot(k)
  <2>1. req'.op # "entries"
    BY <1>6 DEF HandleExpire, HandleKeys, HandleVSearch, HandleFind, Begin, AnswerExpire, KeysPage,
                LastPage, AnswerVSearch, AnswerFind, ScanShard, ExpireOne, Offer, PopRoot, Busy, Scanning, Finds
  <2> QED BY <1>5, <2>1
<1>7. ASSUME \/ \E k \in Keys : DelByOther(k)
             \/ \E k \in Keys, v \in Values, x \in Time \cup {Nil} : SetByOther(k, v, x)
             \/ \E k \in Keys, x \in Time : ExpireByOther(k, x)
      PROVE  \E k \in Keys : \E e : Change(k, e)
  BY <1>7 DEF DelByOther, SetByOther, ExpireByOther
<1> QED BY <1>1, <1>2, <1>3, <1>4, <1>6, <1>7 DEF Next
---------------------------------------------------------------------------
(* expire *)

(* Counting one more.                                                        *)
LEMMA OneMoreOf ==
  ASSUME NEW S, IsFiniteSet(S), NEW k
  PROVE  /\ Cardinality(S) \in Nat
         /\ \A T \in SUBSET S : Cardinality(T) \in Nat /\ Cardinality(T) <= Cardinality(S)
         /\ Cardinality(S \cup {k}) <= Cardinality(S) + 1
         /\ k \notin S => Cardinality(S \cup {k}) = Cardinality(S) + 1
         /\ k \in S => Cardinality(S \ {k}) = Cardinality(S) - 1
<1>1. Cardinality(S) \in Nat
  BY FS_CardinalityType
<1>2. \A T \in SUBSET S : Cardinality(T) \in Nat /\ Cardinality(T) <= Cardinality(S)
  BY FS_Subset, FS_CardinalityType
<1>3. Cardinality(S \cup {k}) = IF k \in S THEN Cardinality(S) ELSE Cardinality(S) + 1
  BY FS_AddElement
<1>4. Cardinality(S \ {k}) = IF k \in S THEN Cardinality(S) - 1 ELSE Cardinality(S)
  BY FS_RemoveElement
<1> QED BY <1>1, <1>2, <1>3, <1>4

LEMMA OneMore ==
  ASSUME NEW S \in SUBSET Keys, NEW k \in Keys
  PROVE  /\ Cardinality(S) \in Nat
         /\ \A T \in SUBSET S : Cardinality(T) <= Cardinality(S)
         /\ Cardinality(S \cup {k}) <= Cardinality(S) + 1
         /\ k \notin S => Cardinality(S \cup {k}) = Cardinality(S) + 1
         /\ k \in S => Cardinality(S \ {k}) = Cardinality(S) - 1
<1>1. IsFiniteSet(S)
  BY FS_Subset, KeysAssumption
<1> QED BY <1>1, OneMoreOf

LEMMA MoreOrAsMany ==
  ASSUME NEW S \in SUBSET Keys, NEW T \in SUBSET S
  PROVE  Cardinality(T) \in Nat /\ Cardinality(S) \in Nat /\ Cardinality(T) <= Cardinality(S)
<1>1. IsFiniteSet(S) /\ IsFiniteSet(T)
  BY FS_Subset, KeysAssumption
<1> QED BY <1>1, FS_CardinalityType, FS_Subset

(* The parts of ExpireCounts: the visits whose record was written, those to  *)
(* a key that was there throughout, and those to one that was or was touched.*)
Logged == (1 .. at) \ failed
Sure == {i \in Logged : req.asked[i] \in steady}
There == {i \in Logged : data[req.asked[i]] # Nil \/ req.asked[i] \in touched}
Due ==
  \A i \in 1 .. at : req.asked[i] \in steady \ touched =>
    /\ data[req.asked[i]].exp # Nil
    /\ data[req.asked[i]].exp \in since + req.ttl .. now + req.ttl
Counted == Cardinality(Sure) <= count /\ count <= Cardinality(There)
Settled ==
  /\ phase # "idle" /\ req.ttl > 0 /\ at \in Nat /\ failed \subseteq 1 .. at /\ count \in Nat
  /\ since \in Nat /\ since <= now

LEMMA ExpiringParts ==
  Expiring <=> (req.op = "expire" => Settled /\ Intact /\ Counted /\ Due)
BY DEF Expiring, ExpireCounts, Settled, Counted, Due, Logged, Sure, There

(* Both counts when the visits that are certain are no more than before and  *)
(* those that may be counted no fewer, or there is one more of each.         *)
LEMMA CountsKept ==
  ASSUME Settled, Settled', Counted, Sure' \subseteq Sure, There \subseteq There', count' = count
  PROVE  Counted'
<1>1. IsFiniteSet(Sure) /\ IsFiniteSet(There')
  <2>1. IsFiniteSet(1 .. at) /\ IsFiniteSet(1 .. at')
    BY FS_Interval DEF Settled
  <2>2. Sure \subseteq 1 .. at /\ There' \subseteq 1 .. at'
    BY DEF Sure, There, Logged
  <2> QED BY <2>1, <2>2, FS_Subset
<1>2. /\ Cardinality(Sure) \in Nat /\ Cardinality(Sure') \in Nat /\ Cardinality(Sure') <= Cardinality(Sure)
      /\ Cardinality(There) \in Nat /\ Cardinality(There') \in Nat
      /\ Cardinality(There) <= Cardinality(There')
  BY <1>1, OneMoreOf
<1> QED BY <1>2 DEF Counted, Settled

LEMMA CountsGrow ==
  ASSUME Settled, Counted, NEW i, i \notin There,
         Sure' \subseteq Sure \cup {i}, There' = There \cup {i}, count' = count + 1
  PROVE  Counted'
<1>1. IsFiniteSet(Sure) /\ IsFiniteSet(There)
  <2>1. IsFiniteSet(1 .. at)
    BY FS_Interval DEF Settled
  <2>2. Sure \subseteq 1 .. at /\ There \subseteq 1 .. at
    BY DEF Sure, There, Logged
  <2> QED BY <2>1, <2>2, FS_Subset
<1>2. IsFiniteSet(Sure \cup {i})
  BY <1>1, FS_AddElement
<1>3. /\ Cardinality(Sure) \in Nat /\ Cardinality(Sure \cup {i}) <= Cardinality(Sure) + 1
      /\ Cardinality(There) \in Nat /\ Cardinality(There \cup {i}) = Cardinality(There) + 1
  BY <1>1, OneMoreOf
<1>4. /\ Cardinality(Sure \cup {i}) \in Nat /\ Cardinality(Sure') \in Nat
      /\ Cardinality(Sure') <= Cardinality(Sure \cup {i})
  BY <1>2, OneMoreOf
<1> QED BY <1>3, <1>4 DEF Counted, Settled

LEMMA ExpireBegin ==
  ASSUME Base, NEW q \in Requests, HandleExpire(q)
  PROVE  Expiring'
<1>1. /\ req' = q /\ phase' = "busy" /\ at' = 0 /\ failed' = {} /\ count' = 0 /\ since' = now /\ now' = now
      /\ q.ttl > 0
  BY DEF HandleExpire, Begin, database
<1>2. 1 .. at' = {}
  BY <1>1
<1>3. There' = {} /\ Sure' = {}
  BY <1>2 DEF There, Sure, Logged
<1>4. Counted'
  BY <1>1, <1>3, FS_EmptySet DEF Counted
<1>5. Intact' /\ Due'
  BY <1>2 DEF Intact, Due
<1>6. Settled'
  BY <1>1, BoundsAssumption DEF Settled, Base, Time
<1>7. (Settled /\ Intact /\ Counted /\ Due)'
  BY <1>4, <1>5, <1>6
<1> QED BY <1>7, ExpiringParts, PTL

(* A visit: the key is absent; or it is there and has the deadline, whether  *)
(* its record is written or not.                                             *)
LEMMA ExpireVisits ==
  ASSUME Base, Settled, Intact, Counted, Due, ExpireOne
  PROVE  (Settled /\ Intact /\ Counted /\ Due)'
<1> DEFINE n == at + 1
           k == req.asked[n]
<1>1. /\ at < Len(req.asked) /\ at' = n /\ req.op = "expire"
      /\ UNCHANGED <<now, req, phase, touched, since>>
      /\ steady' = steady \cap Wanted(req, data', now)
  BY DEF ExpireOne, Busy, Observe
<1>2. /\ at \in Nat /\ n \in Nat /\ n \notin 1 .. at /\ 1 .. n = (1 .. at) \cup {n}
      /\ failed \subseteq 1 .. at
  BY DEF Settled
<1>3. /\ k \in Keys /\ \A i \in 1 .. n : req.asked[i] \in Keys
      /\ req.ttl \in Nat /\ now \in Nat /\ since \in Nat
  <2>1. req.asked \in Seq(Keys) /\ Len(req.asked) \in Nat /\ req.ttl \in Nat
    BY RequestParts, BoundsAssumption
  <2>2. \A i \in 1 .. n : i \in 1 .. Len(req.asked)
    BY <1>1, <1>2, <2>1
  <2>3. n \in 1 .. n
    BY <1>2
  <2> QED BY <2>1, <2>2, <2>3, ElementOfSeq DEF Settled, Base, Time
<1> HIDE DEF k
<1>4. CASE data[k] = Nil
  <2>1. count' = count /\ data' = data /\ failed' = failed
    BY <1>4 DEF ExpireOne, k
  <2>2. k \notin steady'
    BY <1>1, <1>4, <2>1 DEF Wanted, LiveAt
  <2>3. Sure' \subseteq Sure /\ There \subseteq There'
    BY <1>1, <1>2, <2>1, <2>2 DEF Sure, There, Logged, k
  <2>4. Settled'
    BY <1>1, <1>2, <2>1 DEF Settled
  <2>5. Counted'
    BY <2>1, <2>3, <2>4, CountsKept
  <2>6. Intact' /\ Due'
    <3>1. \A i \in 1 .. at' : i \in 1 .. at \/ req.asked[i] = k
      BY <1>1, <1>2 DEF k
    <3>2. Intact'
      BY <1>1, <1>4, <2>1, <3>1 DEF Intact
    <3>3. Due'
      BY <1>1, <2>1, <2>2, <3>1 DEF Due
    <3> QED BY <3>2, <3>3
  <2> QED BY <2>4, <2>5, <2>6
<1>5. CASE data[k] # Nil
  <2>1. /\ data' = [data EXCEPT ![k].exp = now + req.ttl]
        /\ \/ count' = count + 1 /\ failed' = failed
           \/ failed' = failed \cup {n} /\ count' = count
    BY <1>5 DEF ExpireOne, k
  <2>2. now + req.ttl \in Deadline
    BY LaterDeadline DEF Settled
  <2>3. data' = [data EXCEPT ![k] = [data[k] EXCEPT !.exp = now + req.ttl]]
    BY <2>1
  <2>4. /\ data'[k] \in Entry /\ data'[k].exp = now + req.ttl
        /\ \A j \in Keys \ {k} : data'[j] = data[j]
    BY <1>3, <1>5, <2>2, <2>3, Stamped DEF Base
  <2>5. data'[k] # Nil /\ data'[k].exp # Nil /\ LiveAt(data'[k], now)
    BY <1>3, <2>2, <2>4, NilAssumption, BoundsAssumption DEF LiveAt, Settled, Deadline
  <2>6. Settled'
    BY <1>1, <1>2, <2>1 DEF Settled
  <2>7. \A i \in 1 .. n : data'[req.asked[i]] # Nil <=> data[req.asked[i]] # Nil
    BY <1>3, <1>5, <2>4, <2>5
  <2>8. Counted'
    <3>1. CASE count' = count + 1 /\ failed' = failed
      <4>1. Logged' = Logged \cup {n} /\ n \notin Logged
        BY <1>1, <1>2, <3>1 DEF Logged
      <4>2. /\ Logged \subseteq 1 .. n /\ n \in 1 .. n
        BY <1>2 DEF Logged
      <4>3. There' = There \cup {n} /\ n \notin There
        BY <1>1, <1>5, <2>5, <2>7, <4>1, <4>2 DEF There, k
      <4>4. Sure' \subseteq Sure \cup {n}
        BY <1>1, <4>1 DEF Sure
      <4> QED BY <3>1, <4>3, <4>4, CountsGrow
    <3>2. CASE failed' = failed \cup {n} /\ count' = count
      <4>1. Logged' = Logged /\ Logged \subseteq 1 .. n
        BY <1>1, <1>2, <3>2 DEF Logged
      <4>2. There' = There /\ Sure' \subseteq Sure
        BY <1>1, <2>7, <4>1 DEF There, Sure
      <4> QED BY <2>6, <3>2, <4>2, CountsKept
    <3> QED BY <2>1, <3>1, <3>2
  <2>9. \A i \in 1 .. at' : req.asked[i] = k \/ (i \in 1 .. at /\ data'[req.asked[i]] = data[req.asked[i]])
    BY <1>1, <1>2, <1>3, <2>4 DEF k
  <2>10. Intact'
    BY <1>1, <2>5, <2>9 DEF Intact
  <2>11. Due'
    <3>1. now + req.ttl \in since + req.ttl .. now + req.ttl
      BY <1>3 DEF Settled
    <3> QED BY <1>1, <2>4, <2>5, <2>9, <3>1 DEF Due
  <2> QED BY <2>6, <2>8, <2>10, <2>11
<1> QED BY <1>4, <1>5

(* What others do, a sweep and the clock.                                    *)
LEMMA ExpireWaits ==
  ASSUME Base, Domains, History, Settled, Intact, Counted, Due,
         \/ CleanExpired \/ Tick \/ \E k \in Keys : \E e : Change(k, e)
  PROVE  (Settled /\ Intact /\ Counted /\ Due)'
<1>1. /\ UNCHANGED <<req, phase, at, failed, count, since>> /\ steady' \subseteq steady
      /\ touched \subseteq touched'
  BY DEF CleanExpired, Tick, Change, Observe, history
<1>2. \A i \in 1 .. at : req.asked[i] \in Keys
  <2>1. req.asked \in Seq(Keys) /\ Len(req.asked) \in Nat /\ at \in 0 .. Len(req.asked)
    BY RequestParts DEF Domains
  <2>2. \A i \in 1 .. at : i \in 1 .. Len(req.asked)
    BY <2>1
  <2> QED BY <2>1, <2>2, ElementOfSeq
<1>3. now \in Nat /\ since \in Nat /\ req.ttl \in Nat /\ (now' = now \/ now' = now + 1)
  BY RequestParts, BoundsAssumption DEF Settled, Base, Time, CleanExpired, Tick, Change
<1>4. \A k \in Keys \ touched' : data'[k] = data[k] \/ (~LiveAt(data[k], now) /\ data'[k] = Nil)
  <2>1. CASE CleanExpired
    BY <2>1 DEF CleanExpired, Swept
  <2>2. CASE Tick
    BY <2>2 DEF Tick
  <2>3. CASE \E k \in Keys : \E e : Change(k, e)
    BY <2>3 DEF Change, Base
  <2> QED BY <2>1, <2>2, <2>3
<1>5. \A i \in 1 .. at : req.asked[i] \notin touched' /\ data[req.asked[i]] # Nil =>
        data'[req.asked[i]] = data[req.asked[i]] /\ LiveAt(data[req.asked[i]], now)
  BY <1>1, <1>2, <1>4 DEF Intact
<1>6. Intact'
  <2>1. CASE CleanExpired \/ \E k \in Keys : \E e : Change(k, e)
    <3>1. now' = now
      BY <2>1 DEF CleanExpired, Change
    <3> QED BY <1>1, <1>2, <1>4, <1>5, <3>1 DEF Intact
  <2>2. CASE Tick
    BY <1>1, <1>2, <1>5, <2>2 DEF Intact, Tick
  <2> QED BY <2>1, <2>2
<1>7. \A k \in steady : data[k] # Nil
  BY <1>1 DEF History, Wanted, LiveAt, Settled
<1>8. Due'
  <2>1. ASSUME NEW i \in 1 .. at, req.asked[i] \in steady' \ touched'
        PROVE  /\ data'[req.asked[i]].exp # Nil
               /\ data'[req.asked[i]].exp \in since + req.ttl .. now' + req.ttl
    <3>1. req.asked[i] \in steady \ touched /\ data'[req.asked[i]] = data[req.asked[i]]
      BY <1>1, <1>5, <1>7, <2>1
    <3>2. data[req.asked[i]].exp # Nil /\ data[req.asked[i]].exp \in since + req.ttl .. now + req.ttl
      BY <3>1 DEF Due
    <3> QED BY <1>3, <3>1, <3>2
  <2> QED BY <1>1, <2>1 DEF Due
<1>9. Settled'
  BY <1>1, <1>3 DEF Settled
<1>10. Counted'
  <2>1. Logged' = Logged /\ Logged \subseteq 1 .. at
    BY <1>1 DEF Logged
  <2>2. There \subseteq There'
    BY <1>1, <1>5, <2>1 DEF There
  <2>3. Sure' \subseteq Sure
    BY <1>1, <2>1 DEF Sure
  <2> QED BY <1>1, <1>9, <2>2, <2>3, CountsKept
<1> QED BY <1>6, <1>8, <1>9, <1>10

LEMMA ExpiringStep ==
  ASSUME Base, Domains, History, Expiring, [Next]_vars
  PROVE  Expiring'
<1>1. CASE \E q \in Requests : HandleExpire(q)
  BY <1>1, ExpireBegin
<1>2. ASSUME req'.op # "expire"
      PROVE  Expiring'
  BY <1>2 DEF Expiring
<1>3. CASE \/ \E q \in Requests : HandleEntries(q) \/ HandleKeys(q) \/ HandleVSearch(q)
           \/ \E q \in Requests : HandleFind(q)
           \/ ReadEntry \/ CheckEntry \/ AnswerEntries \/ KeysPage \/ LastPage \/ AnswerVSearch \/ AnswerFind
           \/ \E chunk \in shards : ScanShard(chunk)
           \/ \E k \in Keys : Offer(k) \/ PopRoot(k)
  <2>1. req'.op # "expire"
    BY <1>3 DEF HandleEntries, HandleKeys, HandleVSearch, HandleFind, Begin, ReadEntry, CheckEntry, AnswerEntries,
                KeysPage, LastPage, AnswerVSearch, AnswerFind, ScanShard, Offer, PopRoot, Busy, Scanning, Finds
  <2> QED BY <1>2, <2>1
<1>4. CASE AnswerExpire \/ UNCHANGED vars
  <2>1. /\ UNCHANGED <<data, now, req, at, count, history>>
        /\ phase' = "idle" => phase = "idle"
    BY <1>4 DEF AnswerExpire, database, vars
  <2> QED BY <2>1 DEF Expiring, ExpireCounts, Intact, history, LiveAt
<1>5. ASSUME req.op = "expire", req'.op = "expire",
             \/ CleanExpired \/ Tick \/ \E k \in Keys : \E e : Change(k, e)
             \/ ExpireOne
      PROVE  Expiring'
  <2>1. Settled /\ Intact /\ Counted /\ Due
    BY <1>5, ExpiringParts
  <2>2. (Settled /\ Intact /\ Counted /\ Due)'
    BY <1>5, <2>1, ExpireVisits, ExpireWaits
  <2> QED BY <2>2, ExpiringParts, PTL
<1>6. ASSUME \/ CleanExpired \/ Tick \/ \E k \in Keys : \E e : Change(k, e)
             \/ ExpireOne
      PROVE  req' = req
  BY <1>6 DEF CleanExpired, Tick, Change, ExpireOne
<1>7. ASSUME \/ \E k \in Keys : DelByOther(k)
             \/ \E k \in Keys, v \in Values, x \in Time \cup {Nil} : SetByOther(k, v, x)
             \/ \E k \in Keys, x \in Time : ExpireByOther(k, x)
      PROVE  \E k \in Keys : \E e : Change(k, e)
  BY <1>7 DEF DelByOther, SetByOther, ExpireByOther
<1> QED BY <1>1, <1>2, <1>3, <1>4, <1>5, <1>6, <1>7 DEF Next
---------------------------------------------------------------------------
(* vsearch *)
SearchBegan == list \in Seq(Keys) /\ (todo # {} => list = <<>>)
SearchHeap == found \subseteq Keys /\ Cardinality(found) <= req.limit
SearchBusy == req.op = "vsearch" /\ phase = "busy"

LEMMA SearchingParts ==
  Searching <=> (SearchBusy => SearchBegan /\ SearchHeap /\ SearchBest)
BY DEF Searching, SearchBegan, SearchHeap, SearchBusy

(* What may be found has a score.                                            *)
LEMMA Scored ==
  ASSUME Base, NEW k \in Keys, Candidate(k)
  PROVE  ScoreOf(k) \in Nat
<1>1. data[k] \in Entry
  BY Entries DEF Candidate, Wanted, LiveAt
<1> QED BY <1>1, ScoreAssumption DEF ScoreOf, Entry

LEMMA SearchBegin ==
  ASSUME NEW q \in Requests, HandleVSearch(q)
  PROVE  Searching'
<1>1. /\ list' = <<>> /\ found' = {} /\ todo' = Keys /\ req' = q /\ q.limit > 0
  BY DEF HandleVSearch, Begin
<1>2. SearchBegan'
  BY <1>1, EmptySeq DEF SearchBegan
<1>3. SearchHeap'
  BY <1>1, FS_EmptySet, RequestTypes DEF SearchHeap, Request
<1>4. DOMAIN list' = {}
  BY <1>1
<1>5. Kept' = {}
  BY <1>1, <1>4 DEF Kept
<1>6. SearchBest'
  BY <1>1, <1>4, <1>5 DEF SearchBest
<1>7. (SearchBegan /\ SearchHeap /\ SearchBest)'
  BY <1>2, <1>3, <1>6
<1> QED BY <1>7, SearchingParts, PTL

LEMMA SearchOffers ==
  ASSUME Base, SearchBusy, SearchBegan, SearchHeap, SearchBest, NEW k \in Keys, Offer(k)
  PROVE  (SearchBegan /\ SearchHeap /\ SearchBest)'
<1>1. /\ k \in todo /\ todo' = todo \ {k} /\ list = <<>> /\ list' = list
      /\ UNCHANGED <<data, now, req, phase, since>>
  BY DEF Offer, SearchBegan, database, history
<1>2. DOMAIN list = {} /\ DOMAIN list' = {}
  BY <1>1
<1>3. Kept = found /\ Kept' = found'
  BY <1>2 DEF Kept
<1>4. \A l : Candidate(l)' <=> Candidate(l)
  BY <1>1 DEF Candidate, Wanted, ScoreOf, Passes, LiveAt
<1>5. \A l : ScoreOf(l)' = ScoreOf(l)
  BY <1>1 DEF ScoreOf
<1>6. /\ found \subseteq Keys /\ Cardinality(found) <= req.limit /\ req.limit \in Nat
      /\ Cardinality(found) \in Nat /\ k \notin found
      /\ \A l \in found : l \in Keys \ todo /\ Candidate(l) /\ ScoreOf(l) \in Nat
      /\ \A l \in Keys \ todo : Candidate(l) /\ l \notin found =>
           Cardinality(found) = req.limit /\ \A r \in found : ScoreOf(r) >= ScoreOf(l)
  <2>1. /\ found \subseteq Keys /\ Cardinality(found) <= req.limit
        /\ \A l \in found : l \in Keys \ todo /\ Candidate(l)
        /\ \A l \in Keys \ todo : Candidate(l) /\ l \notin found =>
             Cardinality(found) = req.limit /\ \A r \in found : ScoreOf(r) >= ScoreOf(l)
    BY <1>3 DEF SearchBusy, SearchHeap, SearchBest
  <2> QED BY <1>1, <2>1, RequestParts, Scored, OneMore
<1>7. (SearchBegan)'
  BY <1>1 DEF SearchBegan
<1> DEFINE Kept2(S) ==
             /\ S \subseteq Keys /\ Cardinality(S) <= req.limit
             /\ \A l \in S : l \in Keys \ todo' /\ Candidate(l)
             /\ \A l \in Keys \ todo' : Candidate(l) /\ l \notin S =>
                  Cardinality(S) = req.limit /\ \A r \in S : ScoreOf(r) >= ScoreOf(l)
<1>8. Kept2(found')
  <2>1. CASE ~Candidate(k) /\ UNCHANGED found
    BY <1>1, <1>6, <2>1
  <2>2. CASE Candidate(k) /\ Cardinality(found) < req.limit /\ found' = found \cup {k}
    <3>1. Cardinality(found') = Cardinality(found) + 1
      BY <1>6, <2>2, OneMore
    <3> QED BY <1>1, <1>6, <2>2, <3>1
  <2>3. CASE Candidate(k) /\ Cardinality(found) >= req.limit
    <3>1. Cardinality(found) = req.limit
      BY <1>6, <2>3
    <3>2. PICK r \in found : IsRoot(r) /\
            (\/ ScoreOf(k) > ScoreOf(r) /\ found' = (found \ {r}) \cup {k}
             \/ ~(ScoreOf(k) > ScoreOf(r)) /\ found' = found)
      BY <2>3, <3>1, <1>6 DEF Offer
    <3>3. /\ r \in Keys /\ ScoreOf(r) \in Nat /\ ScoreOf(k) \in Nat
          /\ \A l \in found : ScoreOf(l) \in Nat /\ ScoreOf(r) <= ScoreOf(l)
      BY <1>6, <2>3, <3>2, Scored DEF IsRoot
    <3>4. CASE ~(ScoreOf(k) > ScoreOf(r)) /\ found' = found
      <4>1. \A l \in found : ScoreOf(l) >= ScoreOf(k)
        BY <3>3, <3>4
      <4> QED BY <1>1, <1>6, <3>1, <3>4, <4>1
    <3>5. CASE ScoreOf(k) > ScoreOf(r) /\ found' = (found \ {r}) \cup {k}
      <4>1. Cardinality(found \ {r}) = req.limit - 1 /\ found \ {r} \in SUBSET Keys /\ k \notin found \ {r}
        BY <1>6, <3>1, <3>3, <3>2, OneMore
      <4>2. Cardinality(found') = req.limit
        BY <1>6, <3>5, <4>1, OneMore
      <4>3. \A l \in found' : l \in Keys \ todo' /\ Candidate(l)
        BY <1>1, <1>6, <2>3, <3>5
      <4>4. ASSUME NEW l \in Keys \ todo', Candidate(l), l \notin found'
            PROVE  \A s \in found' : ScoreOf(s) >= ScoreOf(l)
        <5>1. ScoreOf(l) \in Nat /\ l # k /\ l \in Keys \ todo
          BY <1>1, <3>5, <4>4, Scored
        <5>2. ScoreOf(r) >= ScoreOf(l)
          <6>1. CASE l = r
            BY <3>3, <6>1
          <6>2. CASE l # r
            BY <1>6, <3>2, <3>5, <4>4, <5>1, <6>2
          <6> QED BY <6>1, <6>2
        <5>3. ASSUME NEW s \in found'
              PROVE  ScoreOf(s) \in Nat /\ ScoreOf(s) >= ScoreOf(r)
          BY <3>3, <3>5
        <5> QED BY <3>3, <5>1, <5>2, <5>3
      <4> QED BY <1>6, <2>3, <3>5, <4>2, <4>3, <4>4
    <3> QED BY <3>2, <3>4, <3>5
  <2> QED BY <2>1, <2>2, <2>3 DEF Offer
<1>9. SearchHeap'
  BY <1>1, <1>8 DEF SearchHeap
<1>10. SearchBest'
  <2>1. Kept' \subseteq {l \in Keys \ todo' : Candidate(l)'}
    BY <1>3, <1>4, <1>8
  <2>2. \A l \in Keys \ todo' : Candidate(l)' /\ l \notin Kept' =>
          Cardinality(Kept') = req'.limit /\ \A r \in Kept' : ScoreOf(r)' >= ScoreOf(l)'
    BY <1>1, <1>3, <1>4, <1>5, <1>8
  <2> QED BY <1>2, <2>1, <2>2 DEF SearchBest
<1> QED BY <1>7, <1>9, <1>10

LEMMA SearchPops ==
  ASSUME Base, SearchBusy, SearchBegan, SearchHeap, SearchBest, NEW k \in Keys, PopRoot(k)
  PROVE  (SearchBegan /\ SearchHeap /\ SearchBest)'
<1>1. /\ todo = {} /\ todo' = {} /\ k \in found /\ found' = found \ {k} /\ list' = <<k>> \o list
      /\ UNCHANGED <<data, now, req, phase, since>>
      /\ \A l \in found : ScoreOf(k) <= ScoreOf(l)
  BY DEF PopRoot, IsRoot, database, history
<1>2. list \in Seq(Keys) /\ Len(list) \in Nat /\ DOMAIN list = 1 .. Len(list)
  BY DEF SearchBegan
<1>3. /\ list' \in Seq(Keys) /\ DOMAIN list' = 1 .. Len(list) + 1
      /\ list'[1] = k
      /\ \A i \in 2 .. Len(list) + 1 : i - 1 \in DOMAIN list /\ list'[i] = list[i - 1]
  BY <1>1, <1>2
<1>4. Kept' = Kept
  <2>1. ASSUME NEW x \in Kept
        PROVE  x \in Kept'
    <3>1. CASE x \in found
      BY <1>1, <1>2, <1>3, <3>1 DEF Kept
    <3>2. CASE x \notin found
      <4>1. PICK i \in DOMAIN list : list[i] = x
        BY <3>2 DEF Kept
      <4>2. i + 1 \in DOMAIN list' /\ list'[i + 1] = x
        BY <1>2, <1>3, <4>1
      <4> QED BY <4>2 DEF Kept
    <3> QED BY <3>1, <3>2
  <2>2. ASSUME NEW x \in Kept'
        PROVE  x \in Kept
    BY <1>1, <1>2, <1>3 DEF Kept
  <2> QED BY <2>1, <2>2
<1>5. \A l : (Candidate(l)' <=> Candidate(l)) /\ ScoreOf(l)' = ScoreOf(l)
  BY <1>1 DEF Candidate, Wanted, ScoreOf, Passes, LiveAt
<1>6. /\ Kept \subseteq {l \in Keys \ todo : Candidate(l)}
      /\ \A l \in Keys \ todo : Candidate(l) /\ l \notin Kept =>
           Cardinality(Kept) = req.limit /\ \A r \in Kept : ScoreOf(r) >= ScoreOf(l)
      /\ \A i, j \in DOMAIN list : i < j => ScoreOf(list[i]) >= ScoreOf(list[j])
      /\ \A l \in found, i \in DOMAIN list : ScoreOf(l) >= ScoreOf(list[i])
  BY DEF SearchBusy, SearchBest
<1>7. SearchBegan'
  BY <1>1, <1>3 DEF SearchBegan
<1>8. SearchHeap'
  <2>1. Cardinality(found') = Cardinality(found) - 1 /\ Cardinality(found) \in Nat
    BY <1>1, OneMore DEF SearchHeap
  <2> QED BY <1>1, <2>1, RequestParts DEF SearchHeap
<1>9. \A l \in found : ScoreOf(l) \in Nat /\ ScoreOf(l) >= ScoreOf(k)
  BY <1>1, <1>6, Scored DEF Kept
<1>10. \A i, j \in DOMAIN list' : i < j => ScoreOf(list'[i]) >= ScoreOf(list'[j])
  <2> SUFFICES ASSUME NEW i \in 1 .. Len(list) + 1, NEW j \in 1 .. Len(list) + 1, i < j
               PROVE  ScoreOf(list'[i]) >= ScoreOf(list'[j])
    BY <1>3
  <2>1. j - 1 \in DOMAIN list /\ list'[j] = list[j - 1]
    BY <1>2, <1>3
  <2>2. CASE i = 1
    BY <1>1, <1>3, <1>6, <2>1, <2>2
  <2>3. CASE i # 1
    <3>1. i - 1 \in DOMAIN list /\ list'[i] = list[i - 1] /\ i - 1 < j - 1
      BY <1>2, <1>3, <2>3
    <3> QED BY <1>6, <2>1, <3>1
  <2> QED BY <2>2, <2>3
<1>11. \A l \in found', i \in DOMAIN list' : ScoreOf(l) >= ScoreOf(list'[i])
  <2> SUFFICES ASSUME NEW l \in found', NEW i \in 1 .. Len(list) + 1
               PROVE  ScoreOf(l) >= ScoreOf(list'[i])
    BY <1>3
  <2>1. CASE i = 1
    BY <1>1, <1>3, <1>9, <2>1
  <2>2. CASE i # 1
    <3>1. i - 1 \in DOMAIN list /\ list'[i] = list[i - 1]
      BY <1>2, <1>3, <2>2
    <3> QED BY <1>1, <1>6, <3>1
  <2> QED BY <2>1, <2>2
<1>12. SearchBest'
  <2>1. Kept' \subseteq {l \in Keys \ todo' : Candidate(l)'}
    BY <1>1, <1>4, <1>5, <1>6
  <2>2. \A l \in Keys \ todo' : Candidate(l)' /\ l \notin Kept' =>
          Cardinality(Kept') = req'.limit /\ \A r \in Kept' : ScoreOf(r)' >= ScoreOf(l)'
    BY <1>1, <1>4, <1>5, <1>6
  <2>3. \A i, j \in DOMAIN list' : i < j => Score[data'[list'[i]].value] >= Score[data'[list'[j]].value]
    BY <1>1, <1>10 DEF ScoreOf
  <2>4. \A l \in found', i \in DOMAIN list' : Score[data'[l].value] >= Score[data'[list'[i]].value]
    BY <1>1, <1>11 DEF ScoreOf
  <2> QED BY <2>1, <2>2, <2>3, <2>4 DEF SearchBest, ScoreOf
<1> QED BY <1>7, <1>8, <1>12

LEMMA SearchingStep ==
  ASSUME Base, Searching, [Next]_vars
  PROVE  Searching'
<1>1. CASE \E q \in Requests : HandleVSearch(q)
  BY <1>1, SearchBegin
<1>2. ASSUME SearchBusy, \E k \in Keys : Offer(k) \/ PopRoot(k)
      PROVE  Searching'
  <2>1. SearchBegan /\ SearchHeap /\ SearchBest
    BY <1>2, SearchingParts
  <2>2. (SearchBegan /\ SearchHeap /\ SearchBest)'
    BY <1>2, <2>1, SearchOffers, SearchPops
  <2> QED BY <2>2, SearchingParts, PTL
<1>3. CASE \E k \in Keys : Offer(k) \/ PopRoot(k)
  <2>1. SearchBusy
    BY <1>3 DEF Offer, PopRoot, Busy, SearchBusy
  <2> QED BY <1>2, <1>3, <2>1
<1>4. CASE Tick \/ UNCHANGED vars
  <2>1. UNCHANGED <<data, req, phase, todo, list, found, since>>
    BY <1>4 DEF Tick, Observe, vars, database, history
  <2>2. \A k : Candidate(k)' <=> Candidate(k)
    BY <2>1 DEF Candidate, Wanted, ScoreOf, Passes, LiveAt
  <2>3. Kept' = Kept
    BY <2>1 DEF Kept
  <2>4. SearchBest => SearchBest'
    BY <2>1, <2>2, <2>3 DEF SearchBest, ScoreOf
  <2> QED BY <2>1, <2>4 DEF Searching
<1>5. ASSUME ~SearchBusy'
      PROVE  Searching'
  BY <1>5 DEF Searching, SearchBusy
<1>6. CASE \/ \E q \in Requests : HandleEntries(q) \/ HandleExpire(q) \/ HandleKeys(q)
           \/ \E q \in Requests : HandleFind(q)
           \/ ReadEntry \/ CheckEntry \/ AnswerEntries \/ AnswerExpire \/ KeysPage \/ LastPage
           \/ AnswerVSearch \/ AnswerFind
           \/ \E chunk \in shards : ScanShard(chunk)
           \/ ExpireOne
           \/ CleanExpired \/ \E k \in Keys : \E e : Change(k, e)
  <2>1. ~SearchBusy'
    BY <1>6 DEF HandleEntries, HandleExpire, HandleKeys, HandleFind, Begin, ReadEntry, CheckEntry, AnswerEntries,
                AnswerExpire, KeysPage, LastPage, AnswerVSearch, AnswerFind, ScanShard, ExpireOne,
                CleanExpired, Change, Unlocked, Busy, SearchBusy, Scanning, Finds
  <2> QED BY <1>5, <2>1
<1>7. ASSUME \/ \E k \in Keys : DelByOther(k)
             \/ \E k \in Keys, v \in Values, x \in Time \cup {Nil} : SetByOther(k, v, x)
             \/ \E k \in Keys, x \in Time : ExpireByOther(k, x)
      PROVE  \E k \in Keys : \E e : Change(k, e)
  BY <1>7 DEF DelByOther, SetByOther, ExpireByOther
<1> QED BY <1>1, <1>3, <1>4, <1>6, <1>7 DEF Next
---------------------------------------------------------------------------
(* Sequences: the keys of a set in some order, and pages of them. *)
LEMMA LowerIs ==
  ASSUME NEW a \in Nat, NEW b \in Nat
  PROVE  Lower(a, b) \in Nat /\ Lower(a, b) <= a /\ Lower(a, b) <= b /\ Lower(a, b) \in {a, b}
BY DEF Lower

LEMMA Ordering ==
  ASSUME NEW S \in SUBSET Keys, NEW s \in SetToSeqs(S)
  PROVE  /\ s \in Seq(S) /\ Len(s) = Cardinality(S) /\ Len(s) \in Nat /\ DOMAIN s = 1 .. Len(s)
         /\ \A i, j \in 1 .. Len(s) : s[i] = s[j] => i = j
         /\ \A k \in S : \E i \in 1 .. Len(s) : s[i] = k
<1>1. IsFiniteSet(S) /\ Cardinality(S) \in Nat
  BY FS_Subset, FS_CardinalityType, KeysAssumption
<1>2. /\ s \in [1 .. Cardinality(S) -> S]
      /\ \A i, j \in 1 .. Cardinality(S) : s[i] = s[j] => i = j
  BY DEF SetToSeqs
<1>3. s \in Seq(S) /\ Len(s) = Cardinality(S) /\ DOMAIN s = 1 .. Cardinality(S)
  BY <1>1, <1>2
<1>4. s \in Injection(1 .. Cardinality(S), S)
  BY <1>2, Fun_IsInj
<1>5. Cardinality(1 .. Cardinality(S)) = Cardinality(S)
  BY <1>1, FS_Interval
<1>6. s \in Surjection(1 .. Cardinality(S), S)
  BY <1>1, <1>4, <1>5, FS_Injection
<1>7. \A k \in S : \E i \in 1 .. Cardinality(S) : s[i] = k
  BY <1>6 DEF Surjection
<1> QED BY <1>1, <1>2, <1>3, <1>7

LEMMA PageParts ==
  ASSUME NEW keys \in Seq(Keys), NEW c \in Nat, NEW limit \in Nat
  PROVE  LET from == Lower(c * limit, Len(keys))
             to == Lower(from + limit, Len(keys))
             page == Page(keys, c + 1, limit)
         IN  /\ from \in Nat /\ to \in from .. Len(keys) /\ Len(keys) \in Nat
             /\ page \in Seq(Keys) /\ Len(page) = to - from
             /\ \A i \in 1 .. to - from : page[i] = keys[from + i]
<1> DEFINE from == Lower(c * limit, Len(keys))
           to == Lower(from + limit, Len(keys))
<1>1. c * limit \in Nat /\ Len(keys) \in Nat /\ (c + 1) - 1 = c
  OBVIOUS
<1>2. from \in Nat /\ from <= Len(keys)
  BY <1>1, LowerIs
<1>3. to \in Nat /\ to <= Len(keys) /\ to >= from
  <2>1. to \in Nat /\ to <= Len(keys) /\ to \in {from + limit, Len(keys)}
    <3>1. from + limit \in Nat
      BY <1>2
    <3> HIDE DEF from
    <3> QED BY <1>1, <3>1, LowerIs
  <2> HIDE DEF from, to
  <2> QED BY <1>2, <2>1
<1>4. Page(keys, c + 1, limit) = SubSeq(keys, from + 1, to)
  BY <1>1 DEF Page
<1> HIDE DEF from, to
<1>5. \A i \in from + 1 .. to : keys[i] \in Keys
  BY <1>1, <1>2, <1>3
<1>6. /\ SubSeq(keys, from + 1, to) \in Seq(Keys)
      /\ Len(SubSeq(keys, from + 1, to)) = IF from + 1 <= to THEN to - (from + 1) + 1 ELSE 0
      /\ \A i \in 1 .. to - (from + 1) + 1 : SubSeq(keys, from + 1, to)[i] = keys[from + 1 + i - 1]
  BY <1>2, <1>3, <1>5, SubSeqProperties
<1>7. to - (from + 1) + 1 = to - from /\ (~(from + 1 <= to) => to - from = 0)
  BY <1>2, <1>3
<1>8. ASSUME NEW i \in 1 .. to - from
      PROVE  SubSeq(keys, from + 1, to)[i] = keys[from + i]
  <2>1. from + 1 + i - 1 = from + i
    BY <1>2
  <2> QED BY <1>6, <1>7, <2>1
<1>9. /\ from \in Nat /\ to \in from .. Len(keys) /\ Len(keys) \in Nat
      /\ SubSeq(keys, from + 1, to) \in Seq(Keys) /\ Len(SubSeq(keys, from + 1, to)) = to - from
  BY <1>1, <1>2, <1>3, <1>6, <1>7
<1> QED BY <1>4, <1>8, <1>9 DEF from, to

(* TypeOK is Base and Domains; Domains is inductive. *)
LEMMA TypeParts == TypeOK <=> Base /\ Domains
BY RequestTypes DEF TypeOK, Base, Domains

LEMMA RequestType ==
  ASSUME Base, Domains, [Next]_vars
  PROVE  /\ req' \in Requests \cup {NoRequest} /\ ((phase' = "idle") <=> (req' = NoRequest))
         /\ since' \in 1 .. now'
<1>1. now' = now \/ now' = now + 1
  BY DEF Next, vars, database, Begin, HandleEntries, ReadEntry, CheckEntry, AnswerEntries, HandleExpire,
         ExpireOne, AnswerExpire, HandleKeys, KeysPage, LastPage, HandleVSearch, Offer, PopRoot,
         AnswerVSearch, HandleFind, ScanShard, AnswerFind, Change, SetByOther, DelByOther,
         ExpireByOther, CleanExpired, Tick
<1>2. now \in Nat \ {0}
  BY BoundsAssumption DEF Base, Time
<1>3. CASE phase' = "busy" /\ UNCHANGED <<data, now>> /\ \E q \in Requests : Begin(q, q.op)
  <2>1. PICK q \in Requests : Begin(q, q.op)
    BY <1>3
  <2>2. q.op \in Ops
    BY RequestTypes DEF Request
  <2>3. q # NoRequest
    BY <2>2 DEF NoRequest, Ops, Finds
  <2> QED BY <1>2, <1>3, <2>1, <2>3 DEF Begin
<1>4. CASE phase = "busy" /\ phase' \in {"busy", "answered"} /\ UNCHANGED <<req, since>>
  BY <1>1, <1>2, <1>4 DEF Domains
<1>5. CASE UNCHANGED vars
  BY <1>5 DEF Domains, vars, database, history
<1> QED BY <1>3, <1>4, <1>5, RequestSteps

LEMMA TodoType ==
  ASSUME Base, Domains, [Next]_vars
  PROVE  req'.op = "entries" => todo' \subseteq req'.pattern
<1>1. CASE \E q \in Requests : HandleEntries(q)
  BY <1>1 DEF HandleEntries, Begin
<1>2. CASE \E q \in Requests : HandleExpire(q) \/ HandleKeys(q) \/ HandleVSearch(q) \/ HandleFind(q)
  BY <1>2 DEF HandleExpire, HandleKeys, HandleVSearch, HandleFind, Begin, Finds
<1>3. CASE ~\E q \in Requests : \/ HandleEntries(q) \/ HandleExpire(q) \/ HandleKeys(q)
                                \/ HandleVSearch(q) \/ HandleFind(q)
  <2>1. UNCHANGED req /\ todo' \subseteq todo
    BY <1>3 DEF Next, vars, ReadEntry, CheckEntry, AnswerEntries,
         ExpireOne, AnswerExpire, KeysPage, LastPage, Offer, PopRoot,
         AnswerVSearch, ScanShard, AnswerFind, Change, SetByOther, DelByOther,
         ExpireByOther, CleanExpired, Tick
  <2> QED BY <2>1 DEF Domains
<1> QED BY <1>1, <1>2, <1>3

LEMMA VisitType ==
  ASSUME Base, Domains, [Next]_vars
  PROVE  at' \in 0 .. Len(req'.asked) /\ failed' \subseteq 1 .. at'
<1>0. Len(req.asked) \in Nat /\ at \in 0 .. Len(req.asked) /\ failed \subseteq 1 .. at
  BY RequestParts DEF Domains
<1>1. CASE \E q \in Requests : Begin(q, q.op)
  <2>1. PICK q \in Requests : Begin(q, q.op)
    BY <1>1
  <2>2. at' = 0 /\ failed' = {} /\ req' = q /\ Len(q.asked) \in Nat
    BY <2>1, RequestTypes DEF Begin, Request
  <2> QED BY <2>2
<1>2. CASE ExpireOne
  <2>1. /\ at' = at + 1 /\ at < Len(req.asked) /\ req' = req
        /\ failed' \subseteq failed \cup {at + 1}
    BY <1>2 DEF ExpireOne
  <2> QED BY <1>0, <2>1
<1>3. CASE UNCHANGED <<req, at, failed>>
  BY <1>0, <1>3
<1>4. \/ \E q \in Requests : Begin(q, q.op)
      \/ ExpireOne
      \/ UNCHANGED <<req, at, failed>>
  BY DEF Next, vars, history, HandleEntries, ReadEntry, CheckEntry, AnswerEntries, HandleExpire,
         AnswerExpire, HandleKeys, KeysPage, LastPage, HandleVSearch, Offer, PopRoot,
         AnswerVSearch, HandleFind, ScanShard, AnswerFind, Change, SetByOther, DelByOther,
         ExpireByOther, CleanExpired, Tick, Begin
<1> QED BY <1>1, <1>2, <1>3, <1>4

LEMMA CounterType ==
  ASSUME Base, Domains, [Next]_vars
  PROVE  writes' \in 0 .. MaxWrites /\ count' \in Nat
<1>1. writes' = writes \/ (writes > 0 /\ writes' = writes - 1)
  BY DEF Next, vars, database, Begin, HandleEntries, ReadEntry, CheckEntry, AnswerEntries, HandleExpire,
         ExpireOne, AnswerExpire, HandleKeys, KeysPage, LastPage, HandleVSearch, Offer, PopRoot,
         AnswerVSearch, HandleFind, ScanShard, AnswerFind, Change, SetByOther, DelByOther,
         ExpireByOther, CleanExpired, Tick
<1>2. count' \in {0, count, count + 1}
  BY DEF Next, vars, database, Begin, HandleEntries, ReadEntry, CheckEntry, AnswerEntries, HandleExpire,
         ExpireOne, AnswerExpire, HandleKeys, KeysPage, LastPage, HandleVSearch, Offer, PopRoot,
         AnswerVSearch, HandleFind, ScanShard, AnswerFind, Change, SetByOther, DelByOther,
         ExpireByOther, CleanExpired, Tick
<1> QED BY <1>1, <1>2, BoundsAssumption DEF Domains

LEMMA FoundType ==
  ASSUME Base, Domains, [Next]_vars
  PROVE  found' \subseteq Keys /\ shards' \subseteq SUBSET Keys
<1>1. found' \subseteq Keys
  <2>1. CASE \E chunk \in shards : ScanShard(chunk)
    BY <2>1 DEF ScanShard, Domains
  <2>2. CASE \E k \in Keys : Offer(k) \/ PopRoot(k)
    BY <2>2 DEF Offer, PopRoot, Domains
  <2>3. CASE ~\/ \E chunk \in shards : ScanShard(chunk)
              \/ \E k \in Keys : Offer(k) \/ PopRoot(k)
    <3>1. found' \in {{}, found}
      BY <2>3 DEF Next, vars, Begin, HandleEntries, ReadEntry, CheckEntry, AnswerEntries, HandleExpire,
         ExpireOne, AnswerExpire, HandleKeys, KeysPage, LastPage, HandleVSearch,
         AnswerVSearch, HandleFind, AnswerFind, Change, SetByOther, DelByOther,
         ExpireByOther, CleanExpired, Tick
    <3> QED BY <3>1 DEF Domains
  <2> QED BY <2>1, <2>2, <2>3
<1>2. shards' \subseteq SUBSET Keys
  <2>1. ASSUME NEW q \in Requests, HandleFind(q)
        PROVE  shards' \subseteq SUBSET Keys
    <3>0. PICK keys \in SetToSeqs({k \in Keys : data[k] # Nil}) : shards' = Shards(keys)
      BY <2>1 DEF HandleFind
    <3>1. keys \in Seq(Keys) /\ Len(keys) \in Nat
      BY Ordering
    <3>2. ASSUME NEW i \in 0 .. (Len(keys) + Block - 1) \div Block - 1
          PROVE  Range(SubSeq(keys, i * Block + 1, Lower(i * Block + Block, Len(keys)))) \subseteq Keys
      <4>0. (Len(keys) + Block - 1) \div Block \in Int
        BY <3>1, BoundsAssumption
      <4>1. i \in Nat /\ i * Block \in Nat /\ i * Block + Block \in Nat
        BY <4>0, BoundsAssumption
      <4> DEFINE from == i * Block + 1
                 to == Lower(i * Block + Block, Len(keys))
      <4>2. from \in Nat \ {0} /\ to \in Nat /\ to <= Len(keys)
        <5>1. \A a \in Nat : Lower(a, Len(keys)) \in Nat /\ Lower(a, Len(keys)) <= Len(keys)
          BY <3>1, LowerIs
        <5>2. to \in Nat /\ to <= Len(keys)
          BY <4>1, <5>1
        <5>3. from \in Nat \ {0}
          BY <4>1
        <5> QED BY <5>2, <5>3
      <4> HIDE DEF from, to
      <4>3. \A j \in from .. to : keys[j] \in Keys
        BY <3>1, <4>2
      <4>4. SubSeq(keys, from, to) \in Seq(Keys)
        BY <4>2, <4>3, SubSeqProperties
      <4>5. Range(SubSeq(keys, from, to)) \subseteq Keys
        <5>1. ASSUME NEW part \in Seq(Keys)
              PROVE  Range(part) \subseteq Keys
          <6>1. \A j \in DOMAIN part : part[j] \in Keys
            BY LenProperties, ElementOfSeq
          <6> QED BY <6>1 DEF Range
        <5> QED BY <4>4, <5>1
      <4> QED BY <4>5 DEF from, to
    <3> QED BY <3>0, <3>2 DEF Shards
  <2>2. CASE ~\E q \in Requests : HandleFind(q)
    <3>1. shards' \subseteq shards
      BY <2>2 DEF Next, vars, Begin, HandleEntries, ReadEntry, CheckEntry, AnswerEntries, HandleExpire,
         ExpireOne, AnswerExpire, HandleKeys, KeysPage, LastPage, HandleVSearch, Offer, PopRoot,
         AnswerVSearch, ScanShard, AnswerFind, Change, SetByOther, DelByOther,
         ExpireByOther, CleanExpired, Tick
    <3> QED BY <3>1 DEF Domains
  <2> QED BY <2>1, <2>2
<1> QED BY <1>1, <1>2

LEMMA ListType ==
  ASSUME Base, Domains, Reading, [Next]_vars
  PROVE  list' \in Seq(Keys)
<1>0. list \in Seq(Keys) /\ Len(list) \in Nat
  BY DEF Domains
<1>1. ASSUME CheckEntry
      PROVE  list' \in Seq(Keys)
  <2>1. Least(todo) \in Keys
    BY <1>1, LeastIn, KeysAssumption DEF Base, Domains, CheckEntry, Busy, Reading, Copied, CopyHeld
  <2>2. list' \in {list, Append(list, Least(todo))}
    BY <1>1 DEF CheckEntry
  <2> QED BY <1>0, <2>1, <2>2
<1>2. ASSUME AnswerEntries
      PROVE  list' \in Seq(Keys)
  <2>1. list' = LastOnes(list, req.limit) /\ req.limit \in Nat
    BY <1>2, RequestParts DEF AnswerEntries
  <2>2. CASE req.limit > 0 /\ Len(list) > req.limit
    <3>1. list' = SubSeq(list, Len(list) - req.limit + 1, Len(list))
      BY <2>1, <2>2 DEF LastOnes
    <3>2. /\ Len(list) - req.limit + 1 \in Int
          /\ \A i \in Len(list) - req.limit + 1 .. Len(list) : list[i] \in Keys
      BY <1>0, <2>1, <2>2
    <3> QED BY <1>0, <3>1, <3>2, SubSeqProperties
  <2> QED BY <1>0, <2>1, <2>2 DEF LastOnes
<1>3. ASSUME KeysPage
      PROVE  list' \in Seq(Keys)
  <2>1. PICK keys \in Sorted(Wanted(req, data, now)) : list' = list \o Page(keys, count + 1, req.limit)
    BY <1>3 DEF KeysPage
  <2>2. Wanted(req, data, now) \subseteq Keys
    BY RequestParts DEF Wanted
  <2>3. keys \in Seq(Keys)
    BY <2>2, Ordering, SeqMonotonic DEF Sorted
  <2>4. Page(keys, count + 1, req.limit) \in Seq(Keys)
    BY <2>3, RequestParts, PageParts DEF Domains
  <2> QED BY <1>0, <2>1, <2>4
<1>4. ASSUME NEW k \in Keys, PopRoot(k)
      PROVE  list' \in Seq(Keys)
  BY <1>0, <1>4 DEF PopRoot
<1>5. ASSUME AnswerFind
      PROVE  list' \in Seq(Keys)
  <2>1. PICK all \in SetToSeqs(found) :
          list' = IF req.limit > 0 /\ req.limit < Len(all) THEN SubSeq(all, 1, req.limit) ELSE all
    BY <1>5 DEF AnswerFind
  <2>2. all \in Seq(Keys) /\ Len(all) \in Nat
    BY Ordering, SeqMonotonic DEF Domains
  <2>3. ASSUME req.limit < Len(all)
        PROVE  SubSeq(all, 1, req.limit) \in Seq(Keys)
    <3>1. req.limit \in Nat /\ \A i \in 1 .. req.limit : all[i] \in Keys
      BY <2>2, <2>3, RequestParts
    <3> QED BY <3>1, SubSeqProperties
  <2> QED BY <2>1, <2>2, <2>3
<1>6. CASE ~\/ CheckEntry \/ AnswerEntries \/ KeysPage \/ AnswerFind
            \/ \E k \in Keys : PopRoot(k)
  <2>1. list' \in {list, <<>>}
    BY <1>6 DEF Next, vars, Begin, HandleEntries, ReadEntry, HandleExpire,
         ExpireOne, AnswerExpire, HandleKeys, LastPage, HandleVSearch, Offer,
         AnswerVSearch, HandleFind, ScanShard, Change, SetByOther, DelByOther,
         ExpireByOther, CleanExpired, Tick
  <2> QED BY <1>0, <2>1, EmptySeq
<1> QED BY <1>1, <1>2, <1>3, <1>4, <1>5, <1>6

LEMMA HistoryType ==
  ASSUME Base, Domains, [Next]_vars
  PROVE  steady' \subseteq ever' /\ ever' \subseteq req'.pattern /\ touched' \subseteq Keys
<1>1. ASSUME \E q \in Requests : Begin(q, q.op)
      PROVE  steady' \subseteq ever' /\ ever' \subseteq req'.pattern
  BY <1>1 DEF Begin, Wanted
<1>2. ASSUME Observe /\ UNCHANGED req
      PROVE  steady' \subseteq ever' /\ ever' \subseteq req'.pattern
  BY <1>2 DEF Observe, Wanted, Domains
<1>3. ASSUME UNCHANGED <<req, steady, ever>>
      PROVE  steady' \subseteq ever' /\ ever' \subseteq req'.pattern
  BY <1>3 DEF Domains
<1>4. \/ \E q \in Requests : Begin(q, q.op)
      \/ Observe /\ UNCHANGED req
      \/ UNCHANGED <<req, steady, ever>>
  BY DEF Next, vars, history, HandleEntries, ReadEntry, CheckEntry, AnswerEntries, HandleExpire,
         ExpireOne, AnswerExpire, HandleKeys, KeysPage, LastPage, HandleVSearch, Offer, PopRoot,
         AnswerVSearch, HandleFind, ScanShard, AnswerFind, Change, SetByOther, DelByOther,
         ExpireByOther, CleanExpired, Tick, Begin
<1>5. touched' \subseteq Keys
  <2>1. touched' = {} \/ touched' = touched \/ (touched' \ touched) \subseteq Keys
    BY DEF Next, vars, history, Begin, HandleEntries, ReadEntry, CheckEntry, AnswerEntries, HandleExpire,
         ExpireOne, AnswerExpire, HandleKeys, KeysPage, LastPage, HandleVSearch, Offer, PopRoot,
         AnswerVSearch, HandleFind, ScanShard, AnswerFind, Change, SetByOther, DelByOther,
         ExpireByOther, CleanExpired, Tick
  <2> QED BY <2>1 DEF Domains
<1> QED BY <1>1, <1>2, <1>3, <1>4, <1>5

LEMMA DomainsStep ==
  ASSUME Base, Domains, Reading, [Next]_vars
  PROVE  Domains'
BY RequestType, TodoType, VisitType, CounterType, FoundType, ListType, HistoryType DEF Domains
---------------------------------------------------------------------------
(* find: the shards leave no key out, whatever their number and the rest.    *)
LEMMA Quotient ==
  ASSUME NEW a \in Nat, NEW b \in Nat \ {0}
  PROVE  a \div b \in Nat /\ (a \div b) * b <= a /\ a < (a \div b) * b + b
OBVIOUS

LEMMA ShardsCover ==
  ASSUME NEW keys \in Seq(Keys)
  PROVE  Range(keys) \subseteq UNION Shards(keys)
<1> DEFINE n == Len(keys)
           chunks == (n + Block - 1) \div Block
<1>1. n \in Nat /\ DOMAIN keys = 1 .. n /\ Block \in Nat \ {0} /\ n + Block - 1 \in Nat
  BY BoundsAssumption
<1>2. ASSUME NEW i \in 1 .. n
      PROVE  \E s \in Shards(keys) : keys[i] \in s
  <2> DEFINE q == (i - 1) \div Block
  <2>1. i - 1 \in Nat /\ q \in Nat /\ q * Block <= i - 1 /\ i - 1 < q * Block + Block
    BY <1>1, Quotient
  <2>2. chunks \in Nat /\ n + Block - 1 < chunks * Block + Block
    BY <1>1, Quotient
  <2> DEFINE from == q * Block + 1
             to == Lower(q * Block + Block, n)
             part == SubSeq(keys, from, to)
  <2>3. q \in 0 .. chunks - 1
    <3> HIDE DEF q, chunks, n
    <3>1. q * Block < chunks * Block
      <4>1. q * Block \in Nat /\ chunks * Block \in Nat
        BY <1>1, <2>1, <2>2
      <4> QED BY <1>1, <2>1, <2>2, <4>1
    <3>2. q < chunks
      <4>1. SUFFICES ASSUME q >= chunks
                     PROVE  FALSE
        BY <2>1, <2>2
      <4>2. q * Block >= chunks * Block
        BY <1>1, <2>1, <2>2, <4>1
      <4> QED BY <1>1, <2>1, <2>2, <3>1, <4>2
    <3> QED BY <2>1, <2>2, <3>2
  <2>4. from \in Nat \ {0} /\ to \in Nat /\ to <= n /\ i \in from .. to
    <3>1. q * Block \in Nat /\ q * Block + Block \in Nat
      BY <1>1, <2>1
    <3>2. to \in Nat /\ to <= n /\ to \in {q * Block + Block, n}
      <4> HIDE DEF q, n
      <4> QED BY <1>1, <3>1, LowerIs
    <3> HIDE DEF q, n, to
    <3> QED BY <1>1, <2>1, <3>1, <3>2
  <2> HIDE DEF from, to
  <2>5. \A j \in from .. to : keys[j] \in Keys
    BY <1>1, <2>4
  <2>6. /\ part \in Seq(Keys) /\ Len(part) = to - from + 1
        /\ \A j \in 1 .. to - from + 1 : part[j] = keys[from + j - 1]
    BY <2>4, <2>5, SubSeqProperties
  <2>7. i - from + 1 \in DOMAIN part /\ part[i - from + 1] = keys[i]
    <3>1. i - from + 1 \in 1 .. to - from + 1 /\ from + (i - from + 1) - 1 = i
      BY <2>4
    <3>2. DOMAIN part = 1 .. to - from + 1
      BY <2>6
    <3> QED BY <2>6, <3>1, <3>2
  <2>8. keys[i] \in Range(part)
    BY <2>7 DEF Range
  <2>9. Range(part) \in Shards(keys)
    BY <2>3 DEF Shards, from, to
  <2> QED BY <2>8, <2>9
<1> QED BY <1>1, <1>2 DEF Range

LEMMA FindBegin ==
  ASSUME Base, NEW q \in Requests, HandleFind(q)
  PROVE  Finding' /\ FindNewest'
<1>0. PICK keys \in SetToSeqs({k \in Keys : data[k] # Nil}) : shards' = Shards(keys)
  BY DEF HandleFind
<1>1. /\ found' = {} /\ data' = data /\ req' = q /\ phase' = "busy" /\ shards' = Shards(keys)
  BY <1>0 DEF HandleFind, Begin, database
<1>2. keys \in Seq(Keys) /\ {k \in Keys : data[k] # Nil} \subseteq Range(keys)
  <2>1. /\ keys \in Seq({k \in Keys : data[k] # Nil}) /\ DOMAIN keys = 1 .. Len(keys)
        /\ \A k \in {l \in Keys : data[l] # Nil} : \E i \in 1 .. Len(keys) : keys[i] = k
    BY Ordering
  <2>2. keys \in Seq(Keys)
    BY <2>1, SeqMonotonic
  <2> QED BY <2>1, <2>2 DEF Range
<1>3. {k \in Keys : data[k] # Nil} \subseteq UNION shards'
  BY <1>1, <1>2, ShardsCover
<1>4. q.pattern \subseteq Keys
  BY RequestTypes DEF Request
<1>5. Wanted(req', data', since') \subseteq {k \in Keys : data[k] # Nil}
  BY <1>1, <1>4 DEF Wanted, LiveAt
<1> QED BY <1>1, <1>3, <1>5 DEF Finding, Scanning, FindNewest

LEMMA FindScan ==
  ASSUME Finding, NEW chunk \in shards, ScanShard(chunk)
  PROVE  Finding' /\ FindNewest'
<1>1. /\ Scanning /\ phase' = "busy" /\ UNCHANGED <<data, req, since>>
      /\ shards' = shards \ {chunk}
      /\ found' = found \cup (chunk \cap Wanted(req, data, since))
  BY DEF ScanShard, Scanning, database, history
<1>2. Wanted(req, data, since)' = Wanted(req, data, since)
  BY <1>1 DEF Wanted, LiveAt, Passes
<1>3. found \subseteq Wanted(req, data, since) /\ Wanted(req, data, since) \subseteq found \cup UNION shards
  BY <1>1 DEF Finding
<1>4. Finding'
  <2>1. found' \subseteq Wanted(req, data, since)
    BY <1>1, <1>3
  <2>2. ASSUME NEW k \in Wanted(req, data, since), k \notin found'
        PROVE  k \in UNION shards'
    <3>1. k \notin found /\ k \notin chunk
      BY <1>1, <2>2
    <3>2. PICK other \in shards : k \in other
      BY <1>3, <3>1
    <3> QED BY <1>1, <3>1, <3>2
  <2> QED BY <1>2, <2>1, <2>2 DEF Finding
<1> QED BY <1>1, <1>4 DEF FindNewest

LEMMA FindAnswer ==
  ASSUME Base, Domains, Finding, AnswerFind
  PROVE  Finding' /\ FindNewest'
<1>1. /\ Scanning /\ phase' = "answered" /\ UNCHANGED <<data, req, since>>
      /\ shards = {}
  BY DEF AnswerFind, database, history
<1>2. Wanted(req, data, since)' = Wanted(req, data, since)
  BY <1>1 DEF Wanted, LiveAt, Passes
<1>3. found = Wanted(req, data, since)
  BY <1>1 DEF Finding
<1>4. PICK all \in SetToSeqs(found) :
        /\ \A i, j \in DOMAIN all : i < j => ~Before(all[j], all[i])
        /\ list' = IF req.limit > 0 /\ req.limit < Len(all) THEN SubSeq(all, 1, req.limit) ELSE all
  BY DEF AnswerFind
<1>5. /\ all \in Seq(found) /\ Len(all) \in Nat /\ DOMAIN all = 1 .. Len(all)
      /\ \A k \in found : \E i \in 1 .. Len(all) : all[i] = k
      /\ \A i, j \in 1 .. Len(all) : all[i] = all[j] => i = j
      /\ req.limit \in Nat
  BY Ordering, RequestParts DEF Domains
<1> DEFINE m == Lower(IF req.limit > 0 THEN req.limit ELSE Len(all), Len(all))
<1>6. /\ m \in Nat /\ m <= Len(all) /\ (m < Len(all) => req.limit > 0 /\ m = req.limit)
      /\ list' \in Seq(found) /\ DOMAIN list' = 1 .. m /\ Len(list') = m
      /\ \A i \in 1 .. m : list'[i] = all[i]
  <2>1. CASE req.limit > 0 /\ req.limit < Len(all)
    <3>1. m = req.limit /\ list' = SubSeq(all, 1, req.limit)
      BY <1>4, <1>5, <2>1 DEF Lower
    <3>2. \A i \in 1 .. req.limit : all[i] \in found
      BY <1>5, <2>1
    <3>3. /\ list' \in Seq(found) /\ Len(list') = req.limit
          /\ \A i \in 1 .. req.limit : list'[i] = all[1 + i - 1]
      BY <1>5, <2>1, <3>1, <3>2, SubSeqProperties
    <3> QED BY <1>5, <2>1, <3>1, <3>3
  <2>2. CASE ~(req.limit > 0 /\ req.limit < Len(all))
    <3>1. m = Len(all) /\ list' = all
      BY <1>4, <1>5, <2>2 DEF Lower
    <3> QED BY <1>5, <2>2, <3>1
  <2> QED BY <2>1, <2>2
<1> HIDE DEF m
<1>7. \A i, j \in 1 .. Len(all) : i < j => all[i] # all[j] /\ ~Before(all[j], all[i])
  BY <1>4, <1>5
<1>8. Range(list') \subseteq found
  BY <1>6 DEF Range
<1>9. ASSUME NEW i \in DOMAIN list', NEW j \in DOMAIN list', i < j
      PROVE  list'[i] # list'[j] /\ ~Before(list'[j], list'[i])
  <2>1. i \in 1 .. Len(all) /\ j \in 1 .. Len(all) /\ list'[i] = all[i] /\ list'[j] = all[j]
    BY <1>5, <1>6
  <2> QED BY <1>7, <1>9, <2>1
<1>10. ASSUME NEW k \in found, k \notin Range(list')
       PROVE  /\ req.limit > 0 /\ Len(list') = req.limit
              /\ \A i \in DOMAIN list' : ~Before(k, list'[i])
  <2>1. PICK p \in 1 .. Len(all) : all[p] = k
    BY <1>5
  <2>2. ~(p <= m)
    <3>1. SUFFICES ASSUME p <= m
                   PROVE  k \in Range(list')
      BY <1>10
    <3>2. p \in DOMAIN list' /\ list'[p] = k
      BY <1>6, <2>1, <3>1
    <3> QED BY <3>2 DEF Range
  <2>3. m < Len(all)
    BY <1>5, <1>6, <2>2
  <2>4. ASSUME NEW i \in DOMAIN list'
        PROVE  ~Before(k, list'[i])
    <3>1. i \in 1 .. Len(all) /\ list'[i] = all[i] /\ i < p
      BY <1>5, <1>6, <2>2
    <3> QED BY <1>7, <2>1, <3>1
  <2> QED BY <1>6, <2>3, <2>4
<1>11. FindNewest'
  <2> DEFINE Place(k) == IF req'.op = "query" THEN Display[k][data'[k].value] ELSE k
             Sooner(k, l) ==
               data'[k].time > data'[l].time \/ (data'[k].time = data'[l].time /\ Place(k) < Place(l))
  <2>1. \A k, l : Sooner(k, l) <=> Before(k, l)
    BY <1>1 DEF Before, Shown
  <2> HIDE DEF Sooner
  <2>2. \A i, j \in DOMAIN list' : i < j => list'[i] # list'[j] /\ ~Sooner(list'[j], list'[i])
    BY <1>9, <2>1
  <2>3. \A k \in found \ Range(list') :
          req'.limit > 0 /\ Len(list') = req'.limit /\ \A i \in DOMAIN list' : ~Sooner(k, list'[i])
    BY <1>1, <1>10, <2>1
  <2> QED BY <1>2, <1>3, <1>8, <2>2, <2>3 DEF FindNewest, Before, Shown, Sooner
<1> QED BY <1>1, <1>11 DEF Finding, Scanning

LEMMA FindingStep ==
  ASSUME Base, Domains, Finding, FindNewest, [Next]_vars
  PROVE  Finding' /\ FindNewest'
<1>1. CASE \E q \in Requests : HandleFind(q)
  BY <1>1, FindBegin
<1>2. CASE \E chunk \in shards : ScanShard(chunk)
  BY <1>2, FindScan
<1>3. CASE AnswerFind
  BY <1>3, FindAnswer
<1>4. CASE Tick \/ UNCHANGED vars
  <2>1. UNCHANGED <<data, req, phase, list, found, shards, since>>
    BY <1>4 DEF Tick, Observe, vars, database, history
  <2> QED BY <2>1 DEF Finding, Scanning, FindNewest, Wanted, Before, Shown, Passes, LiveAt
<1>5. ASSUME req'.op \notin Finds
      PROVE  Finding' /\ FindNewest'
  BY <1>5 DEF Finding, Scanning, FindNewest
<1>6. CASE \/ \E q \in Requests : HandleEntries(q) \/ HandleExpire(q) \/ HandleKeys(q) \/ HandleVSearch(q)
           \/ ReadEntry \/ CheckEntry \/ AnswerEntries \/ AnswerExpire \/ KeysPage \/ LastPage \/ AnswerVSearch
           \/ ExpireOne \/ \E k \in Keys : Offer(k) \/ PopRoot(k)
           \/ CleanExpired \/ \E k \in Keys : \E e : Change(k, e)
  <2>1. req'.op \notin Finds
    BY <1>6 DEF Finds, HandleEntries, HandleExpire, HandleKeys, HandleVSearch, Begin, ReadEntry, CheckEntry, AnswerEntries,
                AnswerExpire, KeysPage, LastPage, AnswerVSearch, ExpireOne, Offer, PopRoot,
                CleanExpired, Change, Unlocked, Busy
  <2> QED BY <1>5, <2>1
<1>7. ASSUME \/ \E k \in Keys : DelByOther(k)
             \/ \E k \in Keys, v \in Values, x \in Time \cup {Nil} : SetByOther(k, v, x)
             \/ \E k \in Keys, x \in Time : ExpireByOther(k, x)
      PROVE  \E k \in Keys : \E e : Change(k, e)
  BY <1>7 DEF DelByOther, SetByOther, ExpireByOther
<1> QED BY <1>1, <1>2, <1>3, <1>4, <1>6, <1>7 DEF Next
---------------------------------------------------------------------------
(* keys: where a key stands among those that come to be paged.               *)
LEMMA Position ==
  ASSUME NEW S \in SUBSET Keys, NEW s \in Sorted(S), NEW i \in 1 .. Len(s)
  PROVE  Cardinality({j \in S : j <= s[i]}) = i
<1>1. /\ s \in Seq(S) /\ DOMAIN s = 1 .. Len(s) /\ Len(s) \in Nat
      /\ \A a, b \in 1 .. Len(s) : s[a] = s[b] => a = b
      /\ \A k \in S : \E a \in 1 .. Len(s) : s[a] = k
      /\ \A a, b \in 1 .. Len(s) : a < b => s[a] < s[b]
  BY Ordering DEF Sorted, Ascending
<1>2. \A a \in 1 .. Len(s) : s[a] \in S /\ s[a] \in Nat
  <2>1. S \subseteq Nat
    BY KeysAssumption
  <2>2. \A a \in 1 .. Len(s) : s[a] \in S
    BY <1>1, ElementOfSeq
  <2> QED BY <2>1, <2>2
<1> DEFINE T == {j \in S : j <= s[i]}
           f == [a \in 1 .. i |-> s[a]]
<1>3. f \in [1 .. i -> T]
  <2>1. ASSUME NEW a \in 1 .. i
        PROVE  s[a] \in S /\ s[a] <= s[i]
    <3>1. a \in 1 .. Len(s) /\ (a = i \/ a < i)
      BY <1>1
    <3> QED BY <1>1, <1>2, <3>1
  <2> QED BY <2>1
<1>4. f \in Injection(1 .. i, T)
  <2>1. \A a, b \in 1 .. i : f[a] = f[b] => a = b
    BY <1>1
  <2> HIDE DEF f, T
  <2> QED BY <1>3, <2>1, Fun_IsInj
<1>5. f \in Surjection(1 .. i, T)
  <2>1. ASSUME NEW k \in T
        PROVE  \E a \in 1 .. i : f[a] = k
    <3>1. PICK a \in 1 .. Len(s) : s[a] = k
      BY <1>1
    <3>2. ~(i < a)
      BY <1>1, <1>2, <3>1
    <3>3. a \in 1 .. i
      BY <1>1, <3>2
    <3> QED BY <3>1, <3>3
  <2> HIDE DEF f, T
  <2> QED BY <1>3, <2>1, Fun_IsSurj
<1>6. IsFiniteSet(1 .. i) /\ Cardinality(1 .. i) = i
  BY FS_Interval
<1> HIDE DEF f, T
<1>7. Cardinality(T) = Cardinality(1 .. i)
  BY <1>4, <1>5, <1>6, FS_Surjection
<1> QED BY <1>6, <1>7 DEF T

LEMMA RankType ==
  ASSUME Base, Domains, NEW k \in steady
  PROVE  k \in Keys /\ k \in Nat /\ Rank(k) \in Nat \ {0}
<1>1. steady \subseteq Keys /\ k \in Keys
  BY RequestParts DEF Domains
<1>2. k \in Nat
  BY <1>1, KeysAssumption
<1>3. IsFiniteSet({j \in steady : j <= k}) /\ k \in {j \in steady : j <= k}
  <2>1. {j \in steady : j <= k} \in SUBSET Keys
    BY <1>1
  <2>2. IsFiniteSet({j \in steady : j <= k})
    BY <2>1, FS_Subset, KeysAssumption
  <2> QED BY <1>2, <2>2
<1>4. Cardinality({j \in steady : j <= k}) \in Nat /\ Cardinality({j \in steady : j <= k}) # 0
  BY <1>3, FS_CardinalityType, FS_EmptySet
<1> QED BY <1>1, <1>2, <1>4 DEF Rank

(* An unmoved key has the place among the keys of a page that it has among   *)
(* those that are there throughout.                                          *)
LEMMA UnmovedPosition ==
  ASSUME Base, History, Domains, Paging, req.op = "keys",
         NEW keys \in Sorted(Wanted(req, data, now)), NEW k \in steady, Unmoved(k)
  PROVE  Rank(k) \in 1 .. Len(keys) /\ \A i \in 1 .. Len(keys) : keys[i] = k <=> i = Rank(k)
<1> DEFINE W == Wanted(req, data, now)
<1>1. /\ steady \subseteq W /\ W \subseteq ever /\ ever \subseteq steady \cup touched
      /\ W \subseteq Keys
  BY RequestParts DEF History, Paging, Wanted
<1>2. k \in Keys /\ k \in Nat
  BY RankType
<1>3. {j \in W : j <= k} = {j \in steady : j <= k}
  <2>1. ASSUME NEW j \in W, j <= k
        PROVE  j \in steady
    <3>1. j \in Nat /\ (j \in touched => j > k)
      BY <1>1, KeysAssumption DEF Unmoved
    <3> QED BY <1>1, <1>2, <2>1, <3>1
  <2> HIDE DEF W
  <2> QED BY <1>1, <2>1
<1>4. /\ Len(keys) \in Nat
      /\ \A a, b \in 1 .. Len(keys) : keys[a] = keys[b] => a = b
      /\ \E i \in 1 .. Len(keys) : keys[i] = k
  BY <1>1, Ordering DEF Sorted
<1>5. PICK p \in 1 .. Len(keys) : keys[p] = k
  BY <1>4
<1>6. Cardinality({j \in W : j <= keys[p]}) = p
  <2> HIDE DEF W
  <2>1. keys \in Sorted(W)
    BY DEF W
  <2> QED BY <1>1, <2>1, Position
<1>7. p = Rank(k)
  BY <1>3, <1>5, <1>6 DEF Rank
<1> QED BY <1>4, <1>5, <1>7

LEMMA PageTaken ==
  ASSUME Base, History, Domains, Paging, KeysPage
  PROVE  Paging'
<1>1. /\ req.op = "keys" /\ phase = "busy" /\ count' = count + 1
      /\ UNCHANGED <<req, phase, steady, ever, touched>>
  BY DEF KeysPage, Busy, history
<1>2. PICK keys \in Sorted(Wanted(req, data, now)) : list' = list \o Page(keys, count + 1, req.limit)
  BY DEF KeysPage
<1>3. Wanted(req, data, now) \subseteq Keys
  BY RequestParts DEF Wanted
<1>4. keys \in Seq(Keys)
  BY <1>2, <1>3, Ordering, SeqMonotonic DEF Sorted
<1>5. count \in Nat /\ req.limit \in Nat /\ req.limit > 0 /\ list \in Seq(Keys) /\ Len(list) \in Nat
  BY <1>1, RequestParts DEF Domains, Paging
<1> DEFINE from == Lower(count * req.limit, Len(keys))
           to == Lower(from + req.limit, Len(keys))
           page == Page(keys, count + 1, req.limit)
<1>6. /\ from \in Nat /\ to \in from .. Len(keys) /\ Len(keys) \in Nat
      /\ page \in Seq(Keys) /\ Len(page) = to - from
      /\ \A i \in 1 .. to - from : page[i] = keys[from + i]
  <2> HIDE DEF from, to, page
  <2> QED BY <1>4, <1>5, PageParts DEF from, to, page
<1>7. /\ from = IF count * req.limit < Len(keys) THEN count * req.limit ELSE Len(keys)
      /\ to = IF from + req.limit < Len(keys) THEN from + req.limit ELSE Len(keys)
  BY DEF Lower
<1> HIDE DEF from, to, page
<1>8. /\ list' \in Seq(Keys) /\ DOMAIN list' = 1 .. Len(list) + (to - from) /\ DOMAIN list = 1 .. Len(list)
      /\ \A i \in 1 .. Len(list) : list'[i] = list[i]
      /\ \A i \in 1 .. to - from : list'[Len(list) + i] = keys[from + i]
  <2>1. list' = list \o page
    BY <1>2 DEF page
  <2>2. /\ list' \in Seq(Keys) /\ Len(list') = Len(list) + Len(page)
        /\ \A i \in 1 .. Len(list) + Len(page) : list'[i] = IF i <= Len(list) THEN list[i] ELSE page[i - Len(list)]
    <3>1. list \in Seq(Keys) /\ page \in Seq(Keys)
      BY <1>5, <1>6
    <3> QED BY <2>1, <3>1, ConcatProperties
  <2>3. \A i \in 1 .. Len(list) : i \in 1 .. Len(list) + (to - from) /\ i <= Len(list)
    BY <1>5, <1>6
  <2>4. ASSUME NEW i \in 1 .. to - from
        PROVE  list'[Len(list) + i] = keys[from + i]
    <3>1. /\ Len(list) + i \in 1 .. Len(list) + (to - from) /\ ~(Len(list) + i <= Len(list))
          /\ (Len(list) + i) - Len(list) = i
      BY <1>5, <1>6
    <3> QED BY <1>6, <2>2, <3>1
  <2>5. DOMAIN list' = 1 .. Len(list) + (to - from) /\ DOMAIN list = 1 .. Len(list)
    BY <1>5, <1>6, <2>2
  <2>6. \A i \in 1 .. Len(list) : list'[i] = list[i]
    BY <1>6, <2>2, <2>3
  <2> QED BY <2>2, <2>4, <2>5, <2>6
<1>9. ASSUME NEW k \in steady, Unmoved(k)
      PROVE  IF Rank(k) <= count' * req.limit THEN Once(k)' ELSE Never(k)'
  <2>1. Rank(k) \in 1 .. Len(keys) /\ \A i \in 1 .. Len(keys) : keys[i] = k <=> i = Rank(k)
    BY <1>1, <1>2, <1>9, UnmovedPosition
  <2>2. IF Rank(k) <= count * req.limit THEN Once(k) ELSE Never(k)
    BY <1>1, <1>9 DEF Paging, Placed
  <2> DEFINE r == Rank(k)
             done == count * req.limit
  <2>3. done \in Nat /\ count' * req.limit = done + req.limit
    BY <1>1, <1>5
  <2>4. \A i \in 1 .. to - from : list'[Len(list) + i] = k <=> from + i = r
    <3>1. \A i \in 1 .. to - from : from + i \in 1 .. Len(keys)
      BY <1>6
    <3> QED BY <1>8, <2>1, <3>1
  <2>5. \A j \in DOMAIN list' : j \in DOMAIN list \/ \E i \in 1 .. to - from : j = Len(list) + i
    <3>1. \A j \in DOMAIN list' : j \in 1 .. Len(list) \/ (j - Len(list)) \in 1 .. to - from
      BY <1>5, <1>6, <1>8
    <3>2. \A j \in DOMAIN list' : j = Len(list) + (j - Len(list))
      BY <1>5, <1>8
    <3> QED BY <1>8, <3>1, <3>2
  <2>6. CASE r <= done
    <3>1. r <= from /\ \A i \in 1 .. to - from : from + i # r
      BY <1>6, <1>7, <2>1, <2>3, <2>6
    <3>2. PICK p \in DOMAIN list : \A j \in DOMAIN list : list[j] = k <=> j = p
      BY <2>2, <2>6 DEF Once
    <3>3. p \in DOMAIN list' /\ \A j \in DOMAIN list' : list'[j] = k <=> j = p
      <4>1. p \in DOMAIN list'
        BY <1>5, <1>6, <1>8, <3>2
      <4>2. ASSUME NEW j \in DOMAIN list
            PROVE  list'[j] = k <=> j = p
        BY <1>8, <3>2
      <4>3. ASSUME NEW i \in 1 .. to - from
            PROVE  list'[Len(list) + i] # k /\ Len(list) + i # p
        BY <1>5, <1>6, <1>8, <2>4, <3>1, <3>2
      <4> QED BY <2>5, <4>1, <4>2, <4>3
    <3> QED BY <1>5, <2>1, <2>3, <2>6, <3>3 DEF Once
  <2>7. CASE ~(r <= done)
    <3>1. from = done /\ \A j \in DOMAIN list : list'[j] # k
      BY <1>7, <1>8, <2>1, <2>2, <2>3, <2>7 DEF Never
    <3>2. CASE r <= done + req.limit
      <4>1. r - from \in 1 .. to - from /\ from + (r - from) = r
        <5>1. to >= r /\ r > from
          BY <1>5, <1>6, <1>7, <2>1, <2>3, <2>7, <3>1, <3>2
        <5> QED BY <1>6, <2>1, <5>1
      <4> DEFINE p == Len(list) + (r - from)
      <4>2. p \in DOMAIN list'
        BY <1>5, <1>6, <1>8, <4>1
      <4>3. ASSUME NEW j \in DOMAIN list'
            PROVE  list'[j] = k <=> j = p
        <5>1. CASE j \in DOMAIN list
          <6>1. j # p
            BY <1>5, <1>8, <4>1, <5>1
          <6> QED BY <3>1, <5>1, <6>1
        <5>2. CASE \E i \in 1 .. to - from : j = Len(list) + i
          <6>1. PICK i \in 1 .. to - from : j = Len(list) + i
            BY <5>2
          <6>2. list'[j] = k <=> from + i = r
            BY <2>4, <6>1
          <6>3. from + i = r <=> j = p
            <7>1. i \in Int /\ from \in Int /\ r \in Int /\ Len(list) \in Int
              BY <1>5, <1>6, <2>1
            <7> QED BY <6>1, <7>1
          <6> QED BY <6>2, <6>3
        <5> QED BY <2>5, <5>1, <5>2
      <4> HIDE DEF p
      <4>4. Once(k)'
        BY <4>2, <4>3 DEF Once
      <4> QED BY <2>3, <3>2, <4>4
    <3>3. CASE ~(r <= done + req.limit)
      <4>1. \A i \in 1 .. to - from : from + i # r
        BY <1>5, <1>6, <1>7, <2>1, <2>3, <3>1, <3>3
      <4>2. Never(k)'
        BY <2>4, <2>5, <3>1, <4>1 DEF Never
      <4> QED BY <2>3, <3>3, <4>2
    <3> QED BY <3>2, <3>3
  <2> QED BY <2>6, <2>7
<1>10. \A k : Rank(k)' = Rank(k) /\ (Unmoved(k)' <=> Unmoved(k))
  BY <1>1 DEF Rank, Unmoved
<1>11. ASSUME NEW k \in steady', Unmoved(k)'
       PROVE  Placed(k)'
  <2>1. IF Rank(k)' <= count' * req'.limit THEN Once(k)' ELSE Never(k)'
    BY <1>1, <1>9, <1>10, <1>11
  <2> QED BY <1>1, <2>1 DEF Placed
<1> QED BY <1>1, <1>5, <1>11 DEF Paging
LEMMA PagesBegin ==
  ASSUME Base, NEW q \in Requests, HandleKeys(q)
  PROVE  Paging'
<1>1. /\ req' = q /\ q.limit > 0 /\ phase' = "busy" /\ list' = <<>> /\ count' = 0
      /\ steady' = Wanted(q, data, now) /\ ever' = steady' /\ q.limit \in Nat /\ q.pattern \subseteq Keys
  BY RequestTypes DEF HandleKeys, Begin, Request
<1>2. ASSUME NEW k \in steady'
      PROVE  Placed(k)'
  <2>1. steady' \subseteq Keys /\ k \in Keys /\ k \in Nat
    BY <1>1, KeysAssumption DEF Wanted
  <2>2. {j \in steady' : j <= k} \in SUBSET Keys /\ k \in {j \in steady' : j <= k}
    <3>1. k <= k
      BY <2>1
    <3> QED BY <2>1, <3>1
  <2>3. IsFiniteSet({j \in steady' : j <= k})
    BY <2>2, FS_Subset, KeysAssumption
  <2>4. Cardinality({j \in steady' : j <= k}) \in Nat \ {0}
    BY <2>2, <2>3, FS_CardinalityType, FS_EmptySet
  <2>5. Rank(k)' \in Nat \ {0}
    BY <2>4 DEF Rank
  <2>6. ~(Rank(k)' <= count' * req'.limit)
    BY <1>1, <2>5
  <2>7. Never(k)'
    BY <1>1 DEF Never
  <2> QED BY <1>1, <2>6, <2>7 DEF Placed
<1> QED BY <1>1, <1>2 DEF Paging

LEMMA PagesEnd ==
  ASSUME Base, History, Domains, Paging, LastPage
  PROVE  Paging'
<1>1. /\ req.op = "keys" /\ phase = "busy" /\ phase' = "answered"
      /\ count * req.limit >= Cardinality(Wanted(req, data, now))
      /\ UNCHANGED <<req, list, count, steady, ever, touched>>
  BY DEF LastPage, Busy, history
<1>2. ASSUME NEW k \in steady, Unmoved(k)
      PROVE  Once(k)
  <2>1. {j \in steady : j <= k} \subseteq Wanted(req, data, now) /\ Wanted(req, data, now) \subseteq Keys
    BY <1>1, RequestParts DEF History, Wanted
  <2>2. /\ Rank(k) \in Nat /\ Cardinality(Wanted(req, data, now)) \in Nat
        /\ Rank(k) <= Cardinality(Wanted(req, data, now))
    BY <2>1, MoreOrAsMany DEF Rank
  <2>3. count * req.limit \in Nat
    BY RequestParts DEF Domains
  <2>4. Rank(k) <= count * req.limit
    BY <1>1, <2>2, <2>3
  <2> QED BY <1>1, <1>2, <2>4 DEF Paging, Placed
<1>3. ASSUME NEW k \in steady', Unmoved(k)'
      PROVE  Placed(k)'
  <2>1. k \in steady /\ Unmoved(k)
    BY <1>1, <1>3 DEF Unmoved
  <2>2. Once(k)
    BY <1>2, <2>1
  <2>3. Once(k)'
    BY <1>1, <2>2 DEF Once
  <2> QED BY <1>1, <2>3 DEF Placed
<1> QED BY <1>1, <1>3 DEF Paging

(* What others do, a sweep and the clock: a key that none of them touched    *)
(* can be answered after the step as before it.                              *)
LEMMA Untouched ==
  ASSUME Base, History, Domains, phase = "busy",
         \/ CleanExpired \/ Tick \/ \E k \in Keys : \E e : Change(k, e)
  PROVE  /\ UNCHANGED <<req, phase, list, count>>
         /\ steady' \subseteq steady /\ ever \subseteq ever' /\ touched \subseteq touched'
         /\ \A j \in steady : j \in steady' \/ j \in touched'
         /\ \A j \in ever' : j \in ever \/ j \in touched'
<1>1. /\ UNCHANGED <<req, phase, list, count>>
      /\ steady' \subseteq steady /\ ever \subseteq ever' /\ touched \subseteq touched'
  BY DEF CleanExpired, Tick, Change, Observe, history
<1>2. CASE CleanExpired
  BY <1>1, <1>2 DEF CleanExpired, history
<1>3. ASSUME Observe, UNCHANGED req,
             \A j \in req.pattern \ touched' :
               j \in Wanted(req, data, now) <=> j \in Wanted(req, data', now')
      PROVE  /\ \A j \in steady : j \in steady' \/ j \in touched'
             /\ \A j \in ever' : j \in ever \/ j \in touched'
  <2>1. /\ steady \subseteq Wanted(req, data, now) /\ Wanted(req, data, now) \subseteq ever
        /\ steady \subseteq req.pattern
    BY DEF History, Domains
  <2>2. Wanted(req, data', now') \subseteq req.pattern
    BY DEF Wanted
  <2>3. steady' = steady \cap Wanted(req, data', now') /\ ever' = ever \cup Wanted(req, data', now')
    BY <1>3 DEF Observe
  <2> QED BY <1>3, <2>1, <2>2, <2>3
<1>4. CASE Tick
  <2>1. /\ Observe /\ UNCHANGED <<req, data>> /\ now' = now + 1
        /\ touched' = touched \cup {k \in Keys : LiveAt(data[k], now) /\ ~LiveAt(data[k], now + 1)}
    BY <1>4 DEF Tick
  <2>2. ASSUME NEW j \in Keys, j \notin touched'
        PROVE  LiveAt(data[j], now) <=> LiveAt(data[j], now + 1)
    <3>1. LiveAt(data[j], now) => LiveAt(data[j], now + 1)
      BY <2>1, <2>2
    <3>2. ASSUME LiveAt(data[j], now + 1)
          PROVE  LiveAt(data[j], now)
      <4>1. data[j] \in Entry
        BY <3>2, Entries DEF LiveAt
      <4>2. data[j].exp \in Nat \cup {Nil} /\ now \in Nat
        BY <4>1, BoundsAssumption DEF Base, Time, Entry, Deadline
      <4> QED BY <3>2, <4>2 DEF LiveAt
    <3> QED BY <3>1, <3>2
  <2>3. \A j \in req.pattern \ touched' :
          j \in Wanted(req, data, now) <=> j \in Wanted(req, data', now')
    BY <2>1, <2>2, RequestParts DEF Wanted
  <2> QED BY <1>1, <1>3, <2>1, <2>3
<1>5. CASE \E k \in Keys : \E e : Change(k, e)
  <2>1. PICK k \in Keys : \E e : Change(k, e)
    BY <1>5
  <2>2. PICK e : Change(k, e)
    BY <2>1
  <2>3. /\ Observe /\ UNCHANGED <<req, now>> /\ data' = [data EXCEPT ![k] = e]
        /\ touched' = touched \cup {k}
    BY <2>2 DEF Change
  <2>4. \A j \in Keys \ touched' : data'[j] = data[j]
    BY <2>3 DEF Base
  <2>5. \A j \in req.pattern \ touched' :
          j \in Wanted(req, data, now) <=> j \in Wanted(req, data', now')
    BY <2>3, <2>4, RequestParts DEF Wanted
  <2> QED BY <1>1, <1>3, <2>3, <2>5
<1> QED BY <1>1, <1>2, <1>4, <1>5

LEMMA PagesWait ==
  ASSUME Base, History, Domains, Paging, req.op = "keys", phase = "busy",
         \/ CleanExpired \/ Tick \/ \E k \in Keys : \E e : Change(k, e)
  PROVE  Paging'
<1>1. /\ UNCHANGED <<req, phase, list, count>>
      /\ steady' \subseteq steady /\ ever \subseteq ever' /\ touched \subseteq touched'
      /\ \A j \in steady : j \in steady' \/ j \in touched'
      /\ \A j \in ever' : j \in ever \/ j \in touched'
  BY Untouched
<1>2. req.limit > 0 /\ ever' \subseteq steady' \cup touched'
  BY <1>1 DEF Paging
<1>3. ASSUME NEW k \in steady', Unmoved(k)'
      PROVE  Placed(k)'
  <2>1. k \in steady /\ Unmoved(k) /\ \A j \in touched' : j > k
    BY <1>1, <1>3 DEF Unmoved
  <2>2. Placed(k)
    BY <2>1 DEF Paging
  <2>3. {j \in steady' : j <= k} = {j \in steady : j <= k}
    <3>1. steady \subseteq Nat /\ k \in Nat
      BY <2>1, RequestParts, KeysAssumption DEF Domains
    <3>2. ASSUME NEW j \in steady, j <= k
          PROVE  j \in steady'
      <4>1. j \in Nat /\ ~(j > k)
        BY <3>1, <3>2
      <4> QED BY <1>1, <2>1, <4>1
    <3> QED BY <1>1, <3>2
  <2>4. Rank(k)' = Rank(k)
    BY <2>3 DEF Rank
  <2>5. (Once(k)' <=> Once(k)) /\ (Never(k)' <=> Never(k))
    BY <1>1 DEF Once, Never
  <2> QED BY <1>1, <2>2, <2>4, <2>5 DEF Placed
<1> QED BY <1>1, <1>2, <1>3 DEF Paging

LEMMA PagingStep ==
  ASSUME Base, History, Domains, Paging, [Next]_vars
  PROVE  Paging'
<1>1. CASE \E q \in Requests : HandleKeys(q)
  BY <1>1, PagesBegin
<1>2. CASE KeysPage
  BY <1>2, PageTaken
<1>3. CASE LastPage
  BY <1>3, PagesEnd
<1>4. ASSUME req'.op # "keys"
      PROVE  Paging'
  BY <1>4 DEF Paging
<1>5. CASE CleanExpired \/ Tick \/ \E k \in Keys : \E e : Change(k, e)
  <2>1. UNCHANGED req /\ phase = "busy"
    BY <1>5 DEF CleanExpired, Tick, Change, Unlocked
  <2>2. CASE req.op = "keys"
    BY <1>5, <2>1, <2>2, PagesWait
  <2> QED BY <1>4, <2>1, <2>2
<1>6. CASE UNCHANGED vars
  BY <1>6 DEF Paging, Placed, Once, Never, Unmoved, Rank, vars, history
<1>7. CASE \/ \E q \in Requests : HandleEntries(q) \/ HandleExpire(q) \/ HandleVSearch(q)
           \/ \E q \in Requests : HandleFind(q)
           \/ ReadEntry \/ CheckEntry \/ AnswerEntries \/ AnswerExpire \/ AnswerVSearch \/ AnswerFind
           \/ \E chunk \in shards : ScanShard(chunk)
           \/ ExpireOne \/ \E k \in Keys : Offer(k) \/ PopRoot(k)
  <2>1. req'.op # "keys"
    BY <1>7 DEF HandleEntries, HandleExpire, HandleVSearch, HandleFind, Begin, ReadEntry, CheckEntry, AnswerEntries,
                AnswerExpire, AnswerVSearch, AnswerFind, ScanShard, ExpireOne, Offer, PopRoot, Busy, Scanning, Finds
  <2> QED BY <1>4, <2>1
<1>8. ASSUME \/ \E k \in Keys : DelByOther(k)
             \/ \E k \in Keys, v \in Values, x \in Time \cup {Nil} : SetByOther(k, v, x)
             \/ \E k \in Keys, x \in Time : ExpireByOther(k, x)
      PROVE  \E k \in Keys : \E e : Change(k, e)
  BY <1>8 DEF DelByOther, SetByOther, ExpireByOther
<1> QED BY <1>1, <1>2, <1>3, <1>5, <1>6, <1>7, <1>8 DEF Next

(* A key placed once is counted once.                                        *)
LEMMA PagingCounts ==
  ASSUME Paging
  PROVE  PagesCover
<1> SUFFICES ASSUME req.op = "keys", NEW k \in steady, Unmoved(k)
             PROVE  Times(k) = IF Rank(k) <= count * req.limit \/ phase = "answered" THEN 1 ELSE 0
  BY DEF PagesCover
<1>1. Placed(k)
  BY DEF Paging
<1>2. ASSUME Once(k)
      PROVE  Times(k) = 1
  <2>1. PICK i \in DOMAIN list : \A j \in DOMAIN list : list[j] = k <=> j = i
    BY <1>2 DEF Once
  <2>2. {j \in DOMAIN list : list[j] = k} = {i}
    BY <2>1
  <2> QED BY <2>2, FS_Singleton DEF Times
<1>3. ASSUME Never(k)
      PROVE  Times(k) = 0
  <2>1. {j \in DOMAIN list : list[j] = k} = {}
    BY <1>3 DEF Never
  <2> QED BY <2>1, FS_EmptySet DEF Times
<1> QED BY <1>1, <1>2, <1>3 DEF Placed
---------------------------------------------------------------------------
LEMMA InitInv ==
  ASSUME Init
  PROVE  HandlersInv
<1>1. Base
  BY BoundsAssumption DEF Init, Base, Time, NoCopy
<1>2. req.op = "none" /\ phase = "idle"
  BY DEF Init, NoRequest
<1>3. Domains
  BY <1>2, BoundsAssumption, EmptySeq DEF Init, Domains, NoRequest
<1> QED BY <1>1, <1>2, <1>3 DEF HandlersInv, History, Reading, EntriesAnswered, Expiring, Paging,
                             Searching, Finding, FindNewest, Scanning

(* HandlersInv holds in every state.                                         *)
THEOREM Inductive == Spec => []HandlersInv
<1>1. HandlersInv /\ [Next]_vars => HandlersInv'
  <2> SUFFICES ASSUME HandlersInv, [Next]_vars
               PROVE  HandlersInv'
    OBVIOUS
  <2>1. /\ Base /\ Domains /\ History /\ Reading /\ EntriesAnswered /\ Expiring
        /\ Paging /\ Searching /\ Finding /\ FindNewest
    BY DEF HandlersInv
  <2>2. Base' /\ Domains' /\ History'
    BY <2>1, BaseStep, DomainsStep, HistoryStep
  <2>3. Reading' /\ EntriesAnswered'
    BY <2>1, EntriesStep
  <2>4. Expiring' /\ Searching'
    BY <2>1, ExpiringStep, SearchingStep
  <2>5. Paging' /\ Finding' /\ FindNewest'
    BY <2>1, PagingStep, FindingStep
  <2> QED BY <2>2, <2>3, <2>4, <2>5 DEF HandlersInv
<1> QED BY <1>1, InitInv, PTL DEF Spec

(* What entries answers: whatever the other connections write while it reads *)
(* key after key, every key that could be answered throughout is there, in   *)
(* order and once, unless the limit cut it off.                              *)
THEOREM EntriesKept == Spec => []EntriesAnswered
<1>1. HandlersInv => EntriesAnswered
  BY DEF HandlersInv
<1> QED BY <1>1, Inductive, PTL

(* What expire counts: every visit to a key that was there throughout and    *)
(* whose record was written, none to one that was absent and untouched, none *)
(* whose record failed; a key visited has the deadline, counted or not.      *)
THEOREM ExpireIsRight == Spec => []ExpireCounts
<1>1. HandlersInv => ExpireCounts
  BY DEF HandlersInv, Expiring, ExpireCounts
<1> QED BY <1>1, Inductive, PTL

(* What vsearch keeps: the nearest, as many as were asked for, in whatever   *)
(* order the map yields the entries.                                         *)
THEOREM SearchIsBest == Spec => []SearchBest
<1>1. HandlersInv => SearchBest
  BY DEF HandlersInv, Searching, SearchBest
<1> QED BY <1>1, Inductive, PTL

(* What keys answers page after page: a key that is there throughout comes   *)
(* once, on its page, as long as nobody touches a key up to it.              *)
THEOREM PagesAreRight == Spec => []PagesCover
<1>1. HandlersInv => PagesCover
  BY PagingCounts DEF HandlersInv
<1> QED BY <1>1, Inductive, PTL

(* What find and query answer: matching entries only, newest first and then  *)
(* as they are displayed, and none left out that goes before one of these,   *)
(* for any block and any order of the map and of the shards.                 *)
THEOREM FindIsNewest == Spec => []FindNewest
<1>1. HandlersInv => FindNewest
  BY DEF HandlersInv
<1> QED BY <1>1, Inductive, PTL

(* Every variable stays in its domain.                                       *)
THEOREM TypeCorrect == Spec => []TypeOK
<1>1. HandlersInv => TypeOK
  BY TypeParts DEF HandlersInv
<1> QED BY <1>1, Inductive, PTL
============================================================================
