# ToriiDB: specification, model checking and proofs

ToriiDB (`src/core`) is an embedded key-value store written in Go: sixteen databases of JSON
entries kept in memory, made durable by an append log and numbered snapshots, and shared
between processes by a daemon on a unix socket. This directory holds TLA+ modules that model
its state machines, TLC configurations that check them on small instances, and TLAPS proofs
about the durability of a database, what its entries hold, what its filters and commands mean,
the socket of a daemon, the requests it serves and the connections of a client, for instances of
any size.

## 1. The system

| component | source | state it keeps | operations |
|---|---|---|---|
| Store, entries | `store/store.go set.go setField.go get.go del.go ttl.go incr.go incrField.go` | per database: map of entries, `d.mu`, `loaded`, `loadErr`, current log | Set, SetVector, SetField, Incr, IncrField, DelField, Del, Get, Expire, ExpireAt, Persist, expiry timer, Close |
| Append log, snapshots | `store/aof.go gc.go store.go` | files `NNNNNNNN.snap`, `NNNNNNNN.log`; `num`, `logSize`, `snapSize` | write a record, compact, collect old generations, load and replay |
| Vectors | `store/vector.go vcache.go vsearch.go vsim.go` | vector of an entry, embedding cache entries in the same map, background jobs | attach a vector, cache an embedding, VSearch, VSim |
| Documents | `setValue`, `setParsed`, paths in `utils`, `setField.go`, `get.go`, `del.go` | raw text of an entry and its parsed cache | set, get, delete a field |
| Queries | `store/filter/*`, `find.go query.go keys.go` | none | parse and evaluate filters, glob, order and limit |
| Commands | `store/exec.go` | none | one line of text to an operation |
| Daemon | `daemon/daemon.go socket.go handler.go protocol.go content.go` | mode, listener, connections, handlers; the path of the socket | New, Start, Stop, Close, accept, serve |
| Client | `daemon/client.go api.go` | pool of idle connections | call with retries, close |
| Embedding service | `openai/client.go` | remote | embed a text |
| Terminal | `cmd/test/main.go` | none | reads lines, calls Exec |

How they interact. A caller takes the lock of a database, changes the map, and appends a
record to the log **under the same lock**; a record that brings the log to its threshold makes
the operation run the compaction, also under the lock. What runs without the lock and meets
every step of the above is: the collector (`go gcOlderThan`), readers between two sections of
the lock (`Get`), vector jobs between theirs, the clock, and a crash. A daemon in server mode
calls the store from one handler goroutine per connection; a client daemon sends a frame and
reads one. Processes meet only at the path of the socket and at the files.

What is hard, and what makes each part correct (the full list, at its lines, is `hazards` in
`PROJECT.json`):

* *durability*: an acknowledged write survives a crash at any point, through any number of
  compactions, a collector that is late, torn records and failing steps; a restart shows what
  the process showed; the generation before the newest one would restore the same;
* *agreement of memory and disk about time*: an expired entry stays in the map until a timer
  or a reader removes it, and is left out of snapshots before that;
* *vector jobs and readers* that act on what they saw earlier;
* *ownership of the directory*: who removes whose socket, when processes start, stop and die;
* *the end of a daemon*: accept goroutine, handlers and store end in the right order, and do end;
* *the pool*: an answer belongs to the request of the call that reads it; a request is repeated
  only when its connection dropped; connections are neither leaked nor closed by strangers.

## 2. Modules

```
Entries ─┬─ Db ── DbInvariant ── MCDb               Daemon ── MCDaemon
         │   └─ Handover ── MCHandover                └─ DaemonProofs
         ├─ KvPromise   (Db implements it)           Client ── MCClient
         └─ (Db) DbTypeProofs ──                       └─ ClientProofs
              DbDiskProofs ── PromiseProofs          Handlers ── MCHandlers
                                                       └─ HandlersProofs
Documents ─┬─ Records ── Walks ─┬─ MCRecords
           │                    └─ RecordsProofs
           └─ Filters ── Commands ─┬─ MCCommands
                                   └─ CommandsProofs
```

Db and Daemon each leave out what the other has; Handlers and Handover put two levels next to
each other where they meet. Db abstracts from what a value holds, Records from locks, files and
faults: an operation of Records is one step of Db with its record written.

**Entries** has the data of one database: entries (a value and an expiry), the records of the
log, and what replaying a record does (`replayInto`). A value stands for the text of an entry
together with the type `detectType` gives it. Only the last SET or DEL of a key and the last
expiry after it matter to a replay, so a log file is kept as one *effect* per key (`keep`,
`put`, `stamp`); `DbTypeProofs!ThenReplays` proves that this loses nothing. A log has two such
summaries: `eff` of its complete lines and `seen`, what a replay would read now, which
includes a last line without its newline if that is a whole record; `torn` says the next
record will be written on that line.

**Db** is the struct `db` with everything that changes it. `phase` says where the holder of
`d.mu` is; the actions follow the code:

| action | code |
|---|---|
| `StartLoad`, `ReplaySnapshot`, `ReplayLog`, `ReplayDone`, `ReadFails` | `ensureLoaded`, `loadAll`, `replayGeneration`, one file a step |
| `Set`, `SetVector`, `SetField`, `Incr`, `IncrField`, `DelField`, `Expire`, `ExpireAt`, `Persist` | the section of the lock of each, leaving the record to log in `pend` |
| `Del`, `DelKey` | one section, one record per key |
| `AttachVector`, `DropVector`, `PutVector` | the end of a vector job, `putVector` |
| `GetRead`, `GetReturn`, `GetRemove` | the two sections of `Get` on an entry that has an expiry |
| `CleanExpired` | the timer, with the clock read before the lock |
| `AppendRecord`, `AppendFails` | `init` and `writeAOF`; what a failed write left in the file is nothing, a part, or the whole line |
| `WriteSnapshot`, `OpenNextLog`, `CompactFails` | `compact`: up to the rename; the next log and the new number; an error in either half |
| `Close` | `Close` and `closeAll`, which compact |
| `GcSnapshot`, `GcLog` | `gcOlderThan`, one file a step |
| `Crash`, `Tick` | the process ends in any phase; the clock |

`why[k]` is a history variable: the reasons recorded against a key for which disk and memory
may differ, each a behaviour of the code that is described below. An acknowledged SET or DEL
of the key, or a snapshot, clears it. `fork` marks keys an older generation may restore
differently, `served` what the stopped process held.

**KvPromise** is what a database promises its callers, with nothing said of files, locks or jobs:
an operation changes one key (`Write`), a key is *owed* once it is known to be on disk
(`Secure`), the process ends at any point (`Stop`), the next one shows every owed key as it was
(`Start`), and time only makes entries expire (`Pass`). `Db!Promise` maps Db to it: `Shown` is
what a reader sees of each key now, or what the stopped process showed last, and `Owed` are the
keys with no reason in `why` and no record pending. `KeepsPromise` says that every behaviour of
Db is one of KvPromise.

**Documents** has the JSON values as Go holds them and the paths into them, **Records** what one
entry is made of: the raw text, the parsed cache, the vector and the two times, and next to the
map what a replay of the files would make of it. A value is a tree, a function from the places
in it (paths) to what stands there, so that a write at a path says of every place at once what
becomes of it, and needs no recursion. **Walks** has the write a second time, from member to
member as `walkKeysAndSet` goes down: `at` are the values it enters one after the other, `made` what
each of them becomes once the rest is written. `WalksAgree` compares the two. Numbers are whole, and
`Exact` (2^53 in the code, 4 in the run) is where a float64 begins to miss every second one, so
that an int64 written by `Atov` and the float64 that a restart reads are told apart; `NaN`
stands for the floats that `json.Marshal` refuses. A key that a field write makes gets the object
itself as its cache, as one that was there does (`setField.go:63-72`). An operation reads the
clock for memory and `Log` reads it again for the record, which may be of a later second. `drift` and
`imprecise` are the histories that say what may differ: a vector of an earlier text, a record of a
later second, a vector record, a snapshot; a cache with an integer beyond float64, or one that a
failed field write has changed.

**Filters** is the filter language: the words of an expression, the recursive descent of
`parser.go` position by position, and `Match`. A filter stands for the set of objects that it
matches. A method of the parser is called at a position and returns a filter and the position
behind it, or an error: a set of one pair or of none; `Parse` is the recursive function of what
all of them return. The documented grammar is there besides, as the sets of objects that any
stretch of words may mean (`Grammar`). **Commands** is `exec.go`: which operation a line
calls, with which arguments. Its only behaviour is that a line is typed piece by piece, so that
every line up to a length is a state. A field of a line is a sequence of symbols: parentheses
and what is between them, dots and what is between them.

**Handlers** follows one request of several sections of the lock while other connections write,
keys expire and the timer sweeps: `handleEntries` (`HandleEntries`, the two sections of each Get as
`ReadEntry` and `CheckEntry`, `AnswerEntries`), `handleExpire`, which walks a list that may name a
key twice and whose records may fail after the deadline was assigned (`ExpireOne`), page after page
of `handleKeys`, the heap of `scanTopK` (`Offer`, `PopRoot`), and Find and Query with the shards of
`sliceScan` (`HandleFind`, `ScanShard`, `AnswerFind`). The last three hold the lock from the first
key to the last; their order of keys is that of a Go map, any. Find breaks ties by the key, Query
by the key with its value (`Display`). `got.same` says whether the map still holds the entry that
Get has copied, which is all its second section looks at. `steady`, `ever`, `touched` and `failed`
are histories of the request.

**Handover** has two processes, each a `Db` of its own, on the same files and clock, and the
socket between them: `OldStops` is the first half of `Daemon.Close`, `NewServes` a `New` that
finds nobody.

**Daemon** models processes on one directory: `New`, `Start` as the three steps of
`listenSocket`, the accept goroutine with its window between `Accept` and `d.mu`, the handler
of each connection, `Stop` and `Close` step by step (`StopClose` has the two effects of
`listener.Close`: the path is unlinked, then the listener closes), and the end of a process,
which leaves the path behind. A goroutine that calls Start, Stop or Close is a *caller*; with
one caller per process the calls of a daemon do not overlap. A daemon is not used after its
Close.

**Client** models `call`, `exchange`, `take`, `put`, `close` and `context.AfterFunc`, whose
function runs in a goroutine of its own (`doomed`, `AfterFunc`). The other end of a connection
does what `serve` does and may hang up at any point (`Stop`, read timeout, a crash).

## 3. Runs

| run | instance | what it shows |
|---|---|---|
| `operations` | one key, a JSON object and a number, clock 0-2, all operations, one job, one reader, 2 generations | disk and memory agree on every key without a reason; a restart restores what was held; KvPromise is kept |
| `generations` | one key, Set and ExpireAt, 4 generations, clock 0-1, failing writes and compactions | the same, one log follows the newest snapshot, and the generation before it would restore the same keys |
| `two_keys` | two keys, one also an embedding cache key, Set, SetVector, Del, torn records, failing compactions | faults in the records of one key do not reach the other; a Del between its keys can be compacted |
| `unreadable` | one key, files that cannot be read back, 3 generations | a store that could not load touches nothing a later start may read |
| `records` | one key; an object with an array, an array, a number; three paths; a small number, one above `Exact`, NaN | a restart answers what memory answers; vectors are of their text; times survive; a field write leaves the others alone, and is what the walk down to the field makes |
| `expressions` | every line of up to 5 pieces (filters, SET), 6 (VSEARCH), 4 (keys) | filters mean what the grammar says; the trailing words are read as documented; one word names one target |
| `handlers` | three keys, two values, one request of each kind with and without limit, two writes by others, clock 1-2 | what an answer holds whatever happens between its sections |
| `lifecycle` | two processes, one caller each, two connections, one listener each | who owns the socket; Stop leaves nothing; Close waits; Stop ends |
| `calls` | two calls, two connections, pool of 1, 2 attempts | answers, repeats, leaks, foreign closes; every call returns |
| `field_expiry` | Set, SetField | **violated**: SetField logs no expiry |
| `torn_tail` | Set, Close, torn records | **violated**: the first write after a torn record is lost |
| `handover` | two processes, Set, Close | **violated**: the last snapshot of the old process hides what the new one has acknowledged |

What the properties of the last modules say, and what they leave room for:

* `RestartAnswers`: the raw text on disk is the one in memory, and so is the cache, to the last
  digit. The exception (`imprecise`) is a key into which a field write has put a whole number
  above 2^53, which is answered exactly until a restart and only *after rounding* is what a restart
  answers, or which a failed field write has left with a NaN; it ends when the entry is set whole.
* `VectorFresh`, with the exception that the code makes: SetField, IncrField, DelField and Incr
  keep the vector of the text before (`rewritten`), and a compaction makes that last.
* `TimesKept`: a restart never makes an entry older in the order of Find and Query, and keeps its
  time unless its last change was logged in a later second than it was made in (`aof.go:31`) or a
  vector was attached since (its record carries the job's time). Once a snapshot was taken the time
  is the entry's creation (`serialize` writes CreatedAt only).
* `WalksAgree`, at the three paths of the operations and five more: beyond the array, below a
  number, a whole member, and two objects that have to be made.
* `FiltersMeanGrammar`: accepted are exactly the expressions of the grammar, which gives none of
  them two meanings, and the filter matches the objects that are meant.
* `PagesCover`: pages repeat or leave out only keys behind one that somebody changed meanwhile.
* `EntriesAnswered`: what a concurrent writer or sweeper does to one key, also between the two
  sections of Get, costs no other key its place.
* `ExpireCounts`: the count is of visits to keys, so that one named twice counts twice, and of those
  whose record was written; a key visited that nobody else touched has the deadline of the request
  whether it was counted or not.
* `FindNewest`, for Find and for Query, each in its own order.

Bounds. `MaxTime` 2 lets an entry expire, be seen expired, and be given a later expiry (1 where
only "expired or not" matters, 0 in `two_keys`, which has no expiries). `MaxGen` 4 is the first
value at which the collector removes a snapshot: the third compaction does; 2 has a compaction
and a crash inside the next start. Four generations and a longer clock together are left to the
theorem `FallbackKept`. One key suffices where keys do not interact: they do in
`Del`, in a line of the log shared by two records, and through the snapshot a record of one
key triggers, which is what `two_keys` has. Values are told apart only as object and number,
which is what the type tests of the operations look at. In `expressions`, five pieces hold an
`a OR b AND c` with a `NOT` or a pair of parentheses, free or glued, as a condition is one piece; six
hold three options of VSEARCH. In `handlers`, three keys and blocks of two make a full shard and
a last one that is not, heaps of one and two are full with a candidate to come, and pages of one
shift when a key before them goes; two writes remove a key and bring one back; the expire names its
first key twice; the second key, which extends the first, is displayed before it in a Query. In
`records` two seconds tell an update from a creation and one key suffices, as no operation there
touches two. The threshold of the log is left to
chance (`over`), so compaction may follow any record. In `calls`, a pool of 1 is full with one
connection, and two attempts are a first one and one after a backoff. In `lifecycle` two
connections let Stop meet one in the hands of the accept goroutine and one with its handler.
Runs of Db and Records have no deadlock to find: they check it, the clock and the crash included;
in Daemon and Client the system really ends, a line ends, and one request is followed to its
answer (`CHECK_DEADLOCK FALSE`).

Fairness. Only Daemon and Client have liveness properties; the others assume none. In Daemon, goroutines that can run do
(`Calling`, `Accepting`, `Serving`): they are ready Go goroutines, and the operations of the
store a handler calls return. Nothing makes a peer send, read or hang up, and the read
timeout is not used: `StopEnds` holds because Stop closes the connections. In Client only
the steps of a call are fair: each exchange sets a deadline, so its timeout fires, and each
backoff is a timer. The daemon may be silent for ever.

## 4. Where the code and its documents part

Three runs find a property violated that a document of the repository states; `findings` in
`PROJECT.json` quotes each. `why` names the same behaviours and others a reader should know:

* `ttl`: SetField keeps the expiry in memory and logs none (`setField.go:58-75`); `putVector`
  does the same to a cache key that was given an expiry (`vcache.go:60-76`).
* `merged`: a torn last line is not truncated, the next record continues it (`aof.go:50-90`).
* `race`: Get removes a refreshed entry from memory (`get.go:24-31`).
* `late`: Expire, ExpireAt and Persist do not test the clock and bring back an entry that has
  expired but is still in the map; if a compaction has left it out of the snapshot, the
  record finds nothing at replay (`ttl.go:31-39`, `aof.go:130-138`).
* `swallowed`: Del ignores the error of its record (`del.go:20`).
* `unacked`: an operation that returns an error, or that a crash cut short, has changed
  memory and may or may not be on disk.

Others, seen in the models:

* A crash between the rename of a snapshot and the creation of the next log can leave a gap in
  the logs; a *fallback* replay ends there (`store.go:175-179`). Some keys the two generations
  restore differently even without a gap, and `fork` names them: memory was known to differ from
  the disk when the snapshot was taken; the expiry of a key that differs was changed, which
  one replay applies to an entry and the other to none; a record went to a log that a snapshot had
  superseded already; the record was lost with a torn tail.
* Two Starts that overlap between probe and listen both listen, the second on the path it took
  from the first (`socket.go:61-80`); `raced` excepts it. A second caller's Stop or Close returns
  at once while the first still waits (`daemon.go:179-182`); `HandlersBeforeClose` is checked with
  one caller per process.
* `handover`: Close gives up the socket before the store (`daemon.go:207`).
* A NaN or an infinity set into a field stays in the cache although the write fails
  (`setField.go:47-53`); GetField answers it until a restart. A whole number above 2^53 set into a
  field is an int64 in the cache and a float64 after a restart (`setField.go:53`, `:69`).
* Find and Query order by UpdatedAt, which a snapshot does not carry (`aof.go:170`), and which a
  record takes from a clock of its own (`aof.go:31`): after a restart an entry may be a second newer
  than before.
* Find and Query order the entries of one second differently: by key and by `key + ": " + value`
  (`query.go:37`), so that `user1` goes before `user` in a Query and after it in a Find, and a limit
  cuts another one.
* Expire has assigned the deadline when its record fails (`ttl.go:37-39`), and `handleExpire` does not
  count that key; it counts a key twice that is named twice (`handler.go:184-188`). `doc/doc.md:289` says
  "Returns keys that received the TTL".
* A word that ends in a dot is a key with the dot to SET and DEL and a key without it to GET,
  EXIST, TYPE and INCR (`exec.go:71`, `:176`, `:352`): `OneTarget` excepts it.
* An expression whose field or value is a keyword is read as the condition it looks like
  (`AND EQ 1` is one), in grammar and parser alike.

## 5. Proofs

| theorem | says |
|---|---|
| `DbTypeProofs!ThenReplays` | the effect kept for a log replays as its records do |
| `DbTypeProofs!LiveLater` | slots that look alike to a reader look alike ever after |
| `DbTypeProofs!TypeCorrect` | `Spec => []TypeOK` |
| `DbTypeProofs!UnreadableKept` | `Spec => UnreadableUntouched` |
| `DbDiskProofs!MemoryKept` | `Spec => []MemoryMatchesDisk` |
| `DbDiskProofs!OneLogKept` | `Spec => []OneLogAfterSnapshot` |
| `DbDiskProofs!RestartKept` | `Spec => RestartRestores` |
| `DbDiskProofs!FallbackKept` | `Spec => []FallbackComplete` |
| `PromiseProofs!PromiseKept` | `Spec => KeepsPromise` |
| `DaemonProofs!TypeCorrect` | `Spec => []TypeOK` |
| `DaemonProofs!Reachable` | `Spec => []ServerReachable` |
| `DaemonProofs!StopClean` | `Spec => StopLeavesNothing` |
| `DaemonProofs!HandlersEnd` | `Spec => []HandlersBeforeClose`, with one caller per process |
| `HandlersProofs!TypeCorrect` | `Spec => []TypeOK` |
| `HandlersProofs!EntriesKept` | `Spec => []EntriesAnswered` |
| `HandlersProofs!ExpireIsRight` | `Spec => []ExpireCounts` |
| `HandlersProofs!PagesAreRight` | `Spec => []PagesCover` |
| `HandlersProofs!SearchIsBest` | `Spec => []SearchBest` |
| `HandlersProofs!FindIsNewest` | `Spec => []FindNewest` |
| `RecordsProofs!TypeCorrect` | `Spec => []TypeOK` |
| `RecordsProofs!RestartAnswersSame` | `Spec => []RestartAnswers` |
| `RecordsProofs!VectorsFresh` | `Spec => []VectorFresh` |
| `RecordsProofs!TimesAreKept` | `Spec => []TimesKept` |
| `RecordsProofs!FieldsApart` | `Spec => []OtherFieldsKept` |
| `RecordsProofs!WalksSame` | `Spec => []WalksAgree` |
| `ClientProofs!TypeCorrect` | `Spec => []TypeOK` |
| `ClientProofs!AnswersOwn` | `Spec => []OwnAnswer` |
| `ClientProofs!NoneClosedByOthers` | `Spec => []NoForeignClose` |
| `ClientProofs!NothingLeaked` | `Spec => []NoneLeaked` |
| `ClientProofs!RepeatsNeedDrops` | `Spec => []RepeatedOnlyWhenDropped` |
| `CommandsProofs!AllTyped` | `Spec => []Typed`: a line is made of words or, of a key, of symbols |
| `CommandsProofs!FilterTheorem` | `Spec => []FiltersMeanGrammar` |
| `CommandsProofs!LimitTheorem` | `Spec => []LimitKeepsExpression` |
| `CommandsProofs!ComparisonTheorem` | `Spec => []ComparisonsAgree` |
| `CommandsProofs!SetTheorem` | `Spec => []SetWordsRead` |
| `CommandsProofs!SearchTheorem` | `Spec => []SearchWordsRead` |
| `CommandsProofs!TargetTheorem` | `Spec => []OneTarget` |

They hold for every value of the constants that satisfies the named assumptions of Entries, Db,
Daemon, Handlers, Documents, Records, Walks, Filters, Commands and Client: any keys and values, bounds, operations, and
faults; any processes, callers, connections and listeners; any requests and scores; documents of
any depth and paths of any length; lines of any length made of any pieces, any numbers and objects; any calls, pool size and number
of attempts. HandlersEnd assumes `OneCaller` (section 4 says why). The four of DbDiskProofs
assume `"read" \notin Faults`: a file
that was written can be read back; PromiseKept assumes besides that no record is torn. The assumptions that Nil, or a connection, is none of the things
it stands beside are about the encoding.

`MemoryMatchesDisk` is not inductive: it looks only at moments when no write is under way.
`DbInvariant!DiskInvariant` says what is true in between. `NumberInv` is the heart of it: the
newest snapshot is numbered one below the log in use, *or* has its number, after a compaction
that renamed its snapshot and could not open the next log; records written to that log are
superseded before they are written, and nothing is lost only because `logSize` still exceeds
the threshold (`due`), so that the operation that writes the next record also compacts.
`TornInv` says that only a torn log hides anything from a replay, `DiskInv` that files and map
agree, or will agree once the pending record is appended, and `LoadInv` what a load has read
so far. `TypeInv` and `UnreadableInv` play the same part for the first two theorems. Each
proof has a lemma per group of actions and combines them with PTL.

`FallbackComplete` compares two replays, and only when nothing is under way. `DbInvariant!FallbackInv`
follows them through an append and a compaction. `Previous(n)` is what a replay of the older
generation would give if a missing log did not end it. `ForkInv` says that it and the newest
replay show the same of every key that is not in `fork`, whatever the time; that nothing of such
a key is hidden behind a torn tail of the log they share; and that the two are equal, not only
alike to a reader, on a key whose expiry is about to be changed: memory, which agrees with one of
them, showed it alive. `PreviousInv` adds that the previous snapshot exists and, while the
compaction is on its way that a record has brought about, that memory agrees on the key of that
record with what the snapshot is about to stand for. The collector is harmless because it stops two
generations below the log in use.

In Daemon, `ServerReachable` speaks of a daemon that listens and says nothing of the moments
that could take its socket away. `DaemonProofs!OwnerInv` does: the listener a Stop is about to
unlink is the one at the path, so the unlinking inside `listener.Close` hits nobody else; the one
a Stop is about to shut no longer is; and a Start between probe and listen is alone, with
nobody at the path, so what it removes is stale. It is assumed only while `raced` is false.
`IndexInv` tells the listeners of a process from those of the others and from its next one,
`LockInv` that `d.mu` is held across steps by the Start under way, and `ConnInv`, which the
domains need, that a connection is with the accept goroutine until it is registered and then
with its handler.

`DaemonProofs!StopInv` says where a connection can be: it waits at an open listener, is with the
accept goroutine of its listener, or has a handler; and a Stop past the closing of its listener
never sees it open again. So when both waits of Stop are over nothing is left. `EndInv` adds
that, where the calls of a daemon do not overlap, a handler whose listener is no longer the
daemon's is one that a Stop is still waiting for; Close comes after that Stop.

`HandlersProofs!HandlersInv` follows a request. `History` ties what could be answered at every
moment, and at some moment, to what can be now. `Reading` puts each key that could be answered
throughout either into the list or among the keys still to read, which come after the list:
this is where reading the keys in their order matters. `Copied` is its part between the two sections
of a Get: a key that could be answered throughout is still held by the entry that was copied, and the
copy may be answered if it has not expired. `Expiring` adds to ExpireCounts that a visited key nobody
touched is absent or live, so that a sweep takes none that was counted; it speaks of the positions of
the list, as a key may stand at several (`Logged`, `Sure`, `There`).
`Searching` adds to SearchBest that the heap holds at most what was asked for and that nothing
is popped before every entry was offered. `Paging` says that a key nobody touched either could be
answered at every moment or at none, so that below the first touched key every page sorts the
same keys; an unmoved key then has the place on its page that it has among the keys that were
there throughout (lemma `UnmovedPosition`), and its page has been taken or has not. `Finding`
says that each entry that matches has been found or lies in a shard not yet scanned: lemma
`ShardsCover`, by the quotient of its place and the block, is where cutting the keys must not
lose the last, shorter part. Keys come to a page and entries to an answer as *some* sequence of
all of them that is in order; that there is one is left to the runs.

`KeepsPromise` needs `DiskInvariant` where a process starts: what the load has read is what the
stopped process showed, for every key that is owed. Every other step of Db is one of the steps
of KvPromise or none: `PromiseProofs` has a lemma for each group of actions.

The properties of Client say nothing of the moments in which they could be lost, so one
invariant, `ClientProofs!ClientInv`, carries them all. `OneOwner` and `Kept` say who has a
connection: one call, or one place of the pool, and somebody. `CloseInv` says that a connection
whose context function has started, or has run, is still held by the call of that context, which
is why `put` asks `stop()`. `WireInv` says that nothing is left on a connection in the pool, and
that on one that is held there is the request or the answer of its holder: this is where closing
a connection after a timeout is needed. `RunInv` says that a request is on one connection at a
time and has been executed at most as often as connections dropped under its call, once more
while it is being answered.

In Records, `RecordsProofs!IInv` says of each key how its entry in memory and what a replay would
make of it agree (`Agree`): there is none in either, or the texts are the same, the cache on disk
is what that text parses to, and the one in memory becomes that one when it is rounded
(`SameDocument`); the history decides what holds of vector and time. `Precise` adds that the
cache in memory is the one on disk where `imprecise` does not name the key: deleting a member, setting
a text that parses to itself and adding to a number keep it so, whether the key was there or not. That a restart may follow
at any point rests on lemma `ParsedTree`: parsing what was parsed changes nothing more. Lemma
`PlacesWritten` says what a field write leaves at which place, from which `WrittenTree` has that
the result is a document again, where nothing hangs beneath a scalar, and `OthersAsBefore` that
the other paths lead where they did; both rest on facts about prefixes of paths.

`WalksAgree` is about two definitions, one of which is recursive. Lemma `NameFirst` takes a path
apart into its first name and the rest, `MemberPlaces` says which places of a tree lie beneath a
name, and `SamePlaces` that two trees with the same places beneath the same names are one. With
them, to write at `<<f>> \o r` is to write at `r` in the member `f` and put that in its place
(`WrittenBelow`; `WrittenHere` where `r` is empty), and the one is possible exactly when `f` can be
entered and the other is possible (`CanSetNamed`). `OneStep` joins these, and `MadeIs` goes up the
path with it from the last name to the first. That the recursive functions of the definition exist
is shown by naming a function that satisfies each equation: where the path leads, or an empty object
(`ReachedNext`), and what the definition at once makes of it (`MadeStep`).

In Commands a state is a line, and every property is one of all lines, so the invariant behind
them is only `Typed`; what has to be proved is what recursive definitions compute. The induction
theorems of the library take a formula as a parameter and cannot be used; `StrongInduction` speaks
of the *set* of the numbers for which a formula holds, and comes from the order of Nat being
well-founded. Lemma `Recursion` says that a recursive definition in which every value depends on
those of lower rank has a solution, which gives the equations of `Parse` (a call goes forward in the
words, except that Or begins with And and And with Not), `Grammar` (a stretch means what shorter
ones mean, or OR what AND and AND what NOT) and `ParseVSearchArgs`.

* `FiltersMeanGrammar` (lemmas `Agree` and `ReturnsOnce`): a method returns, with the position
  behind it, every meaning of the words it has read, provided that And does not stop before an
  AND nor Or before an AND or an OR; and it returns once. The proof is by the length of
  the stretch. A stretch from the first word to the last satisfies the proviso.
* `LimitKeepsExpression` (`GrammarEnds`): what the grammar gives a meaning ends with `)` or with
  an operator and its value; LIMIT is no operator and a number no parenthesis.
* `SetWordsRead` (`MostPeeled`): any reading of the words takes from the end at most what
  parseSetArgs takes, since no number is a keyword.
* `SearchWordsRead` (`PeelOption`, `VSearchReads`): after `h` turns of the loop the last `h` options
  are read and the newest of each kind is the one furthest left; the loop stands still at the first
  pair that is no option.
* `OneTarget` (`SplitKeyIs`, `NamesAfterDot`): the cut is at the first dot, and there are names
  behind it exactly when some symbol behind it is not a dot.

Every safety property that a passing run checks has its theorem. Only model-checked: liveness
(`StopEnds`, `CallsReturn`), which the prover does not reach (nor ENABLED).

## 6. Not modelled, and why

* Spellings of an array index other than `0`, `1`, `2`, …: `strconv.Atoi` takes `01` and `+1` too.
* Writes after `Close`, which reopen the log, and the window between Set and `wg.Add` in
  SetVector.
* The order in which the disk makes directory entries durable.
* `net.Listen` is one step; between its bind and listen another process could also take the
  path.
* Paging with a page number whose product with the limit exceeds an int (`handler.go:206`): the
  handler would slice out of range. Pages are small here.
* Answers above the 8 MiB of a frame, `encodeContent` and `decodeContent`, and the handlers that
  pass one call of the store on (get, set, del, ttl, embedder).
* The text of numbers (`Vtoa`, exponents, decimals), quoting inside JSON text, letter case, and which
  keys a glob matches: data the properties do not tell apart. `cosine` and the packing of
  vectors are arithmetic on floats.
* Set keeps the pointer its caller passes as an expiry (`set.go:110`): a caller that changes the
  value later changes the entry. Nothing in the repository does.
* The embedding service is its two outcomes; the terminal loop keeps nothing.
