# CodeSchema in TLA+

CodeSchema (Go) indexes source repositories for AI agents. A scanner and a file
watcher hand changed files to parser adapters; the documents they return go into
a store; an index builder copies the store into search indexes; an HTTP and an
MCP server answer queries from both. One process can serve several tenants, each
with a store, a watcher and a service of its own.

This directory models the parts of that program in which order, failure and
concurrency decide whether the answers are right, and the rules by which it
computes its answers. TLC checks the models on small instances. TLAPS proves the
invariants, the action properties and all four refinements that the runs check, for
every instance; liveness, and the batches of the PostgreSQL store, are left to TLC
(section 5). `PROJECT.json` lists
components, runs, hazards, theorems, and, for every definition, the lines of the
source it stands for.

## 1. The system

### Parts, their state and their operations

| Component | State | Operations | Modelled in |
|---|---|---|---|
| File store, `internal/store/filestore.go` | in-memory tables of files, classes, methods, calls, tags; one identifier counter; one RWMutex; one JSON file | `UpsertIR` (mutex taken once per table), `BulkUpsert` (mutex kept), `UpsertFile`, `MarkParseSkipped`, `DeleteFile`, `UpsertTags`, `UpsertMethodTags`; `Open`, `Close` | `FileStore` over `CodeStore`; sessions in `StoreSessions` |
| Directory lock, `internal/lock` | flock, or a file on Windows | `Acquire`, `Release` | `StoreSessions` |
| SQLite store, `internal/store/sqlite` | tables in a database file, AUTOINCREMENT counters | the same interface; `UpsertIR` commits table by table, `BulkUpsert` in one transaction | `SqliteStore` over `DurableStore` |
| PostgreSQL store, `internal/store/pg` | tables of a server, cascading foreign keys | the same interface; every operation one transaction or statement | `PgStore`, `PgBatch` |
| Redis layer, `store/redis`, `rebuild-kv` | keys of a cache | `populate` after each write, `Flush` and restore | `RedisLayer` |
| Event scheduler, `internal/scheduler` | map of event times and slice of keys | `Enqueue`, `Ready`, `Start`, the degrade signal | `Scheduler` over `PendingEvents` |
| Scanner, `internal/scanner` | none of its own | `ScanAll` with a pool of workers, `ProcessFile` | `WatchPipeline`, `StoreSessions` |
| File watchers, `internal/fswatch`, `internal/watcher` | modification time by path | `Start`, `buildInitialState`, `poll` | `WatchPipeline` |
| Search index, `search/builder.go`, `retrieval/persistent.go`, `embedding` | full text table, vectors and contents, a counter of changes each, word counts, three files | `BuildFromStore`, `BuildAndIndex`, `BuildAndRemove`, `save`, `load`, `SaveIDF` | `SearchIndex` |
| Impact queries, `internal/analyzer`, `internal/service` | none: every query reads the store again | `GetImpact`, `FindDependencies`, `GetCallGraph`, `GetAffected`, `ShortestPath` | `ImpactQuery`, `CallGraphs` |
| Other queries, `internal/service` | a cache by key and epoch | contexts, tags, tests, configuration, search; `InvalidateQueryCache` | `ServiceQueries`, `TestLinks`, `QueryCache` |
| Imports and project graphs, `internal/analyzer` | none | import index, resolvers, file graph, class hierarchy, `Analyze` | `ImportGraphs` |
| Tagging, `internal/ai` | budget counters | rules of the tagger, `EnhanceTag`, `enhanceTagsWithAI` | `Tagging`; writing of tags in `FileStore` |
| HTTP server, `internal/server/http.go` | server, listener, address, running configuration, token bucket | `Start`, `Stop`, `UpdateRuntime`, middleware, handlers | `HttpServer`, `TokenBucket`, `ServerRequests` |
| MCP server, `internal/server/mcp*.go` | none that handlers change | tools by POST or standard input | `ServerRequests` |
| Tenant manager, `internal/tenant` | table of instances, their order, the default identifier | `NewManager`, `Apply`, `Close`, lookups | `TenantManager` over `TenantRouting` |
| Configuration, `internal/config` | the loaded file | `Load`, presets, `LoadFromEnv`, `cloneConfig`, `ToConfig`, `Merge`, `Validate` | `Configuration`; `tenantDirty` in `TenantManager` |
| LSP client, `internal/parser/adapter/lsp` | mutex, message counter, map of pending requests, a language server process behind two pipes | `Parse`, `sendRequest`, `sendNotification`, `readResponses`, `Close` | `LspClient` |
| Model download, `internal/vector/model_download.go` | a part file, a model directory | `Ensure`: ranges, checksum, extraction | `ModelDownload` |
| Commands and runtime, `cmd/codeschema`, `internal/runtime` | none | the order of open, scan, watch, serve and stop | in the modules above |
| Other parsers, retrieval scores, native inference, benchmarks, SDK, vendored code | - | - | not modelled (section 6) |

### How they interact

    disk -> PollWatcher -> scheduler -> ProcessFile -> adapter -> store.UpsertIR -> BuildAndIndex
                              ScanAll -> ProcessFile (many workers)        |-> populate (Redis)
    request -> limiter, token -> route or tool -> service -> cache, store, graphs, index
    config file -> UpdateRuntime, tenant.Apply -> instances

`ScanAll` ends before the watcher starts; the scheduler handles one path at a
time. The store is shared by the workers of a scan, the watcher's handler, the
tagger and all queries. The adapter of a language is shared by all workers. The
manager's table is shared by every request and the goroutine that polls the
configuration, which also calls `UpdateRuntime` of the HTTP server.

### What is hard

- *Interleavings.* `FileStore.UpsertIR` and the taggers release the mutex
  between tables; `ProcessFile` looks at the disk four times; a query reads its
  graph two or three times; `Apply` builds and closes stores without the mutex;
  `Start` and `UpdateRuntime` share fields without one; `rebuild-kv` runs beside
  a writer.
- *Crashes.* `SQLiteStore.UpsertIR` is a sequence of commits. The file store
  persists on `Close`, the index files once in ten changes and in place.
- *Failure in the middle.* One statement of an upsert, one read, parse or write of
  a file on its way from disk to index, one save, one tenant of a reload, one read
  of a query, one put of many, one request to a language server, one block of a
  download.
- *Time.* Debouncing, timeouts whose answer still arrives, retries, a bucket
  that fills.
- *Waiting.* Pipes to a process that may not read, a scheduler that waits for
  silence on a key, directories locked by the instance that is to be replaced.
- *Bounds and rules.* Depth limits on cyclic graphs, suffix matches of names,
  identifier counters, thresholds, budgets, lines of files that shrink, settings
  that pass through six hand-written lists of fields.

What makes each component right: a store shows whole documents and never
attaches old rows or tags to new symbols; a scheduler loses no event, and a
watcher loses a change only where its handling failed; an index shows what a file
has now; a query lists what is reachable
within its limit, at its distance; a cached answer is not older than the last
invalidation; a lookup finds an open tenant of before or after a reload; a
request written as both protocols read it is answered alike over each, and from
its own tenant; a parse
returns and never returns the symbols of another file.

## 2. How the modules compose

- `Sublists` has what the modules need of sequences: what a sequence is (`IsList`)
  and the operator that cuts one in two (`Kept`); `IRDocuments` is shared by the stores. `CodeStore` and `DurableStore` are
  abstract stores; `FileStore` and `SqliteStore` are shown to implement them.
- `WatchPipeline` composes scanner, watcher, store and index, and takes of the
  scheduler what `PendingEvents` promises; `Scheduler` implements `PendingEvents`.
- `ImpactQuery` uses `CallGraphs`; `TenantManager` implements `TenantRouting`.
- `HttpServer` extends `TokenBucket`. `ServerRequests` extends `ServiceQueries`,
  which extends `TestLinks` and `StoredSymbols`: a request over either protocol
  runs down to the rows it reads. `Rules` puts it beside `ImportGraphs`, `Tagging`
  and `Configuration`: a state is one rule with one input. `MCRequests` gives small
  requests.
- `PgBatch` extends `PgStore` with `BulkUpsert`, which runs beside its transactions.
- Five modules put components that share no state into one state space, in which a
  behaviour is one of one of them (`which`) and the others rest: `MCStores`
  (`FileStore`, `TenantManager`), `MCQueries` (`SqliteStore`, `ImpactQuery`),
  `MCEvents` (`Scheduler`, `LspClient`), `MCIndex` (`SearchIndex`, `Rules`) and
  `MCSupport` (`PgBatch`, `RedisLayer`, `QueryCache`, `StoreSessions` and an
  instance of `ModelDownload`). They also hold the small inputs, `MCWatchPipeline`
  those of the watchers.
- `...Proofs` modules hold theorems.

## 3. The modules and the code

### IRDocuments, CodeStore, DurableStore

`IRDocuments` reduces `parser.IRDocument` to path, hash, and sets of classes,
methods, calls and imports. Methods whose class is not in the document are
dropped by every store (`ClassMethods`).

`CodeStore` is the promise of the `Store` interface by path: absent, updating
(between the first and the last table of an `UpsertIR`), or the content of the
last documents. `DurableStore` adds *torn*: the last `UpsertIR` of the path did
not reach its end. Only `UpsertIR` in full, or a batch document that has both
classes and calls, mends a torn path.

### FileStore

Variables are the maps and slices of the Go struct as sets of rows, `nextID`,
and what goroutines hold: `up[w]` (an `UpsertIR` between two critical sections),
`bulk` (the rest of the batch whose owner keeps the mutex), `held[t]`
(identifiers a tagger has read). Actions are the critical sections:
`UpsertFile`, `UpsertClasses`, `LookupClasses`, `UpsertMethods` (per group, in
any order, as the map iteration), `UpsertCalls`, `SaveImports`;
`BeginBulkUpsert`, `BulkUpsertNext`; `RecordFile` (`UpsertFile` on its own and
`MarkParseSkipped`), `DeleteFile`; `ReadClasses`, `ReadMethods`, `UpsertTags`,
`UpsertMethodTags`. No two workers hold the same path (`Busy`): a scan lists a
file once and the watcher starts after it.

Two peculiarities of the code are kept. `UpsertClasses` leaves method and tag
rows of the classes it replaces, and `DeleteFile` looks method tags up under the
identifiers of *classes* (filestore.go:218), so tags of deleted methods stay.
`TagsStay` is why this is harmless. And a batch keeps the calls and
imports of the previous version when a document has none (filestore.go:741),
although the comment at filestore.go:693 says "语义同逐文件 UpsertIR", the same
meaning as `UpsertIR` file by file. `CodeStore.BulkUpsert` states what the code
does, so `ImplementsCodeStore` does not speak for the comment; the comment is
`BatchesLikeUpsertIR`, which the run `stores_batch` refutes.

### Scheduler, PendingEvents

`queue[k]` is the time since the last event on `k`, cut off at `Window`; `order`
is the slice the code keeps beside the map. `Poll` takes the due keys (`Ready`
cuts the slice in two), `HandleKey` and `Finish` run `processFn` one key at a time; `SafeCall` makes a panic a
return. A cancelled context lets a last `Poll` through, as `select` does.
`PendingEvents` is the promise: an event is followed by a handling that starts
after it; only a shutdown loses events.

### WatchPipeline

`disk` is changed by `Write` and `Delete` at any time. `phase` is "scan" while
`ScanAll` runs (`Dispatch` gives any listed path to a worker, so all listed
paths may be in hand at once), then "watch". `InitialVisit` and `Visit` are the
poll, `Handle` is the scheduler (through `PendingEvents`), and `job[p]` is where
`ProcessFile` is: `StatFile` (size limit), `HashFile` (missing file, hash gate),
`CountLines` (line limit, no adapter), `Parse`, `Upsert`, `Index`, `Return`. A
content stands for its hash and its document, so `store[p]` is a pair of
contents: hash from one, symbols from another. `base` is a history variable: the
state of the disk when the watcher first looked; nothing promises that changes
before it are seen.

Every step may fail, any number of times: hashing and parsing of a file that is
there (`HashFile`, `Parse`), the store when it looks up a hash (then the file is
taken for a new one), marks a file as skipped (then only logged), records a file
without adapter (`CountLines`) or writes a document (`Upsert`), `BuildAndIndex`
(`Index`, then only logged), and the reads of `BuildFromStore` (`StartWatch`). A
failing `UpsertIR` may leave the store as it was, the new hash over the old symbols,
or a part of the new ones (`HalfStored`): which of them a store can leave is the
matter of `SqliteStore` and `FileStore`. `ProcessFile` returns its error to a log and
nobody handles the file again; CHANGELOG.internal.md:1709 says that the retries are
not integrated there ("重试机制暂未集成到现有 Store/Watcher 等 I/O 操作中"). So a change *is*
lost when its handling fails, and the properties say how far that goes. Two history
variables mark it: `failed` has the files whose content as it is was handled last
without success, `torn` those whose symbols a failing write left behind their hash,
which the hash gate keeps from then on. `NoChangeLost` and the hash in
`ChangesCatchUp` except `failed` only, which the next change or handling of the file
clears; symbols and index except `torn` as well.

The handler of missing files is kept as it is: `hash.File` wraps the error of
`os.Open`, `os.IsNotExist` does not unwrap, the branch is never taken
(run `watch_delete`).

A content that comes back breaks the symbols for good: A is hashed, B is
parsed, A comes back; the gate then skips the file with the symbols of B.
`ChangesCatchUp` therefore promises symbols only for files in which nothing has
come back (`past` in `MCWatchPipeline`), and the stored hash for all.

### CallGraphs, ImpactQuery

`CallGraphs` has the graph, `AddEdge`, `Resolve` (longest suffix that is a node,
else any node that ends in the name, since the code ranges over a map) and the
reference definitions `Within` and `IsDistance`. `ImpactQuery` is one query from
its first read to its answer: `ReadFile`, `AddCall`, `Built` are
`BuildCallGraph`; `KeepGraph`, `Locate`, `Find` are the two or three graphs each
query builds; `Dequeue`, `LookAt`, `LookedAtAll`, `EndBreadth` are
`GetCallersWithDepth` and its twin; `Descend`, `Return`, `EndDepth` are
`collectCallers` and `collectCallees`; `Expand` to `AtStart` are `ShortestPath`
and `reconstructPath`. `Rescan` replaces the calls of a file and `ReadFails`
lets a read fail between any two steps.

What the run does not claim, because the code does not do it: `GetImpact` may
list a method at two depths (graph.go:112 marks on dequeue; `AnswersExact`
speaks of its first place); `GetCallGraph` may miss methods within its depth
(section 4); with a store that changes meanwhile `GetImpact` reports the name
found in one graph and walks another (service.go:951, 958); `GetAffected` drops
read errors and answers for the symbol alone (service.go:1723).

### SqliteStore

`db` is what is committed, `up` the `UpsertIR` under way, `tx` the open
transaction of a batch. The actions are the commits. `Interrupt` and `Rollback`
are a failing statement *and* a killed process: both leave exactly what is
committed, since a power loss too loses only a suffix of commits. `db.torn` is a
history variable that the refinement needs; the code has no such mark. As in the
code, classes are replaced without their methods, AUTOINCREMENT numbers are not
used again, and a batch deletes methods after it has replaced the classes they
hung on (sqlite.go:926), so it deletes none of the old ones. A batch document
without methods, calls or imports keeps those that are shown, although
sqlite.go:848 says "语义同逐文件 UpsertIR": `DurableStore.BulkContent` states what the
code does, the comment is `BatchesLikeUpsertIR`, which `sqlite_batch` refutes.

### TenantManager, TenantRouting

`tenants`, `order`, `defaultID` are the table; `open` the instances whose store
is open; `apply` the running `Apply`: targets, the copy `cur` of the table, the
instances built (`upsert`) and those to close (`release`). `ApplyBegin`,
`ApplyKeep`, `ApplyBuild`, `ApplyBuildFails`, `ApplyCommit`, `ApplyRelease`,
`ApplyReturn` are its steps, and `Close` may come between any two. A directory
of the file driver can be open once (`Exclusive`). `resolveTargets` has the
order of fallbacks of `ToConfig`: the tenant's DSN, the base DSN, `./data/<id>`.
With the default configuration the base DSN is `./data`, so tenants without a
DSN all get that one and the last fallback is not reached (tenant.go:127).
`IdsDistinct` is an assumption because nothing calls `config.Validate`.

### LspClient

`caller[w]` is where a worker is in `Parse`: `didOpen`, then up to
`retryAttempts` requests, then `didClose`. `sendRequest` is the first critical
section, `Write`, `WriteBlocks` and `WriteFails` the write under `a.mu` (`mu` is
the worker whose write is blocked on a full pipe), `Receive`, `Expire`, `Forget`
the `select`. `ReadFrame`, `Dispatch`, `EndOfFile` are `readResponses`. The
server is outside the program: it reads, answers in any order, late or never,
writes notifications, and dies. `Close` has no caller but tests; it is modelled
because `IsAlive` and the pipes depend on it.

Left out: Init's handshake; that a `DocumentSymbol[]` answer is read as
`SymbolInformation[]`, which always succeeds and drops nested children
(adapter.go:402); requests of the server, which would carry identifiers taken
for answers (adapter.go:831), as Init offers no capability that would cause
one; a new start of a server that died, which the code does not attempt.

### SearchIndex

`store` is what the store holds of each path, `engine` the two engines with
their documents, counter of changes and whether they have a file, `file` what is
on disk (`Torn` if it does not parse), `idf` the word counts. `task` is the pass
in progress: `BuildFromStore` takes all documents at once, `BuildAndIndex` and
`BuildAndRemove` one after the other; `WriteFts`, `WriteVec`, `WriteContent` and
the `MaybeSave` after each are steps, and a failed save ends the pass. `Kill`
may come at any step and within a save. `kept` is the store a new process finds;
its counter of identifiers goes back with it. `gaps` is a history variable: paths
whose last pass did not end. The commands never save the engines when they stop,
and `BuildFromStore` always runs at the start, although a comment in main.go
says it is left out when an index was loaded. `maybeSave` writes once `Threshold`
changes have gathered, ten in the code, where the comments of both engines
(retrieval/persistent.go:17, embedding/persistent.go:18) say that every change is
saved; `LagBounded` is what the code keeps, the comments are `SavedAtOnce`, which
`index_saves` refutes. The module is one engine over one file. `serve` opens two,
one for the queries (runtime.go:339) and one for its watcher (runtime.go:383);
each writes the file whole and reads it at the start only, so what `LagBounded` says of
file and memory holds for the one that saved last.

### StoredSymbols, TestLinks, ServiceQueries, ServerRequests, MCRequests

Functions, not machines: a store is a sequence of files with classes and methods,
a query maps it to an answer or an error code, a handler maps a request to one
call of the service and its result to a status. A full name is a sequence of
segments. `LocateSymbol` prefers the cache reader (the Redis layer) to a scan;
`GetContext` cuts lines of a file that may have shrunk or gone (`disk`); what the
trimming library does is external (`Window`), and undefined for an empty file,
where the code passes the block of lines 1 to 0. `Disambiguated` leaves the
model's choice open (`Verdicts`). `Http`, `Tool` and `Stdio` include what the
middleware and the dispatchers answer by themselves. An argument is kept as it is
written (a whole number, one with a fraction, text that begins with a number, a
word; quoted or not), and each server reads it in its own way: `Atoi` takes whole
numerals and nothing else (http.go:704), `ToInt` drops a fraction and takes the numeral a
string begins with (`Sscanf`, mcp.go:690); a query parameter is always text, a tool's
`mode` must be a JSON string and its `recursive` a JSON boolean (mcp.go:479), where
the route also takes `1` (http.go:508). So the two answer alike only what both read alike
(`WrittenAsMeant`); numerals wider than an `int`, and the options that are
fractions, which both read alike, are left out. A request for an unknown
tenant panics in a handler and is answered 500, over MCP it is an error -32603.
`FindTestLinks` sorts by confidence only; the order among links of one confidence
depends on how the strategies meet them and is left open (`SetToSeq`).

### QueryCache

A query on its way through `GetContextMode` (`Ask`, `Lookup`, `Compute`, `Put`)
against `InvalidateQueryCache` (`RaiseEpoch`, then `ClearCache`). In `serve` the
watcher invalidates the cache of a `Service` of its own (runtime.go:402), so the
module speaks of one service; the cache the requests use there only expires.

### ImportGraphs, Tagging, Configuration, Rules

The rules of the code over abstract names. `Keys`, `FirstFound`, `Below` are the
import index and its lookups; each resolver gives the set of files it may
return, since the code ranges over maps where several fit. `Tagging` sees a
symbol as the words the rules look for; replies of the model are arbitrary. A
documentation that tells nothing is not written (`EnhanceDoc`, analyzer.go:177).
`Configuration` has one entry per setting; `Load`, `ApplyPreset`, `LoadFromEnv`,
`Clone`, `ToConfig`, `Merge`, `Validate` are functions on them. `NotCloned` are
the five settings `cloneConfig` forgets. Segments of a path hold no dots, so an
import in the style of a path never ends in `.*`.

`Rules` says in `Fits` what the program gives each of these functions: symbols
and blocks that begin before they end, lists that are lists, a configuration
with all of its fields, files that exist or are gone. `Inputs` is any set of such inputs;
`MCIndex` picks small ones, and TLC evaluates `Fits` on all of them.

### HttpServer, TokenBucket

`act["start"]` and `act["update"]` are the two callers of `rebind` (`Listen`,
`Swap`, `CloseOld`); `conn[i]` is a listener with its address and its `serve`
goroutine (`Serve`, `ServeReturns`, `CheckCurrent`, `SendError`). `StoreRuntime`
and `Compare` are `UpdateRuntime`; a generation stands for a stored
configuration, its token and bucket. A request loads the limiter in force
(`LoadLimiter`), asks it for a token (`RateLimit`), maybe after a reload has replaced
it, and passes `Authenticate`, which loads the configuration anew; `buckets` keeps the
limiter of each generation. When `errCh` wins the `select` of `Start` (http.go:320) no
`Shutdown` runs: a listener that a reload has bound meanwhile is then served on, and
`StopsWhenCancelled` allows one in this case. `raced` notes that an
update read the address while `Start` was binding: nothing orders the two, and
then the address noted may not be the one listened on. `TokenBucket` counts in
parts of a token, so that the code's fractions are whole numbers.

### PgStore, PgBatch, RedisLayer, ModelDownload, StoreSessions

`PgStore`: `work[w]` is a transaction of a worker, with the rows it deleted and
added, which others see after `Commit`; `lock` is the row lock of the file that
`Begin` takes. `PgBatch` adds `BulkUpsert`, statement by statement: it deletes the
methods, classes and calls of a path (`Delete`, pg.go:978) *before* it writes the
file's row and so waits for the lock (`WriteFile`, pg.go:988). A DELETE picks the rows
committed when it begins, waits for a transaction that has deleted one of them,
and leaves what that transaction has inserted. Beside an `UpsertIR` or another batch
of the path the rows of both may stay; `beside` notes such paths, `PgRowsWhole`
excepts them where it speaks of layers and hash, and the comment that the batch
replaces the whole file (pg.go:977) is `BatchReplacesFile`, which `pg_batch` refutes.
Deadlocks of two batches end in a rollback, which may come at any step
(`RollbackBatch`). Nothing in
the commands calls `BulkUpsert`, `DeleteFile` or `InitSchema` of this store; the first
two are modelled as the interface offers them.

`RedisLayer`: `todo[w]` holds the documents a writer is still to store
(`StoreBase`), then to show in Redis one by one (`ShowNext`), and the puts of the
one it shows; puts of one kind are made in any order, since a set has none.
`rebuild` is `rebuild-kv` in another process. `RedisForgets` is a Redis that
restarts empty. Two files may have a class of one name: Redis keeps the last that
was put, so "knows" is said of the key (`Known`).

`ModelDownload`: `part` is the part file as a sequence of blocks, each of which
knows its archive; `served` the archive the server has now.

`StoreSessions`: a process opens (`Acquire`, `Loaded`), scans, watches, is
cancelled or killed (`Exit`), saves and closes. `job` goes on after `Cancel`, as
the goroutines do, and `Close` reads the table while they write. `saved` may be
damaged; `Open` then starts from nothing.


## 4. The runs

| Run | Shows | Distinct states |
|---|---|---|
| `stores` | file store: identifiers unique and behind the counter, no `UpsertIR` disturbed, tags stay with their symbols, refinement of `CodeStore`; tenants: lookups find open instances, nothing is forgotten or left open, refinement of `TenantRouting` | 211,719 |
| `stores_batch` | **divergence**: a batch keeps old calls and imports (filestore.go:741) | - |
| `watch` | no change lost but by a failure of its own handling; hash, symbols and index catch up | 1,738,777 |
| `watch_delete` | **divergence**: the symbols of a deleted file stay (scanner.go:102) | - |
| `queries` | SQLite: rows of different versions never pass for one, refinement of `DurableStore`; graphs, lists, depths, paths and names of the queries on calls | 1,028,778 |
| `sqlite_batch` | **divergence**: a batch keeps old methods, calls and imports (sqlite.go:926) | - |
| `events` | scheduler: map and slice agree, every event is answered by a later handling and no busy key starves a quiet one, refinement of `PendingEvents`; LSP: own answers, clean tables and documents, every `Parse` returns | 304,882 |
| `index` | what was indexed is found under its own text, files lag by no more than the counted changes, word weights stay sound over restarts; and the functions of the program over small inputs: test links, queries, requests of both protocols, imports, tags, settings | 1,917,605 |
| `index_saves` | **divergence**: a change is not saved at once (retrieval/persistent.go:174) | - |
| `serve` | the listener open is the one noted, no limiter lets more requests pass than rate and burst allow, none enters by an older token, a cancelled server stops | 794,018 |
| `support` | PostgreSQL transactions and batches, the query cache, Redis beside `rebuild-kv`, the download of the model, sessions of the file store | 2,559,712 |
| `pg_batch` | **divergence**: a batch beside an `UpsertIR` of the path does not replace its rows (pg.go:978) | - |

Every property of a passing run has a mutant in `PROJECT.json`: a plausible bug
in one definition under which that run finds the property violated. The mutated
forms stand in the modules beside the originals.

In the part of `index` that is `Rules` a state is one input and the step looks at it;
its invariants are implications, one for each rule. The two paths of `SearchIndex`
are alike, so `index` has them as a symmetry set (`AnyOrder`); it checks invariants
only.

### What documents say and the code does not do

The five runs marked as divergences each refute what a comment in the code says;
the findings in `PROJECT.json` quote the lines. Four more are stated as
formulas beside the modules; TLC refutes each when it is put into the
configuration named, and no passing run depends on them:

- `SubgraphComplete`, an invariant (`MCQueries.cfg`, `Cases <- GraphCases`):
  service.go:1394 says that `GetCallGraph` collects breadth first; graph.go:157
  goes depth first with one set of visited methods, so that a method met on a long
  way is not expanded on a short one, and some within the depth are missing.
- `SessionsConsistent`, an invariant (`MCQueries.cfg`): README.md:53 promises
  relations that are consistent across sessions. `UpsertIR` stores the new hash first
  (sqlite.go:362): cut short, it leaves the new hash with old rows, and the hash
  gate skips the file from then on.
- `ChangedRebuilt`, an invariant (`MCStores.cfg`, `Bases <- Limits`,
  `MayFail = FALSE`): the comment at tenant.go:287 says a changed tenant is rebuilt.
  `Apply` builds before it releases (tenant.go:317), so that the lock of the old
  store stops the build when the directory stays the same.
- `ParseReturns`, a temporal property, with `Sequential = TRUE` (`MCEvents.cfg`):
  fallback.go:13 describes a fall back when the language server fails. A server that
  reads on only after its answers are written stops itself and the client, which
  writes under its mutex (lsp/adapter.go:714) while its reader waits for it.

### Bounds, and why they are enough

- `stores`, files: two workers, a tagger, two paths, three documents (one without
  calls or imports, one whose class disappears, a file-level function), two
  batches, `MaxID` = 6. Six identifiers are two versions of a file, so numbers
  of replaced rows exist while new ones are handed out. The constraint
  `TagsOnFewRows` cuts states in which both workers index *and* tags exist;
  single-worker states with tags and all tagless states stay. The proofs have
  no such cut.
- `events`, queue: three keys suffice for a busy key, a taken one and a waiting one;
  window 2 distinguishes refreshed from due, threshold 2 raises the signal.
- `watch`: two paths (one without adapter), four contents (two ordinary, one over
  both limits, one unparsable), two changes of the disk at any moment, failures
  without bound. Losing a change needs one change before and one during its
  handling.
- `queries`, call graph: every ordered choice of up to six calls from two graphs with cycles,
  diamonds and chains, under eight queries; and eight names with common suffixes
  in two files with two disturbances. Limits up to 3 and the recursive limit 10
  over at most eight methods.
- `queries`, SQLite: three versions of one path and one of another, three batches,
  `MaxID` = 5 counted over both counters: a version, its successor and an
  interruption of either.
- `stores`, tenants: five configurations (change of field, directory, order, an empty
  DSN, no tenants) over three identifiers, `MaxBuilt` = 6: a start and two
  reloads, or more that keep tenants.
- `events`, LSP: two workers, two paths, two tries each, pipes of one message,
  `MaxMsgID` = 4: both workers in their last try while answers to the first are
  late.
- `index`, engines: two paths, two texts, two identifiers for each process, two passes
  and two processes one after the other, one fault (a kill or a failed save).
  `Threshold` = 2 stands for the ten changes between saves: one change not yet
  saved, then the one that saves.
- `serve`: two addresses, two requests, two updates, one listener that breaks,
  `Rpm` = 1 with a minute of two ticks, `MaxTime` = 2: bucket empty, half full,
  full. Two updates are what it takes for a replaced listener to be replaced
  again while its goroutine has not returned. Once a request
  has come the address is not changed any more (`StoreRuntime`): addresses and
  admission share no state but the generation.
- `index`, rules: the inputs are listed in `MCRequests` and `MCIndex`: three files with
  classes, tests and methods of equal names in several orders, files of up to
  four lines, frames up to three, `Many` = 3 and `Few` = 2 for the 20 and 10
  links of `FindTestLinks`, every setting alone and pairs of those that a preset
  or another source may override.
- `support`: two workers on one file with three documents, two batches, one of which
  has the file twice, and three transactions; one Redis writer with two files that share the name of a class,
  two writes, one of them a batch, and a rebuild; an archive of three blocks in
  two versions; two queries and three changes; two processes with two paths, one
  change of the disk and two sessions.

Deadlock checking is off: in every run some component may stop, because bounds
are used up or all is quiet. That nobody waits for ever is what `KeysServed`,
`ParseReturns`, `InstancesReplaced` and `StopsWhenCancelled` say.

### Fairness, and why the code justifies it

- `Scheduler`: time passes, the ticker fires, `processFn` returns (it runs under
  `SafeCall`). Nothing forces events or the taking of the signal.
- `WatchPipeline`: the walk repeats (weak fairness of each visit), steps of
  `ProcessFile` return, with or without success, and `Handle(p)` is strongly fair because other paths may
  be handled in between; `Scheduler`'s `KeysServed` is the reason. `Write` and
  `Delete` have none.
- `TenantManager`: an `Apply` that has begun goes on while the manager serves.
- `LspClient`: goroutines run, timers fire, the reader reads; `ServerReads` is
  strongly fair for a server that can read. Nothing makes it answer.
- `HttpServer`: goroutines run, a `select` takes what is ready, calls of `net`
  and `http` return. Nothing forces requests, updates or the cancellation.
- `ModelDownload`: a running `Ensure` takes its next step. Nothing forces a call
  of `Ensure`, a cut or a kill.
- The other modules have safety properties only.

## 5. What is proved

All theorems hold for every value of the constants under the modules' named
assumptions (sets disjoint from their null values, documents and names in finite
sets, bounds that are numbers). The bounds `MaxID`, `MaxMsgID`, `MaxBuilt`, `MaxWrites`,
`MaxChanges`, `MaxEdits`, `MaxTx`, `MaxTime` are arbitrary in them.

- **FileStoreProofs** (`Inductive`, `IdentifiersStaySound`, `TagsStayWithSymbols`,
  `UpsertStaysUndisturbed`, `FileStoreImplements`, `SessionsKeepTheirFiles`).
  The invariant is
  `IInv == TypeOK /\ CounterAhead /\ IDsDistinct`, plus `UInv` for undisturbed
  updates. `IDsDistinct` alone is not inductive: a new row is distinct only
  because the counter is ahead of every identifier in tables, in tags and in
  hands of workers and taggers. `TagsStay` is an action property: a new row has
  an identifier that no tag names, and only a tagger's step takes the tags of a
  row that stays. The refinement needs `WInv`: what a worker has written so far
  is its document's, first the class names, then no methods (a fresh class
  identifier has no method rows), then the methods of every class outside
  `groups`, then the calls. Each action is shown to change one path as
  `CodeStore` says, or none. The sessions (`SessionsInv`) need in addition: who
  is in a session holds the directory (`OneHolder`), what it has in memory is
  ahead of the index file it will replace (`AheadOfSaved`), an `UpsertIR` brings
  nothing older than the row it meets (`JobsForward`), outside of a scan or a
  watch only what was cut off goes on (`OnlyCutGoOn`), and what a scan has been
  at is current or on its way (`ScanProgress`). A lock that is released before
  the save breaks the second.
- **SublistProofs**: lemmas, no theorem about a machine. What `Kept`, `Append`,
  `Tail` and `\o` do to sequences without repetitions, and `SetInduction`: what
  holds at 0 and passes from each number to the next holds everywhere. The
  induction theorems of the library take an operator and cannot be used here;
  `SetInduction` speaks of a *set* of numbers and follows from the
  well-foundedness of `<` (`NatOrder`), which is a theorem without operators.
- **EventProofs** (`QueueStaysSound`, `SchedulerImplements`, `Inductive`,
  `ClientStaysSound`, `NothingPilesUp`, `AskedOnlyWhenOpen`,
  `OnlyTheVerifiedIsExtracted`, `PartStaysInOrder`): scheduler, LSP client and
  download. Map and slice of the scheduler agree because `Ready` keeps in the
  slice the very keys it leaves in the map. For the refinement, what is
  pending is what is queued or in the batch: `Poll` moves keys from one to the
  other, and when `HandleKey` starts a key that is in neither any more, it was
  the last place.
  For the LSP client, `OwnAnswer` speaks of what a caller has taken; the answer
  was on its way through the server, a pipe, the reader and a channel before.
  `Owners(o)` says that a function from request identifiers to paths agrees with
  everything in all these places and with the callers; `sendRequest` extends it
  at an identifier that nobody has seen. The stages of a caller (`Staged`) are
  needed for the types of what it writes. `Counted`: identifiers of callers are
  theirs alone, every pending one is awaited by the caller of that try, and none
  has an answer left in a channel. `Opened` follows the pipe message by message:
  before every question about a document stands its opening, in the pipe or in
  the server, with no closing between, and every opening is followed by its
  closing or by a caller that has the document still to close.
  For the download, `InOrder` relates the part file and the reply still to come,
  which continues it; `Trusted` says that whoever extracts, with a checksum
  configured, has a part file that was compared with it. Both hold for archives
  of any length; together they are what `ModelArrives` says besides recovery.
- **ImpactQueryProofs** (`GraphsStaySound`, `AnswersStayExact`,
  `PathStaysShortest`, `QuietQueriesNameTheirNode`). The order of `GetImpact`'s
  list rests on `Layered`: the queue holds entries of at most two adjacent
  depths, the deeper ones behind. That callers and callees agree is kept by every
  `AddEdge`. `BreadthInv` has, at each moment of a breadth first walk, a depth
  `k` such that everything up to `k` is marked or queued, every neighbour of what
  is done is listed at its distance, and nothing farther is. `DepthInv` follows
  the frames of the depth first walk: each is within the limit (`FramesWithin`),
  and for a recursive `GetAffected` over fewer methods than its limit every
  neighbour of a marked method is marked or in a frame still to come, and the stack is no
  deeper than the number of marked methods, so that no frame runs out of depth
  (`Tracked`, by counting).
  `PathInv` says that predecessors are one step nearer, however often they were
  overwritten, so walking back from the goal ends at the start after as many
  steps as its distance. `QuietInv` says that two graphs built while no file is
  replaced have the same nodes. Distances are a recursive function
  (`Within`), and what the walks need of it is proved by `SetInduction`.
- **SqliteStoreProofs** (`Inductive`, `RowsStaySound`, `SqliteStoreImplements`,
  `RebuildRestoresRedis`). `Sound(x)` = `Counted`
  (identifiers do not exceed their counters), `IDsDistinct` and `Layered`, for the
  committed database and the open transaction; `Upserting` and `Batching` say
  what the running operations hold. Orphaned methods are harmless because their
  class number is never used again. The refinement needs `SeenInv`: what an
  `UpsertIR` has committed is its document's (`Written`), only a path with a
  record is torn (`Marked`), and the open transaction shows what the first `n`
  documents of its batch make of the tables (`BatchSeen`). `DurableStore` gives
  that as a recursive function; `AfterDocumentsSteps` shows that there is one
  (`ChainExists`, `ChainUnique`, by `SetInduction`) and what its steps are.
  For the Redis layer, `KvComplete` is not inductive: what Redis lacks must be on
  its way (`NothingMissing`), from a writer that will show what it stores
  (`StoredIsShown`), from the puts of the rebuild, or in a file it has yet to read.
  That only this is left in Redis follows from `CleanSoFar`: a rebuild alone with
  Redis has all its keys to delete, then puts only what the base store holds.
- **TenantManagerProofs** (`Inductive`, `InstancesStayOwned`, `TableStaysSound`,
  `UnchangedTenantsStay`, `ReloadsKeepPromises`). The first invariant files
  instances under their identifiers (`Filed`) and numbers them anew
  (`Numbered`), relates the table to the copy `Apply` works on, or to the
  emptied table after `Close` (`Applying`, `InBuild`, `InRelease`), and says
  that what is to be released is what was replaced or removed. `Ordered` adds
  that `order` lists the table once each, and `Planned` that the
  targets of an `Apply` come from one configuration and that what it has built
  replaces only what `tenantDirty` found to differ: with both, the commit's two
  loops leave an order that matches, replace only changed tenants (the action
  half of `InstancesReplaced`), and are together one reload of `TenantRouting`.
  All assume `IdsDistinct`. The module also holds `PgRowsStayWhole`, of
  `PgStore` without batches: it says that `beside` stays empty, so that nothing is
  excepted, and that the rows stay whole. Batches (`PgBatch`), beside which they
  need not, are only model-checked. `Stage` says of every transaction under way which layers of what it
  sees are already its document's. It needs that every row it sees hangs on one
  that it sees (`Sound`), or the cascade at `Commit` would take rows away again,
  and that the row lock is its own, or the rows below it would change. Tags are
  the exception (`TagsAside`). `HashTellsContent` rests on an assumption: two
  documents of a path with one hash are the same document (`PgAssumption`).
- **ServingProofs** (`AdmissionHolds`, `ListenersStaySound`, `AnswersStayFresh`,
  `IndexStaysCurrent`, `LagStaysBounded`, `WeightsStaySound`,
  `PipelineStaysSound`): HTTP server, query cache, search index and watchers.
  Tokens handed out and tokens left never exceed burst and time since the bucket
  was made (`Filled`), for the limiter of every generation, those replaced included
  (`AllFilled`); the lemma `RefillSound` is the arithmetic of a refill. A
  request is let in under the configuration it came in, or a later one
  (`Checked`), because generations only grow. For the listeners, every open
  one is the current one or in the hands of one caller of `rebind`, not yet put
  in place or about to be closed (`Held`), and a current one is closed only by a
  break or a shutdown (`Errors`). Of the query cache it
  puts a lower bound on what lies under a key: an entry under the key of an epoch
  is no older than the invalidation that began this epoch, and an answer under
  way keeps the key of its beginning, so that one computed before an invalidation
  is stored where no later query looks.
  The search index (`IndexStaysCurrent`, `LagStaysBounded`, `WeightsStaySound`):
  identifiers are unique in the store and in what a kill leaves of it (`Keyed`),
  so that the documents of a task are those of its own files, all of which are
  cut short (`TaskOwn`); a document the task holds no longer is in every table
  whose write it has passed, or, if it is removed, in neither engine (`Written`,
  `Gone`). A write changes tables at the identifiers it takes and nowhere else
  (`Rewritten`), which leaves the other files found (`Found`) and, with the lemma
  `StillNear`, an engine as near to its file as it counts (`Near`).
  For the watchers, `NoChangeLost` is not inductive: a right hash may be about to be
  overwritten by a `ProcessFile` that read an older version. `Traced` says that
  such a job always leaves a change on its way behind it, or has failed with the
  content the file has: a job that fails, at whichever step, is over and its path in
  `failed`; only a change or a new handling takes it out, and both are on their way
  then. It needs `ClockAhead`
  (modification times are new) and `Phased` (one path is handled at a time after
  the scan).
- **RulesProofs** (`TestsStayTold`, `QueriesStayAgreed`, `RequestsStayAnswered`,
  `ProjectGraphsStayExact`, `TaggingStaysSound`, `SettingsStayHold`). The machine
  is trivial and its invariant is that the input fits the rule (`Fitting`); the
  weight is in what the functions compute for every input of these types. Where
  the code loops, the function is recursive over the numbers up to the length of
  a list (a class of `Hierarchy`, a round of `SortByCallers`, an entity of
  `Enhanced`), and a lemma says what holds after each turn: the
  hierarchy of the first classes has their relations and no other (`Built`);
  after a round of the selection sort what is placed is in order and above the
  rest, and the items are the same; the calls made and the turns that wanted one
  agree up to the limit. `SetInduction` carries it to the end, since it
  speaks of the set of turns after which it holds. Queries are followed from
  both ends down to the rows: what `GetTags` finds under a name and what
  `SearchByTags` lists are rows of one symbol (`SymbolRowsFacts`), and what
  `resolveSymbol` names is in the scan (`StoredIsFound`). That both protocols answer
  alike (`ToolsAgree`) starts from the two ways of reading an argument: the
  options and calls are equal because each kind of argument that `WrittenAsMeant` leaves
  is read alike, whatever stands in it, a word where a number is meant included. Settings follow field by
  field from what each kind of field takes for not given.

Each proof of a machine has one lemma per action and joins them in one step
theorem; the last step is temporal (PTL).

Of the assumptions, `RulesAssumption` is `Fits` for all inputs;
`ImportsAssumption` says that the project's module and the source roots are
paths, `TaggingAssumption` that no table of the tagger holds an empty tag,
`NamesAssumption` that only names of tests have a name they stem from,
`ConfigurationAssumption` that the defaults are a whole
configuration without a preset. The theorems of `ModelDownload` assume that an
archive has a number of blocks and that there is a number of archives.

### Only model-checked

Liveness: `KeysServed`, `ChangesCatchUp`, `InstancesReplaced`, `ParseReturns`,
`StopsWhenCancelled`, and the recovery in `ModelArrives`. The prover has no
support for fairness and ENABLED. The action half of `InstancesReplaced` and the
two invariants in `ModelArrives` are proved. And safety in `PgBatch`: what `PgRowsWhole`
says beside batches.

## 6. What is not modelled, and why

- *Text and numbers.* Parsing of source files (the registry, tree-sitter, the
  line-based and external adapters): a model would repeat regular expressions
  character by character; the models take of it a document or an error.
  Tokenising, similarity, the scores and the fusion of two rankings: arithmetic
  on floating point numbers. Prompts, report formats, pages and flags.
- *What belongs to others.* ONNX inference, chromem, trim, fsnotify, the
  databases' own engines, vendored code and its patches; the SDK and the
  benchmarks, which nothing in the commands uses.
- *Operations without a caller outside tests* (`EnqueueIndex`,
  `StopAutoSaveIDF`, `Flush`, `Scheduler.Clear`, `matchEntity`), unless they
  change state other operations depend on.
- *A second process on one SQLite file.* Nothing in the code excludes it; the
  commits of two `UpsertIR` of a path then interleave. `SqliteStore` speaks of
  one process.
- In stores: positions, signatures, doc texts, languages, tag categories;
  the tag tables of SQLite, whose writes are those of `FileStore` in single
  statements.

Observed while reading, without a property of their own:

- *Stores.* `FileStore.Open` ignores an index file it cannot read and the next
  `Close` replaces it (filestore.go:109). `Close` takes the mutex between the
  critical sections of an `UpsertIR` that a cancelled scan (scanner.go:206) or a
  stopped watcher (runtime.go:432) did not wait for: the file may then keep the
  new hash with old symbols; `SessionsKeepFiles` allows exactly this. On Windows
  the lock file of a killed process has to be removed by hand.
- *PostgreSQL.* `UpsertIR` saves no imports and does not reset the parse status;
  a document without classes or calls leaves the old rows. `InitSchema` has no caller
  in the commands and is left out.
- *Redis.* `rebuild-kv` restores neither class paths nor methods, and its flush
  deletes every key of the Redis database. Removed symbols stay until then; a
  rebuild beside a writer may leave an older body.
- *Model download.* A complete part file with a wrong checksum, or a kill between
  copy and extraction when no checksum is set, is answered 416 for ever;
  `modelFilesPresent` looks at names only; two processes share one part file.
- *Serving.* `serve` builds one runtime and the watcher a second one on the same
  files (tenant.go:155 to 171): queries see neither its index updates nor its
  cache invalidations (runtime.go:392 to 411), and the index files are those of the one that saved
  last. The HTTP server copies the default
  tenant and the projects once (http.go:211). The reload callback is registered
  after the tenants are built (main.go:437), each reload fills the bucket anew
  and the first one replaces the flags `--http` and `--auth-token`. Health
  handlers always answer 200.
- *Tenants.* A tenant renamed at the same file-driver DSN fails to build while
  its old identifier is removed. `mgr.Close` may run during an `Apply`, which
  then commits instances nobody closes (tenant.go:268).
- *Search.* `PersistentFTS.Search` iterates the shared map without its lock
  (persistent.go:84). `BuildAndIndex` leaves documents of symbols that a file no
  longer has.
- *Impact.* `GetImpact` may list a method at two depths (graph.go:112);
  `GetAffected` drops read errors (service.go:1723).
- *Test links.* One test may be listed several times in `related_tests`; links by
  dependency vanish once ten others are found.
- *AI.* A negative limit means unlimited (budget.go:14), but the scan asks for a
  positive rest, so nothing is enhanced; `ResetQuery` has no caller, so after ten
  disambiguations a server never disambiguates again; `TagAll` replaces tags
  that a model gave earlier.
- *Configuration.* `cloneConfig` forgets five fields that config.go:75 says are
  inherited; the JSON form ignores many fields of the YAML form; preset.go:6
  contradicts preset.go:41; `Merge` and `Validate` have no caller in the commands.
- *Protocols.* `lines=80.5` or `lines=80x` is 0 over HTTP and 80 to a tool;
  `recursive=1` is true over HTTP only, `"recursive": "true"` is false to a tool.
- *Watching.* An error of `ProcessFile` or of its callbacks is only logged: the
  file stays as it was stored until it changes again, and if its new hash was
  stored, even a new scan leaves it alone.
- *Imports.* The comment at analyzer.go:476 names keys that the code does not
  generate.
- *LSP.* A frame with an unknown identifier, an unreadable header or an invalid
  body is skipped and only counted; nothing in the program reads `IsAlive`.
