----------------------------- MODULE QueryCache -----------------------------
(***************************************************************************)
(* The query cache of service.Service: GetContextMode on the way of a      *)
(* query, InvalidateQueryCache on the way of an indexed file.  One symbol  *)
(* and one set of options are looked at, so the key is the epoch.          *)
(***************************************************************************)
EXTENDS Naturals

CONSTANTS
    Queries,
    MaxChanges    \* bound on the changes of the files

VARIABLES
    data,    \* version of the indexed files
    epoch,   \* cacheEpoch
    cached,  \* key -> version of the answer kept under it; 0: none
    step,    \* where InvalidateQueryCache is
    query,   \* query -> where it is, its key, its answer
    floor,   \* version of the files at the last invalidation (history)
    since    \* query -> floor when it began (history)

cache == <<data, epoch, cached, step, query, floor, since>>

CacheInit ==
    /\ data = 1 /\ epoch = 0 /\ cached = [k \in 0 .. MaxChanges |-> 0] /\ step = "idle"
    /\ query = [q \in Queries |-> [at |-> "new", key |-> 0, answer |-> 0]]
    /\ floor = 1 /\ since = [q \in Queries |-> 1]

CacheTypeOK ==
    /\ data \in 1 .. MaxChanges + 1 /\ epoch \in 0 .. MaxChanges /\ floor \in 1 .. data
    /\ cached \in [0 .. MaxChanges -> 0 .. data] /\ step \in {"idle", "stored", "raised"}
    /\ query \in [Queries -> [at : {"new", "ask", "compute", "keep", "done"}, key : 0 .. epoch, answer : 0 .. data]]
    /\ since \in [Queries -> 1 .. floor]

\* Mutant: the key leaves the epoch out.
KeyWithoutEpoch == 0

\* queryCacheKey
Key == epoch

\* The watcher processes a changed file, and its index callback invalidates
\* the cache of its own service: first the epoch, then the entries.
FileIndexed ==
    /\ step = "idle" /\ data <= MaxChanges
    /\ data' = data + 1 /\ step' = "stored"
    /\ UNCHANGED <<epoch, cached, query, floor, since>>

RaiseEpoch ==
    /\ step = "stored"
    /\ epoch' = epoch + 1 /\ step' = "raised"
    /\ UNCHANGED <<data, cached, query, floor, since>>

ClearCache ==
    /\ step = "raised"
    /\ cached' = [k \in DOMAIN cached |-> 0] /\ step' = "idle" /\ floor' = data
    /\ UNCHANGED <<data, epoch, query, since>>

\* GetContextMode: the key is made once.
Ask(q) ==
    /\ query[q].at = "new"
    /\ query' = [query EXCEPT ![q] = [at |-> "ask", key |-> Key, answer |-> 0]]
    /\ since' = [since EXCEPT ![q] = floor]
    /\ UNCHANGED <<data, epoch, cached, step, floor>>

\* A hit, unless the entry has expired.
Lookup(q) ==
    /\ query[q].at = "ask"
    /\ \/ /\ cached[query[q].key] > 0
          /\ query' = [query EXCEPT ![q].at = "done", ![q].answer = cached[query[q].key]]
          /\ UNCHANGED cached
       \/ /\ query' = [query EXCEPT ![q].at = "compute"]
          /\ cached' = [cached EXCEPT ![query[q].key] = 0]
    /\ UNCHANGED <<data, epoch, step, floor, since>>

\* getContextModeUncached reads the store and the files.
Compute(q) ==
    /\ query[q].at = "compute"
    /\ query' = [query EXCEPT ![q].at = "keep", ![q].answer = data]
    /\ UNCHANGED <<data, epoch, cached, step, floor, since>>

\* Set, under the key made at the start.
Put(q) ==
    /\ query[q].at = "keep"
    /\ query' = [query EXCEPT ![q].at = "done"]
    /\ cached' = [cached EXCEPT ![query[q].key] = query[q].answer]
    /\ UNCHANGED <<data, epoch, step, floor, since>>

Watching == FileIndexed \/ RaiseEpoch \/ ClearCache
Answering(q) == Ask(q) \/ Lookup(q) \/ Compute(q) \/ Put(q)
CacheNext == Watching \/ \E q \in Queries : Answering(q)
CacheSpec == CacheInit /\ [][CacheNext]_cache

\* A query that begins after an invalidation returned is never answered from
\* before it, also when another query computed its answer before and keeps it
\* after: that answer lies under a key nobody makes any more.
FreshAfterInvalidation == \A q \in Queries : query[q].at = "done" => query[q].answer >= since[q]
=============================================================================
