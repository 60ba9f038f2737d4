----------------------------- MODULE RedisLayer -----------------------------
(***************************************************************************)
(* The Redis layer over a base store (cmd/codeschema/store_redis.go), and  *)
(* rebuild-kv (rebuild_kv_redis.go), which another process may run while   *)
(* this one writes.  The base is an SQL store: a file store keeps the      *)
(* second process out.                                                     *)
(*                                                                         *)
(* Redis is a set of <<kind, key, value>>.  A key of a kind in Single has  *)
(* one value, any other a set of them.  The values of a class or a method  *)
(* stand for what is marshalled: the revision of the document.             *)
(***************************************************************************)
EXTENDS Naturals, Sequences

CONSTANTS
    Writers,
    Sources,     \* paths of source files
    Symbols,     \* names of classes and methods
    IRs,         \* documents: path, rev, classes, methods, calls (pairs)
    IRBatches,   \* sequences of documents
    Leftovers,   \* what Redis may hold at the start
    NoSource,    \* no file in hand
    MaxWrites    \* bound on the calls of UpsertIR and BulkUpsert

ASSUME RedisAssumption ==
    /\ IRs \subseteq [path : Sources, rev : Nat, classes : SUBSET Symbols, methods : SUBSET Symbols, calls : SUBSET (Symbols \X Symbols)]
    /\ IRBatches \subseteq Seq(IRs)
    /\ NoSource \notin Sources /\ MaxWrites \in Nat

VARIABLES
    base,     \* path -> the classes <<name, rev>> and calls of its file
    redis,
    todo,     \* writer -> the documents its UpsertIR or BulkUpsert is still to
              \* store and to show in Redis, and the puts of the one it shows
    rebuild,  \* where rebuild-kv is: what is to be flushed, read and put; alone:
              \* no writer has been at work since it began (history)
    writes,   \* calls of UpsertIR and BulkUpsert so far
    lost      \* has a put been lost since the rebuild listed the files (history)

kv == <<base, redis, todo, rebuild, writes, lost>>

Single == {"class", "classpath", "method", "methodpath"}
NothingToDo == [store |-> <<>>, show |-> <<>>, puts |-> {}]
NothingStored == [classes |-> {}, calls |-> {}]

KvInit ==
    /\ base = [p \in Sources |-> NothingStored]
    /\ redis \in Leftovers
    /\ todo = [w \in Writers |-> NothingToDo]
    /\ rebuild = [at |-> "new", alone |-> FALSE, keys |-> {}, files |-> {}, path |-> NoSource, puts |-> {}]
    /\ writes = 0 /\ lost = FALSE

-----------------------------------------------------------------------------
(* Puts                                                                    *)

PutOf(kind, key, vals) == [kind |-> kind, key |-> key, vals |-> vals]

CallPuts(calls) == {PutOf("caller", c[1], {c[2]}) : c \in calls}
FilePuts(p, names) == IF names = {} THEN {} ELSE {PutOf("file", p, names)}

\* populate
Populate(d) ==
    {PutOf("class", c, {d.rev}) : c \in d.classes} \cup {PutOf("classpath", c, {d.path}) : c \in d.classes}
      \cup {PutOf("method", m, {d.rev}) : m \in d.methods} \cup {PutOf("methodpath", m, {d.path}) : m \in d.methods}
      \cup FilePuts(d.path, d.classes) \cup CallPuts(d.calls)

\* The order in which the puts of a document are made
Rank == [class |-> 1, classpath |-> 1, method |-> 2, methodpath |-> 2, file |-> 3, callee |-> 4, caller |-> 5]
NextOf(puts) == {i \in puts : \A j \in puts : Rank[i.kind] <= Rank[j.kind]}

\* HSet and Set replace, SAdd adds.
After(i) ==
    {e \in redis : i.kind \in Single => <<e[1], e[2]>> # <<i.kind, i.key>>} \cup {<<i.kind, i.key, v>> : v \in i.vals}

\* A call is put one way, then the other; if the first fails, not at all.
Rest(puts, i, ok) ==
    (puts \ {i}) \cup (IF ok /\ i.kind = "caller" THEN {PutOf("callee", c, {i.key}) : c \in i.vals} ELSE {})

-----------------------------------------------------------------------------
(* Writers                                                                 *)

Losing == lost' = (lost \/ rebuild.at \in {"read", "done"})

\* UpsertIR, of one document, and BulkUpsert
WriteThrough(w, batch) ==
    /\ todo[w] = NothingToDo /\ writes < MaxWrites
    /\ todo' = [todo EXCEPT ![w] = [store |-> batch, show |-> batch, puts |-> {}]] /\ writes' = writes + 1
    /\ rebuild' = [rebuild EXCEPT !.alone = FALSE]
    /\ UNCHANGED <<base, redis, lost>>

\* The base store replaces the layers that the document has.
StoreBase(w) ==
    /\ todo[w].store # <<>>
    /\ LET d == Head(todo[w].store)
       IN  base' = [base EXCEPT ![d.path] = [classes |-> IF d.classes = {} THEN @.classes ELSE d.classes \X {d.rev},
                                             calls   |-> IF d.calls = {} THEN @.calls ELSE d.calls]]
    /\ todo' = [todo EXCEPT ![w].store = Tail(@)]
    /\ UNCHANGED <<redis, rebuild, writes, lost>>

\* Once all are stored, populate is called for one after the other.
ShowNext(w) ==
    /\ todo[w].store = <<>> /\ todo[w].puts = {} /\ todo[w].show # <<>>
    /\ todo' = [todo EXCEPT ![w].puts = Populate(Head(todo[w].show)), ![w].show = Tail(@)]
    /\ UNCHANGED <<base, redis, rebuild, writes, lost>>

PutNext(w) ==
    /\ \E i \in NextOf(todo[w].puts) : redis' = After(i) /\ todo' = [todo EXCEPT ![w].puts = Rest(@, i, TRUE)]
    /\ UNCHANGED <<base, rebuild, writes, lost>>

PutFails(w) ==
    /\ \E i \in NextOf(todo[w].puts) : todo' = [todo EXCEPT ![w].puts = Rest(@, i, FALSE)]
    /\ Losing
    /\ UNCHANGED <<base, redis, rebuild, writes>>

\* The base store's error is returned, or the process dies.
WriterStops(w) ==
    /\ todo[w] # NothingToDo
    /\ todo' = [todo EXCEPT ![w] = NothingToDo] /\ Losing
    /\ UNCHANGED <<base, redis, rebuild, writes>>

\* Redis restarts, and had saved nothing.
RedisForgets ==
    /\ redis # {}
    /\ redis' = {} /\ Losing
    /\ UNCHANGED <<base, todo, rebuild, writes>>

-----------------------------------------------------------------------------
(* rebuild-kv                                                              *)

\* Flush: SCAN returns every key that is there all the while, perhaps others.
StartFlush ==
    /\ rebuild.at = "new"
    /\ rebuild' = [rebuild EXCEPT !.at = "flush", !.alone = (\A w \in Writers : todo[w] = NothingToDo),
                                        !.keys = {<<e[1], e[2]>> : e \in redis}]
    /\ UNCHANGED <<base, redis, todo, writes, lost>>

FlushKey(k) ==
    /\ rebuild.at = "flush"
    /\ redis' = {e \in redis : <<e[1], e[2]>> # k}
    /\ rebuild' = [rebuild EXCEPT !.keys = @ \ {k}]
    /\ UNCHANGED <<base, todo, writes, lost>>

\* Mutant: SCAN is not continued to its end.
ListFilesUnflushed ==
    /\ rebuild.at = "flush"
    /\ rebuild' = [rebuild EXCEPT !.at = "read", !.keys = {}, !.files = {p \in Sources : base[p] # NothingStored}]
    /\ UNCHANGED <<base, redis, todo, writes, lost>>

\* GetAllFiles
ListFiles ==
    /\ rebuild.at = "flush" /\ rebuild.keys = {}
    /\ rebuild' = [rebuild EXCEPT !.at = "read", !.files = {p \in Sources : base[p] # NothingStored}]
    /\ UNCHANGED <<base, redis, todo, writes, lost>>

\* GetClassesByFileID of the next file
ReadClasses(p) ==
    /\ rebuild.at = "read" /\ rebuild.puts = {} /\ rebuild.path = NoSource /\ p \in rebuild.files
    /\ rebuild' = [rebuild EXCEPT !.path = p, !.files = @ \ {p},
                      !.puts = {PutOf("class", c[1], {c[2]}) : c \in base[p].classes} \cup FilePuts(p, {c[1] : c \in base[p].classes})]
    /\ UNCHANGED <<base, redis, todo, writes, lost>>

\* GetCallsByFileID
ReadCalls ==
    /\ rebuild.at = "read" /\ rebuild.puts = {} /\ rebuild.path # NoSource
    /\ rebuild' = [rebuild EXCEPT !.path = NoSource, !.puts = CallPuts(base[rebuild.path].calls)]
    /\ UNCHANGED <<base, redis, todo, writes, lost>>

RebuildPut ==
    /\ \E i \in NextOf(rebuild.puts) : redis' = After(i) /\ rebuild' = [rebuild EXCEPT !.puts = Rest(@, i, TRUE)]
    /\ UNCHANGED <<base, todo, writes, lost>>

RebuildPutFails ==
    /\ \E i \in NextOf(rebuild.puts) : rebuild' = [rebuild EXCEPT !.puts = Rest(@, i, FALSE)]
    /\ lost' = TRUE
    /\ UNCHANGED <<base, redis, todo, writes>>

\* An error of the flush or of the base store is returned.
RebuildFails ==
    /\ rebuild.at \in {"flush", "read"} /\ rebuild.puts = {}
    /\ rebuild' = [rebuild EXCEPT !.at = "failed", !.keys = {}, !.files = {}, !.path = NoSource]
    /\ UNCHANGED <<base, redis, todo, writes, lost>>

RebuildDone ==
    /\ rebuild.at = "read" /\ rebuild.files = {} /\ rebuild.path = NoSource /\ rebuild.puts = {}
    /\ rebuild' = [rebuild EXCEPT !.at = "done"]
    /\ UNCHANGED <<base, redis, todo, writes, lost>>

Writing(w) ==
    \/ \E b \in IRBatches : WriteThrough(w, b)
    \/ StoreBase(w) \/ ShowNext(w) \/ PutNext(w) \/ PutFails(w) \/ WriterStops(w)
Rebuilding ==
    \/ StartFlush \/ ListFiles \/ ReadCalls \/ RebuildPut \/ RebuildPutFails \/ RebuildFails \/ RebuildDone
    \/ \E k \in {<<e[1], e[2]>> : e \in redis} \cup rebuild.keys : FlushKey(k)
    \/ \E p \in rebuild.files : ReadClasses(p)
KvNext == (\E w \in Writers : Writing(w)) \/ RedisForgets \/ Rebuilding
KvSpec == KvInit /\ [][KvNext]_kv

-----------------------------------------------------------------------------
(* Properties                                                              *)

Expected(p) ==
    {<<"class", c[1], c[2]>> : c \in base[p].classes} \cup {<<"file", p, c[1]>> : c \in base[p].classes}
      \cup {<<"caller", c[1], c[2]>> : c \in base[p].calls} \cup {<<"callee", c[2], c[1]>> : c \in base[p].calls}

\* Redis has the entry, or another value under a key that has only one.
Known(e) == \E f \in redis : f[1] = e[1] /\ f[2] = e[2] /\ (e[1] \notin Single => f[3] = e[3])

\* After rebuild-kv Redis knows every class and call of the base store, also
\* of files written meanwhile, whatever was lost before; only of a writer that
\* is not through yet, or of what was lost since, it may lack some.
KvComplete ==
    rebuild.at = "done" /\ ~lost /\ (\A w \in Writers : todo[w] = NothingToDo) => \A p \in Sources : \A e \in Expected(p) : Known(e)

\* A rebuild that meets no writer and no fault leaves nothing of what was there
\* before: each entry is one of the base store.
KvCleanWhenQuiet ==
    [][rebuild.at = "read" /\ rebuild'.at = "done" /\ rebuild.alone /\ ~lost => redis \subseteq UNION {Expected(p) : p \in Sources}]_kv

\* rebuild-kv: after a rebuild Redis knows every class and call of the base
\* store, those of files written meanwhile included; and a rebuild that meets no
\* writer and no fault leaves only these.
KvFollowsStore == []KvComplete /\ KvCleanWhenQuiet
=============================================================================
