------------------------------ MODULE FileStore ------------------------------
(***************************************************************************)
(* The in-memory tables of an open FileStore (internal/store/filestore.go) *)
(* and every operation that writes them.  Each operation of the code holds *)
(* fs.mu for its whole body and is one action, with two exceptions:        *)
(*   - UpsertIR takes the mutex once per table, so a worker that runs it   *)
(*     goes through the stages of up[w], and others run in between;        *)
(*   - BulkUpsert keeps the mutex over the whole batch: bulk is what is    *)
(*     left of the batch, and nobody else runs until it is empty.          *)
(* A table is the set of its rows.  A slice of the code is a set here, so  *)
(* the identifiers of one batch of rows are handed out in any order.       *)
(***************************************************************************)
EXTENDS IRDocuments

CONSTANTS
    Tags,     \* tags the taggers set
    Taggers,  \* goroutines that derive tags
    Workers,  \* goroutines that run UpsertIR: ScanAll's pool, the scheduler
    NoFile,   \* a path without a file record
    NoDoc,    \* no document in hand
    Batches,  \* the batches BulkUpsert is called with
    MaxID     \* bound: no operation starts once MaxID identifiers are used

VARIABLES
    files,      \* path -> file record or NoFile
    classes,    \* class rows
    methods,    \* method rows
    calls,      \* call rows
    classTags,  \* (class ID, tag) pairs
    methodTags, \* (method ID, tag) pairs
    nextID,     \* next identifier, shared by files, classes and methods
    up,         \* the UpsertIR each worker runs
    bulk,       \* rest of the batch of the BulkUpsert that holds the mutex
    held        \* class and method IDs each tagger has read and may still tag

rows == <<classes, methods, calls>>
tags == <<classTags, methodTags>>
vars == <<files, rows, tags, nextID, up, bulk, held>>

ID == Nat \ {0}
FileRecord == [id : ID, hash : Hashes \cup {NoHash}, imports : SUBSET Imports]
ClassRecord == [id : ID, file : ID, name : ClassNames]
MethodRecord == [id : ID, class : ID, name : MethodNames]

\* An UpsertIR between two tables: the document, the ID of its file and the
\* class rows whose methods are still to be written.
Upsert == [stage : {"classes", "lookup", "methods", "imports"},
           doc : Docs, file : ID, groups : SUBSET ClassRecord]

Idle == [stage |-> "idle", doc |-> NoDoc, file |-> 0, groups |-> {}]

ASSUME FileStoreAssumption ==
    /\ NoFile \notin FileRecord
    /\ NoDoc \notin Docs
    /\ Batches \subseteq Seq(Docs)
    /\ MaxID \in Nat

TypeOK ==
    /\ files \in [Paths -> FileRecord \cup {NoFile}]
    /\ classes \subseteq ClassRecord
    /\ methods \subseteq MethodRecord
    /\ calls \subseteq [file : ID, call : Calls]
    /\ classTags \subseteq [class : ID, tag : Tags]
    /\ methodTags \subseteq [method : ID, tag : Tags]
    /\ nextID \in ID
    /\ up \in [Workers -> Upsert \cup {Idle}]
    /\ bulk \in Seq(Docs)
    /\ held \in [Taggers -> [classes : SUBSET ID, methods : SUBSET ID]]

-----------------------------------------------------------------------------
(* State formulae *)

ClassesOf(f) == {c \in classes : c.file = f}
MethodsOf(c) == {m \in methods : m.class = c}

\* Mutant: nothing keeps two workers off the same path.
NeverBusy(p) == FALSE

Busy(p) == \E w \in Workers : up[w].stage # "idle" /\ up[w].doc.path = p

\* Mutants: numbering starts one early; numbering starts anew for every file.
NumberingsOneEarly(S, first) ==
    {num \in [S -> (first - 1) .. (first + Cardinality(S) - 2)] :
        \A x, y \in S : num[x] = num[y] => x = y}
NumberingsPerFile(S, first) ==
    {num \in [S -> 1 .. Cardinality(S)] : \A x, y \in S : num[x] = num[y] => x = y}

\* Ways to hand the identifiers first, first + 1, ... to the members of S.
Numberings(S, first) ==
    {num \in [S -> first .. first + Cardinality(S) - 1] :
        \A x, y \in S : num[x] = num[y] => x = y}

\* The mutex is not held by a BulkUpsert.
Free == bulk = <<>>

\* The bound of the model: nothing that hands out identifiers starts at MaxID.
Bounded == nextID <= MaxID

\* upsertFileInMemory, UpsertFile and MarkParseSkipped all update the record
\* of a known path in place and give a new path the next identifier.
IsNew(p) == files[p] = NoFile
FileID(p) == IF IsNew(p) THEN nextID ELSE files[p].id
AfterFile(p) == IF IsNew(p) THEN nextID + 1 ELSE nextID
Recorded(p, h) ==
    IF IsNew(p) THEN [id |-> nextID, hash |-> h, imports |-> {}] ELSE [files[p] EXCEPT !.hash = h]

\* Rows of the classes of d under file f, and of the methods of one of them.
ClassRows(f, num) == {[id |-> num[n], file |-> f, name |-> n] : n \in DOMAIN num}
GroupOf(d, c) == {m \in d.methods : m.class = c.name}
MethodRows(c, num) == {[id |-> num[m], class |-> c.id, name |-> m.name] : m \in DOMAIN num}
CallRows(f, d) == {[file |-> f, call |-> k] : k \in d.calls}

-----------------------------------------------------------------------------
Init ==
    /\ files = [p \in Paths |-> NoFile]
    /\ classes = {} /\ methods = {} /\ calls = {}
    /\ classTags = {} /\ methodTags = {}
    /\ nextID = 1
    /\ up = [w \in Workers |-> Idle]
    /\ bulk = <<>>
    /\ held = [t \in Taggers |-> [classes |-> {}, methods |-> {}]]

-----------------------------------------------------------------------------
(* UpsertIR, one critical section after the other.  No two workers have    *)
(* the same path in hand: ScanAll starts one goroutine per listed file,    *)
(* the scheduler handles its queue in one goroutine, and the watcher       *)
(* starts after the scan.                                                  *)

UpsertFile(w, d) ==
    /\ Free
    /\ up[w].stage = "idle"
    /\ ~Busy(d.path)
    /\ Bounded
    /\ files' = [files EXCEPT ![d.path] = Recorded(d.path, d.hash)]
    /\ nextID' = AfterFile(d.path)
    /\ up' = [up EXCEPT ![w] = [stage |-> "classes", doc |-> d, file |-> FileID(d.path), groups |-> {}]]
    /\ UNCHANGED <<rows, tags, bulk, held>>

\* The old class rows go; their method and tag rows stay behind.
UpsertClasses(w) ==
    /\ Free
    /\ up[w].stage = "classes"
    /\ \E num \in Numberings(up[w].doc.classes, nextID) :
          classes' = (classes \ ClassesOf(up[w].file)) \cup ClassRows(up[w].file, num)
    /\ nextID' = nextID + Cardinality(up[w].doc.classes)
    /\ up' = [up EXCEPT ![w].stage = "lookup"]
    /\ UNCHANGED <<files, methods, calls, tags, bulk, held>>

\* The class rows are read back under the read lock; a class without methods
\* in the document forms no group.
LookupClasses(w) ==
    /\ Free
    /\ up[w].stage = "lookup"
    /\ up' = [up EXCEPT ![w].stage = "methods",
                        ![w].groups = {c \in ClassesOf(up[w].file) : GroupOf(up[w].doc, c) # {}}]
    /\ UNCHANGED <<files, rows, tags, nextID, bulk, held>>

\* Groups are written in the order of a map iteration: any order.
UpsertMethods(w, c) ==
    /\ Free
    /\ up[w].stage = "methods"
    /\ c \in up[w].groups
    /\ \E num \in Numberings(GroupOf(up[w].doc, c), nextID) :
          methods' = (methods \ MethodsOf(c.id)) \cup MethodRows(c, num)
    /\ nextID' = nextID + Cardinality(GroupOf(up[w].doc, c))
    /\ up' = [up EXCEPT ![w].groups = @ \ {c}]
    /\ UNCHANGED <<files, classes, calls, tags, bulk, held>>

\* Mutant: UpsertCalls returns early when the document has no calls.
UpsertCallsIfAny(w) ==
    /\ Free
    /\ up[w].stage = "methods"
    /\ up[w].groups = {}
    /\ calls' = IF up[w].doc.calls = {} THEN calls
                ELSE {k \in calls : k.file # up[w].file} \cup CallRows(up[w].file, up[w].doc)
    /\ up' = [up EXCEPT ![w].stage = "imports"]
    /\ UNCHANGED <<files, classes, methods, tags, nextID, bulk, held>>

UpsertCalls(w) ==
    /\ Free
    /\ up[w].stage = "methods"
    /\ up[w].groups = {}
    /\ calls' = {k \in calls : k.file # up[w].file} \cup CallRows(up[w].file, up[w].doc)
    /\ up' = [up EXCEPT ![w].stage = "imports"]
    /\ UNCHANGED <<files, classes, methods, tags, nextID, bulk, held>>

\* Imports are only overwritten by a non-empty list.
SaveImports(w) ==
    LET d == up[w].doc
    IN  /\ Free
        /\ up[w].stage = "imports"
        /\ files' = [files EXCEPT ![d.path] =
              IF @ # NoFile /\ d.imports # {} THEN [@ EXCEPT !.imports = d.imports] ELSE @]
        /\ up' = [up EXCEPT ![w] = Idle]
        /\ UNCHANGED <<rows, tags, nextID, bulk, held>>

UpsertIR(w) ==
    \/ \E d \in Docs : UpsertFile(w, d)
    \/ UpsertClasses(w)
    \/ LookupClasses(w)
    \/ \E c \in up[w].groups : UpsertMethods(w, c)
    \/ UpsertCalls(w)
    \/ SaveImports(w)

-----------------------------------------------------------------------------
(* BulkUpsert: the mutex is taken once and kept until the batch is done.   *)

BeginBulkUpsert(batch) ==
    /\ Free
    /\ Bounded
    /\ batch # <<>>
    /\ \A i \in DOMAIN batch : ~Busy(batch[i].path)
    /\ bulk' = batch
    /\ UNCHANGED <<files, rows, tags, nextID, up, held>>

\* One document: class and method identifiers come from one run of the
\* counter, and empty calls or imports leave the old ones in place.
BulkUpsertNext ==
    /\ bulk # <<>>
    /\ LET d     == Head(bulk)
           f     == FileID(d.path)
           first == AfterFile(d.path)
           mid   == first + Cardinality(d.classes)
           kept  == ClassMethods(d)
       IN  /\ files' = [files EXCEPT ![d.path] =
                 [Recorded(d.path, d.hash) EXCEPT !.imports = IF d.imports # {} THEN d.imports ELSE @]]
           /\ \E cnum \in Numberings(d.classes, first), mnum \in Numberings(kept, mid) :
                 /\ classes' = (classes \ ClassesOf(f)) \cup ClassRows(f, cnum)
                 /\ methods' = methods \cup
                       {[id |-> mnum[m], class |-> cnum[m.class], name |-> m.name] : m \in kept}
           /\ calls' = IF d.calls = {} THEN calls
                       ELSE {k \in calls : k.file # f} \cup CallRows(f, d)
           /\ nextID' = mid + Cardinality(kept)
    /\ bulk' = Tail(bulk)
    /\ UNCHANGED <<tags, up, held>>

-----------------------------------------------------------------------------
(* The single-step operations *)

\* UpsertFile on its own (a file no adapter takes, h is its hash) and
\* MarkParseSkipped (a file over a limit, h is empty): the other tables keep
\* what an earlier parse left there.
RecordFile(p, h) ==
    /\ Free
    /\ ~Busy(p)
    /\ Bounded
    /\ files' = [files EXCEPT ![p] = Recorded(p, h)]
    /\ nextID' = AfterFile(p)
    /\ UNCHANGED <<rows, tags, up, bulk, held>>

\* The cascade looks method tags up under the identifier of the class.
DeleteFile(p) ==
    /\ Free
    /\ ~Busy(p)
    /\ files[p] # NoFile
    /\ LET f   == files[p].id
           ids == {c.id : c \in ClassesOf(f)}
       IN  /\ classes' = classes \ ClassesOf(f)
           /\ calls' = {k \in calls : k.file # f}
           /\ methods' = {m \in methods : m.class \notin ids}
           /\ methodTags' = {t \in methodTags : t.method \notin ids}
           /\ classTags' = {t \in classTags : t.class \notin ids}
    /\ files' = [files EXCEPT ![p] = NoFile]
    /\ UNCHANGED <<nextID, up, bulk, held>>

\* A tagger (ai/tagger.go, Analyzer.TagAll) reads the classes of a file, then
\* the methods of one class after the other, and writes tags to what it has
\* read, whatever became of these rows meanwhile.
ReadClasses(t, p) ==
    /\ Free
    /\ files[p] # NoFile
    /\ held' = [held EXCEPT ![t] = [classes |-> {c.id : c \in ClassesOf(files[p].id)}, methods |-> {}]]
    /\ UNCHANGED <<files, rows, tags, nextID, up, bulk>>

ReadMethods(t, c) ==
    /\ Free
    /\ c \in held[t].classes
    /\ held' = [held EXCEPT ![t] = [classes |-> @.classes \ {c}, methods |-> {m.id : m \in MethodsOf(c)}]]
    /\ UNCHANGED <<files, rows, tags, nextID, up, bulk>>

\* The tags of one symbol are replaced; an empty list removes them.
UpsertTags(t, c, new) ==
    /\ Free
    /\ c \in held[t].classes
    /\ classTags' = {g \in classTags : g.class # c} \cup [class : {c}, tag : new]
    /\ UNCHANGED <<files, rows, methodTags, nextID, up, bulk, held>>

UpsertMethodTags(t, m, new) ==
    /\ Free
    /\ m \in held[t].methods
    /\ methodTags' = {g \in methodTags : g.method # m} \cup [method : {m}, tag : new]
    /\ UNCHANGED <<files, rows, classTags, nextID, up, bulk, held>>

Tagger(t) ==
    \/ \E p \in Paths : ReadClasses(t, p)
    \/ \E c \in held[t].classes : ReadMethods(t, c) \/ \E new \in SUBSET Tags : UpsertTags(t, c, new)
    \/ \E m \in held[t].methods, new \in SUBSET Tags : UpsertMethodTags(t, m, new)

Next ==
    \/ \E w \in Workers : UpsertIR(w)
    \/ \E b \in Batches : BeginBulkUpsert(b)
    \/ BulkUpsertNext
    \/ \E p \in Paths : DeleteFile(p) \/ \E h \in Hashes \cup {NoHash} : RecordFile(p, h)
    \/ \E t \in Taggers : Tagger(t)

Spec == Init /\ [][Next]_vars

-----------------------------------------------------------------------------
(* What the rows of a path amount to: the refinement mapping *)

Names(f) == {c.name : c \in ClassesOf(f)}
Members(f) == UNION {[class : {c.name}, name : {m.name : m \in MethodsOf(c.id)}] : c \in ClassesOf(f)}
CallsOf(f) == {k.call : k \in {r \in calls : r.file = f}}
WorkerOn(p) == CHOOSE w \in Workers : up[w].stage # "idle" /\ up[w].doc.path = p

Shown(p) ==
    IF files[p] = NoFile THEN Absent
    ELSE IF Busy(p) THEN Updating(up[WorkerOn(p)].doc, files[p].imports)
    ELSE LET f == files[p].id
         IN  Stored(files[p].hash, Names(f), Members(f), CallsOf(f), files[p].imports)

Interface == INSTANCE CodeStore WITH table <- [p \in Paths |-> Shown(p)]

-----------------------------------------------------------------------------
(* Properties *)

FileIDs == {files[p].id : p \in {q \in Paths : files[q] # NoFile}}
ClassIDs == {c.id : c \in classes}
MethodIDs == {m.id : m \in methods}

\* The counter is ahead of every identifier in a table, in a tag or in the
\* hands of a worker or a tagger: what it hands out next is new to all.
CounterAhead ==
    /\ \A i \in FileIDs \cup ClassIDs \cup MethodIDs : i < nextID
    /\ \A c \in classes : c.file < nextID
    /\ \A m \in methods : m.class < nextID
    /\ \A k \in calls : k.file < nextID
    /\ \A t \in classTags : t.class < nextID
    /\ \A t \in methodTags : t.method < nextID
    /\ \A t \in Taggers : \A i \in held[t].classes \cup held[t].methods : i < nextID
    /\ \A w \in Workers : up[w].file < nextID /\ \A c \in up[w].groups : c.id < nextID

\* One identifier, one symbol: files, classes and methods share a counter and
\* never an identifier, so a tag pair names at most one symbol
\* (filestore.go: nextID in UpsertFile, UpsertClasses, UpsertMethods, BulkUpsert).
IDsDistinct ==
    /\ \A p, q \in Paths :
          files[p] # NoFile /\ files[q] # NoFile /\ files[p].id = files[q].id => p = q
    /\ \A c, d \in classes : c.id = d.id => c = d
    /\ \A m, n \in methods : m.id = n.id => m = n
    /\ FileIDs \cap ClassIDs = {}
    /\ FileIDs \cap MethodIDs = {}
    /\ ClassIDs \cap MethodIDs = {}

\* The three together, from which each follows: what nextID hands out is new to
\* every table, tag, worker and tagger, and so no two symbols share it.
IdentifiersSound == TypeOK /\ CounterAhead /\ IDsDistinct

NewcomersUntagged ==
    /\ \A c \in classes' \ classes : \A t \in classTags' : t.class # c.id
    /\ \A m \in methods' \ methods : \A t \in methodTags' : t.method # m.id

LivingKeepTags ==
    /\ \A g \in classTags \ classTags' :
          (\E t \in Taggers : g.class \in held[t].classes) \/ g.class \notin ClassIDs'
    /\ \A g \in methodTags \ methodTags' :
          (\E t \in Taggers : g.method \in held[t].methods) \/ g.method \notin MethodIDs'

\* A class or method row that appears has no tags yet: tags that a re-indexed
\* or deleted symbol left behind never pass to a new one. And only a tagger that
\* has read a symbol takes its tags while it stays: the cascade of DeleteFile and
\* the replacement of rows leave the tags of other symbols alone.
TagsStay == [][NewcomersUntagged /\ LivingKeepTags]_vars

\* Between the steps of an UpsertIR its file record stays the one it wrote to
\* and the class rows it is about to fill stay those of that file.
UpsertUndisturbed ==
    \A w \in Workers :
        up[w].stage # "idle" =>
            /\ files[up[w].doc.path] # NoFile
            /\ files[up[w].doc.path].id = up[w].file
            /\ files[up[w].doc.path].hash = up[w].doc.hash
            /\ up[w].groups \subseteq ClassesOf(up[w].file)

\* FileStore does what the Store interface promises: an UpsertIR that returns
\* leaves exactly the content of its document under its path, and no operation
\* changes what another path shows.
ImplementsCodeStore == Interface!Spec

KnownImports(p) == IF files[p] = NoFile THEN {} ELSE files[p].imports

\* BulkUpsert is documented to mean what UpsertIR means for each of its files:
\* once a document of a batch is in, its path shows the content of that document.
BatchesLikeUpsertIR ==
    [][\A p \in Paths :
          bulk # <<>> /\ bulk' = Tail(bulk) /\ Head(bulk).path = p =>
              Shown(p)' = DocContent(Head(bulk), KnownImports(p))]_vars
=============================================================================
