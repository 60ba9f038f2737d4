---------------------------- MODULE SearchIndex ----------------------------
(***************************************************************************)
(* The search index of one project over the life of several processes:     *)
(* search.IndexBuilder writes every symbol of the store to a full text     *)
(* engine (retrieval.PersistentFTS) and to a vector store                  *)
(* (embedding.PersistentStore).  Each keeps its documents in memory and    *)
(* rewrites its whole file, in place, once Threshold changes have gathered.*)
(* The word statistics (LocalEmbedder) have a file of their own.           *)
(*                                                                         *)
(* A process may be killed between any two steps and within a save.  The   *)
(* store then comes back as it was last written, its counter of ids too,   *)
(* so ids may be given out again.  A text stands for its one word and for  *)
(* its vector.                                                             *)
(***************************************************************************)
EXTENDS Integers, FiniteSets

CONSTANTS
    Paths,
    Texts,         \* index texts of symbols
    MaxId,         \* bound on the ids of symbols
    Threshold,     \* changes of an engine before it saves itself
    MaxRuns,       \* bound on the processes
    MaxTasks,      \* bound on the tasks the handler starts
    MaxFaults,     \* bound on the saves that fail
    Unknown,       \* a file without a record in the store
    Torn           \* an index file that does not parse

ASSUME SearchIndexAssumption ==
    /\ MaxId \in Nat /\ MaxRuns \in Nat /\ MaxTasks \in Nat /\ MaxFaults \in Nat
    /\ Threshold \in Nat \ {0}
    /\ Paths \cap (1 .. MaxId) = {}
    /\ IsFiniteSet(Paths) /\ IsFiniteSet(Texts)

Engines == {"fts", "vec"}
DocIds == Paths \cup 1 .. MaxId
Words == Texts \cup Paths
Symbol == [id : 1 .. MaxId, text : Texts]
Doc == [id : DocIds, text : Words]
Table == UNION {[ids -> Words] : ids \in SUBSET DocIds}

ASSUME UnknownIsNoRecord == \A symbols \in SUBSET Symbol : symbols # Unknown

VARIABLES
    store,    \* path -> Unknown or the classes and methods stored for it
    nextID,   \* the store's counter of ids
    kept,     \* what a killed process leaves of store and nextID
    runs,     \* processes started so far
    up,       \* is a process running?
    engine,   \* engine -> docs, contents, dirties and whether it has a file
    file,     \* engine -> the file it loads and saves
    idf,      \* LocalEmbedder: docCnt and df
    idfFile,
    task,     \* BuildFromStore, BuildAndIndex or BuildAndRemove in progress
    tasks,    \* tasks the handler has started so far
    gaps,     \* paths whose last indexing was cut short (history)
    faults    \* saves that have failed

indexVars == <<store, nextID, kept, runs, up, engine, file, idf, idfFile, task, tasks, gaps, faults>>

NoTable == <<>>
NewEngine == [docs |-> NoTable, contents |-> NoTable, dirties |-> 0, saved |-> TRUE]
NoIDF == [docCnt |-> 0, df |-> [w \in Words |-> 0]]
Idle == [op |-> "none", paths |-> {}, todo |-> {}, now |-> {}, at |-> "next"]

IDF == [docCnt : Nat, df : [Words -> Nat]]
Steps == {"next", "fts", "save fts", "vec", "save vec", "content", "save content"}

IndexTypeOK ==
    /\ store \in [Paths -> (SUBSET Symbol) \cup {Unknown}]
    /\ nextID \in 1 .. MaxId + 1
    /\ kept.store \in [Paths -> (SUBSET Symbol) \cup {Unknown}] /\ kept.nextID \in 1 .. nextID
    /\ runs \in 0 .. MaxRuns /\ up \in BOOLEAN
    /\ \A e \in Engines :
          /\ engine[e].docs \in Table /\ engine[e].contents \in Table
          /\ engine[e].dirties \in Nat /\ engine[e].saved \in BOOLEAN
          /\ \/ file[e] = Torn
             \/ file[e].docs \in Table /\ file[e].contents \in Table
    /\ idf \in IDF /\ idfFile \in IDF \cup {Torn}
    /\ task.op \in {"none", "open", "build", "index", "remove"} /\ task.at \in Steps
    /\ task.todo \cup task.now \subseteq Doc /\ task.paths \subseteq Paths
    /\ gaps \subseteq Paths /\ tasks \in 0 .. MaxTasks
    /\ faults \in 0 .. MaxFaults

IndexInit ==
    /\ store = [p \in Paths |-> Unknown] /\ nextID = 1
    /\ kept = [store |-> store, nextID |-> 1]
    /\ runs = 0 /\ up = FALSE
    /\ engine = [e \in Engines |-> NewEngine]
    /\ file = [e \in Engines |-> [docs |-> NoTable, contents |-> NoTable]]
    /\ idf = NoIDF /\ idfFile = NoIDF
    /\ task = Idle /\ tasks = 0 /\ gaps = {} /\ faults = 0

-----------------------------------------------------------------------------
(* Documents.  A file without classes is found by its path.                *)

DocsOf(p) ==
    IF store[p] = Unknown THEN {}
    ELSE IF store[p] = {} THEN {[id |-> p, text |-> p]} ELSE store[p]

IdsOf(docs) == {d.id : d \in docs}
TextIn(docs, i) == (CHOOSE d \in docs : d.id = i).text

PutDocs(table, docs) ==
    [i \in DOMAIN table \cup IdsOf(docs) |-> IF i \in IdsOf(docs) THEN TextIn(docs, i) ELSE table[i]]
DropDocs(table, ids) == [i \in DOMAIN table \ ids |-> table[i]]

\* LocalEmbedder.Observe, once per document.
Observe(s, docs) ==
    [docCnt |-> s.docCnt + Cardinality(docs),
     df |-> [w \in Words |-> s.df[w] + Cardinality({d \in docs : d.text = w})]]

HasIDF(s) == s.docCnt > 0

-----------------------------------------------------------------------------
(* The engines.  One that has fallen back to memory has no file.           *)

\* PersistentFTS.Index and BatchIndex; PersistentStore.Add and BatchAdd.
FtsIndex(docs) ==
    engine' = [engine EXCEPT !["fts"].docs = PutDocs(@, docs), !["fts"].dirties = @ + Cardinality(docs)]

\* Mutant: a removal does not count as a change.
FtsRemoveUncounted(ids) ==
    engine' = [engine EXCEPT !["fts"].docs = DropDocs(@, ids)]

FtsRemove(ids) ==
    engine' = [engine EXCEPT !["fts"].docs = DropDocs(@, ids), !["fts"].dirties = @ + Cardinality(ids)]

VecAdd(docs) ==
    engine' = [engine EXCEPT !["vec"].docs = PutDocs(@, docs), !["vec"].dirties = @ + Cardinality(docs)]

\* The content of a deleted document stays.
VecDelete(ids) ==
    engine' = [engine EXCEPT !["vec"].docs = DropDocs(@, ids), !["vec"].dirties = @ + Cardinality(ids)]

SetContent(d) ==
    engine' = [engine EXCEPT !["vec"].contents = PutDocs(@, {d}), !["vec"].dirties = @ + 1]

EngineOf(step) == IF step = "save fts" THEN "fts" ELSE "vec"

Due(e) == engine[e].saved /\ engine[e].dirties >= Threshold

Image(e) == [docs |-> engine[e].docs, contents |-> engine[e].contents]

\* save: the whole table is written in place.  A write that fails leaves the
\* old file or part of the new one, and the counter as it is.
Save(e) ==
    \/ /\ file' = [file EXCEPT ![e] = Image(e)]
       /\ engine' = [engine EXCEPT ![e].dirties = 0]
       /\ UNCHANGED faults
    \/ /\ faults < MaxFaults
       /\ faults' = faults + 1
       /\ file' \in {file, [file EXCEPT ![e] = Torn]}
       /\ UNCHANGED engine

\* A constructor that cannot parse its file is replaced by an engine in memory.
FtsLoaded ==
    IF file["fts"] = Torn THEN [NewEngine EXCEPT !.saved = FALSE] ELSE [NewEngine EXCEPT !.docs = file["fts"].docs]
VecLoaded ==
    IF file["vec"] = Torn THEN [NewEngine EXCEPT !.saved = FALSE]
    ELSE [NewEngine EXCEPT !.docs = file["vec"].docs, !.contents = file["vec"].contents]

\* Mutant: the counts are loaded without their total.
LoadIDFCounts == IF idfFile = Torn THEN NoIDF ELSE [idfFile EXCEPT !.docCnt = 0]

\* A dictionary that does not decode is built anew.
LoadIDF == IF idfFile = Torn THEN NoIDF ELSE idfFile

-----------------------------------------------------------------------------
(* Processes                                                               *)

\* The store is opened and NewSearcherWithStore loads what it finds.
Open ==
    /\ ~up /\ runs < MaxRuns
    /\ up' = TRUE /\ runs' = runs + 1
    /\ store' = kept.store /\ nextID' = kept.nextID
    /\ engine' = [e \in Engines |-> IF e = "fts" THEN FtsLoaded ELSE VecLoaded]
    /\ idf' = LoadIDF
    /\ task' = [Idle EXCEPT !.op = "open"]
    /\ gaps' = Paths
    /\ UNCHANGED <<tasks, kept, file, idfFile, faults>>

\* The store writes itself: at once, or as often as a FileStore does.
Keep ==
    /\ up /\ kept # [store |-> store, nextID |-> nextID]
    /\ kept' = [store |-> store, nextID |-> nextID]
    /\ UNCHANGED <<tasks, store, nextID, runs, up, engine, file, idf, idfFile, task, gaps, faults>>

\* A tick of AutoSaveIDF, or SaveIDF after BuildIndex.
SaveIDF ==
    /\ up /\ idfFile # idf
    /\ \/ idfFile' = idf /\ UNCHANGED faults
       \/ faults < MaxFaults /\ faults' = faults + 1 /\ idfFile' = Torn
    /\ UNCHANGED <<tasks, store, nextID, kept, runs, up, engine, file, idf, task, gaps>>

\* The commands close the store when they stop and save neither engine.
CloseStore ==
    /\ up /\ up' = FALSE
    /\ kept' = [store |-> store, nextID |-> nextID]
    /\ engine' = [e \in Engines |-> NewEngine] /\ idf' = NoIDF /\ task' = Idle /\ gaps' = Paths
    /\ UNCHANGED <<tasks, store, nextID, runs, file, idfFile, faults>>

\* The process is killed, in a save perhaps.
Kill ==
    /\ up /\ up' = FALSE
    /\ IF task.at \in {"save fts", "save vec", "save content"}
       THEN file' \in {file, [file EXCEPT ![EngineOf(task.at)] = Torn]}
       ELSE UNCHANGED file
    /\ idfFile' \in {idfFile, Torn}
    /\ engine' = [e \in Engines |-> NewEngine] /\ idf' = NoIDF /\ task' = Idle /\ gaps' = Paths
    /\ UNCHANGED <<tasks, store, nextID, kept, runs, faults>>

-----------------------------------------------------------------------------
(* What the program asks of the builder, one task at a time: BuildIndex    *)
(* when the process starts, then what the scheduler's handler reports.     *)

\* Mutant: an index that was loaded is not built again.
BuildFromStoreIfEmpty ==
    /\ up /\ task.op = "open"
    /\ task' = [Idle EXCEPT !.op = "build", !.paths = Paths,
                   !.todo = IF engine["fts"].docs = NoTable THEN UNION {DocsOf(p) : p \in Paths} ELSE {}]
    /\ UNCHANGED <<tasks, store, nextID, kept, runs, up, engine, file, idf, idfFile, gaps, faults>>

\* BuildFromStore: files whose classes cannot be read are counted and left out.
BuildFromStore ==
    /\ up /\ task.op = "open"
    /\ \E unread \in SUBSET Paths :
          task' = [Idle EXCEPT !.op = "build", !.paths = Paths \ unread,
                               !.todo = UNION {DocsOf(p) : p \in Paths \ unread}]
    /\ UNCHANGED <<tasks, store, nextID, kept, runs, up, engine, file, idf, idfFile, gaps, faults>>

\* The symbols of a file that is stored: each text under an id of its own.
Numbered(texts, first) ==
    LET ids == first .. first + Cardinality(texts) - 1
        text == CHOOSE f \in [ids -> texts] : \A t \in texts : \E i \in ids : f[i] = t
    IN  {[id |-> i, text |-> text[i]] : i \in ids}

\* ProcessFile stores new symbols under new ids, then calls BuildAndIndex.
BuildAndIndex(p) ==
    /\ up /\ task.op = "none" /\ tasks < MaxTasks /\ tasks' = tasks + 1
    /\ \E texts \in SUBSET Texts :
          LET symbols == Numbered(texts, nextID)
          IN  /\ nextID + Cardinality(texts) <= MaxId + 1
              /\ nextID' = nextID + Cardinality(texts)
              /\ store' = [store EXCEPT ![p] = symbols]
              /\ task' = [Idle EXCEPT !.op = "index", !.paths = {p},
                             !.todo = IF symbols = {} THEN {[id |-> p, text |-> p]} ELSE symbols]
    /\ gaps' = gaps \cup {p}
    /\ UNCHANGED <<kept, runs, up, engine, file, idf, idfFile, faults>>

\* ProcessFile records a file it does not parse and tells the index nothing.
RecordOnly(p) ==
    /\ up /\ task.op = "none" /\ store[p] = Unknown
    /\ store' = [store EXCEPT ![p] = {}]
    /\ gaps' = gaps \cup {p}
    /\ UNCHANGED <<tasks, nextID, kept, runs, up, engine, file, idf, idfFile, task, faults>>

\* The store keeps its symbols; the index drops those it has now and the path.
BuildAndRemove(p) ==
    /\ up /\ task.op = "none" /\ tasks < MaxTasks /\ tasks' = tasks + 1
    /\ task' = [Idle EXCEPT !.op = "remove", !.paths = {p},
                   !.todo = {[id |-> p, text |-> p]} \cup (IF store[p] = Unknown THEN {} ELSE store[p])]
    /\ gaps' = gaps \cup {p}
    /\ UNCHANGED <<store, nextID, kept, runs, up, engine, file, idf, idfFile, faults>>

-----------------------------------------------------------------------------
(* The steps of a task.  BuildFromStore takes all its documents at once,   *)
(* the others one after the other.                                         *)

UnchangedByTask == UNCHANGED <<tasks, store, nextID, kept, runs, up, idfFile>>

Batch == IF task.op = "build" THEN {task.todo} ELSE {{d} : d \in task.todo}

Observed(docs) ==
    IF task.op = "remove" \/ (task.op = "build" /\ HasIDF(idf)) THEN idf ELSE Observe(idf, docs)

TakeDocs ==
    /\ task.op \in {"build", "index", "remove"} /\ task.at = "next" /\ task.todo # {}
    /\ \E now \in Batch :
          /\ task' = [task EXCEPT !.todo = @ \ now, !.now = now, !.at = "fts"]
          /\ idf' = Observed(now)
    /\ UnchangedByTask /\ UNCHANGED <<engine, file, gaps, faults>>

\* A task that did all it had to leaves no gap, unless it removed documents.
Finished == gaps' = IF task.op = "remove" THEN gaps ELSE gaps \ task.paths

Finish ==
    /\ task.op \in {"build", "index", "remove"} /\ task.at = "next" /\ task.todo = {}
    /\ task' = Idle /\ Finished
    /\ UnchangedByTask /\ UNCHANGED <<engine, file, idf, faults>>

WriteFts ==
    /\ task.at = "fts"
    /\ IF task.op = "remove" THEN FtsRemove(IdsOf(task.now)) ELSE FtsIndex(task.now)
    /\ task' = [task EXCEPT !.at = "save fts"]
    /\ UnchangedByTask /\ UNCHANGED <<file, idf, gaps, faults>>

WriteVec ==
    /\ task.at = "vec"
    /\ IF task.op = "remove" THEN VecDelete(IdsOf(task.now)) ELSE VecAdd(task.now)
    /\ task' = [task EXCEPT !.at = "save vec"]
    /\ UnchangedByTask /\ UNCHANGED <<file, idf, gaps, faults>>

WriteContent ==
    /\ task.at = "content" /\ task.now # {}
    /\ \E d \in task.now :
          /\ SetContent(d)
          /\ task' = [task EXCEPT !.now = @ \ {d}, !.at = "save content"]
    /\ UnchangedByTask /\ UNCHANGED <<file, idf, gaps, faults>>

AllContentSet ==
    /\ task.at = "content" /\ task.now = {}
    /\ task' = [task EXCEPT !.at = "next"]
    /\ UnchangedByTask /\ UNCHANGED <<engine, file, idf, gaps, faults>>

Then(step) == CASE step = "save fts" -> "vec"
                [] step = "save vec" -> IF task.op = "remove" THEN "next" ELSE "content"
                [] step = "save content" -> "content"

\* maybeSave.  A failed save ends the task with an error, save of a content's.
MaybeSave ==
    /\ task.at \in {"save fts", "save vec", "save content"}
    /\ IF Due(EngineOf(task.at)) THEN Save(EngineOf(task.at)) ELSE UNCHANGED <<engine, file, faults>>
    /\ task' = IF faults' = faults \/ task.at = "save content"
               THEN [task EXCEPT !.at = Then(@), !.now = IF Then(task.at) = "next" THEN {} ELSE @]
               ELSE Idle
    /\ UnchangedByTask /\ UNCHANGED <<idf, gaps>>

Step == TakeDocs \/ Finish \/ WriteFts \/ WriteVec \/ WriteContent \/ AllContentSet \/ MaybeSave

IndexNext ==
    \/ Open \/ Keep \/ SaveIDF \/ CloseStore \/ Kill \/ BuildFromStore \/ Step
    \/ \E p \in Paths : BuildAndIndex(p) \/ RecordOnly(p) \/ BuildAndRemove(p)

IndexSpec == IndexInit /\ [][IndexNext]_indexVars

-----------------------------------------------------------------------------
(* Properties                                                              *)

FoundInBoth ==
    up => \A p \in Paths \ gaps : \A d \in DocsOf(p) :
        \A table \in {engine["fts"].docs, engine["vec"].docs, engine["vec"].contents} :
            d.id \in DOMAIN table /\ table[d.id] = d.text

RemovedFromBoth ==
    task.op = "remove" /\ task.at = "next" =>
        \A p \in task.paths : \A i \in IdsOf(DocsOf(p)) \ IdsOf(task.todo) :
            i \notin DOMAIN engine["fts"].docs \cup DOMAIN engine["vec"].docs

\* A file whose last indexing succeeded is found by every symbol it has now, in
\* both engines, with its own text and the content shown for it: after torn
\* files, lost saves and ids given out twice too.  And a removal leaves the
\* documents it has gone through in neither engine.
IndexCurrent == FoundInBoth /\ RemovedFromBoth

Differ(t, u) == {i \in DOMAIN t \cup DOMAIN u : ~(i \in DOMAIN t \cap DOMAIN u /\ t[i] = u[i])}

\* An engine with a file is never further from it than the changes it counts,
\* and between two writes it counts fewer than Threshold of them unless a save
\* has failed: so much, and no more, is lost when the process ends.  (The
\* comments of both engines promise a save after every change: SavedAtOnce.)
LagBounded ==
    \A e \in Engines :
        up /\ engine[e].saved /\ file[e] # Torn =>
            /\ Cardinality(Differ(engine[e].docs, file[e].docs)) <= engine[e].dirties
            /\ Cardinality(Differ(engine[e].contents, file[e].contents)) <= engine[e].dirties
            /\ faults = 0 /\ task.op = "none" => engine[e].dirties < Threshold

\* What the comments of PersistentFTS and PersistentStore say: every change is
\* saved to the file when the call that made it returns.  The code saves once
\* Threshold changes have gathered, and CloseStore saves nothing.
SavedAtOnce ==
    \A e \in Engines :
        up /\ engine[e].saved /\ faults = 0 /\ file[e] # Torn /\ task.at \notin {"save fts", "save vec", "save content"} =>
            file[e] = Image(e)

WeightsNotNegative ==
    \A s \in {idf} \cup {x \in {idfFile} : x # Torn} : \A w \in Words : s.df[w] <= s.docCnt

\* Types, and a word is in no more documents than there are: the weight Embed
\* gives it, log2((docCnt + 1) / df), is never negative, whatever was saved and
\* loaded.
WeightsSound == IndexTypeOK /\ WeightsNotNegative
=============================================================================
