--------------------------- MODULE WatchPipeline ---------------------------
(***************************************************************************)
(* How a change on disk reaches the store and the search index: the full   *)
(* scan (scanner.ScanAll), then BuildIndex, then the polling watcher       *)
(* (fswatch.PollWatcher), the scheduler (PendingEvents is what Scheduler   *)
(* implements) and scanner.ProcessFile, which looks at the disk four times:  *)
(* for the size, the hash, the number of lines and the symbols.  Files may *)
(* change in between.  The disk, the adapter, the store and the index may  *)
(* fail at any step; ProcessFile then ends, and nothing tries again.       *)
(*                                                                         *)
(* A content stands for its SHA-256 and for the document parsed from it.   *)
(* The walk of a poll is one Visit per path: the watcher keeps its records *)
(* to itself and looks at each path once per walk.                         *)
(***************************************************************************)
EXTENDS Integers

CONSTANTS
    Sources,
    Contents,    \* contents of files
    Edits,       \* pairs of contents: the second may replace the first
    TooBig,      \* contents over the size limit
    TooLong,     \* contents over the line limit
    Unparsable,  \* contents an adapter rejects or skips
    Plain,       \* paths no adapter takes
    MaxWrites,   \* bound on the changes of the disk
    NoContent,   \* nothing, or the empty content_hash
    NoPath,      \* the scheduler is handling nothing
    Unseen       \* a path buildInitialState has not come to

ASSUME WatchPipelineAssumption ==
    /\ Edits \subseteq Contents \X Contents
    /\ TooBig \cup TooLong \cup Unparsable \subseteq Contents
    /\ Plain \subseteq Sources
    /\ MaxWrites \in Nat
    /\ NoContent \notin Contents
    /\ NoPath \notin Sources
    /\ Unseen \notin Nat

VARIABLES
    disk,    \* path -> does the file exist, its last content, its last change
    writes,  \* number of changes so far: the clock of modification times
    phase,   \* "scan", then "watch"
    listed,  \* paths ScanAll has listed and not yet given to a worker
    seen,    \* fileStates: modification time by path, 0 for a missing file
    base,    \* seen when the watcher started (history)
    pending, \* events of the scheduler
    current, \* the path the scheduler is handling
    job,     \* ProcessFile, by path
    stored,  \* path -> stored hash and the content its symbols come from
    index,   \* path -> contents whose symbols a search finds
    failed,  \* files whose content as it is was handled last without success (history)
    torn     \* files whose symbols a failing write left behind their hash (history)

pipelineVars ==
    <<disk, writes, phase, listed, seen, base, pending, current, job, stored, index, failed, torn>>

Sched == INSTANCE PendingEvents WITH Keys <- Sources, NoKey <- NoPath, live <- TRUE

Modified(p) == IF disk[p].exists THEN disk[p].mtime ELSE 0

Stage(s) == [stage |-> s, hash |-> NoContent, ir |-> NoContent]
NotStored == [hash |-> NoContent, ir |-> NoContent]

Job ==
    [stage : {"idle", "stat", "hash", "done"}, hash : {NoContent}, ir : {NoContent}]
    \cup [stage : {"lines", "parse"}, hash : Contents, ir : {NoContent}]
    \cup [stage : {"upsert", "index"}, hash : Contents, ir : Contents]

PipelineTypeOK ==
    /\ disk \in [Sources -> [exists : BOOLEAN, content : Contents, mtime : 1 .. MaxWrites + 1]]
    /\ writes \in 1 .. MaxWrites + 1
    /\ phase \in {"scan", "watch"}
    /\ listed \subseteq Sources
    /\ seen \in [Sources -> 0 .. MaxWrites + 1 \cup {Unseen}]
    /\ base \in [Sources -> 0 .. MaxWrites + 1 \cup {Unseen}]
    /\ pending \subseteq Sources
    /\ current \in Sources \cup {NoPath}
    /\ job \in [Sources -> Job]
    /\ stored \in [Sources -> [hash : Contents \cup {NoContent}, ir : Contents \cup {NoContent}]]
    /\ index \in [Sources -> SUBSET Contents]
    /\ failed \subseteq Sources /\ torn \subseteq Sources

PipelineInit ==
    /\ disk \in [Sources -> [exists : BOOLEAN, content : Contents, mtime : {1}]]
    /\ writes = 1
    /\ phase = "scan"
    /\ listed = {p \in Sources : disk[p].exists}
    /\ seen = [p \in Sources |-> Unseen] /\ base = seen
    /\ pending = {} /\ current = NoPath
    /\ job = [p \in Sources |-> Stage("idle")]
    /\ stored = [p \in Sources |-> NotStored]
    /\ index = [p \in Sources |-> {}]
    /\ failed = {} /\ torn = {}

-----------------------------------------------------------------------------
(* Users change files.  A modification time is never used twice.           *)

Write(p, c) ==
    /\ writes <= MaxWrites
    /\ <<disk[p].content, c>> \in Edits
    /\ writes' = writes + 1
    /\ disk' = [disk EXCEPT ![p] = [exists |-> TRUE, content |-> c, mtime |-> writes']]
    /\ failed' = failed \ {p}
    /\ UNCHANGED <<phase, listed, seen, base, pending, current, job, stored, index, torn>>

Delete(p) ==
    /\ disk[p].exists
    /\ writes <= MaxWrites
    /\ writes' = writes + 1
    /\ disk' = [disk EXCEPT ![p].exists = FALSE]
    /\ failed' = failed \ {p}
    /\ UNCHANGED <<phase, listed, seen, base, pending, current, job, stored, index, torn>>

-----------------------------------------------------------------------------
(* PollWatcher *)

Started == \A p \in Sources : seen[p] # Unseen

\* buildInitialState records the files as it finds them and reports nothing.
InitialVisit(p) ==
    /\ phase = "watch"
    /\ seen[p] = Unseen
    /\ seen' = [seen EXCEPT ![p] = Modified(p)]
    /\ base' = [base EXCEPT ![p] = Modified(p)]
    /\ UNCHANGED <<disk, writes, phase, listed, pending, current, job, stored, index, failed, torn>>

\* Mutant: a change of the file being handled is taken for handled.
VisitUnlessHandled(p) ==
    /\ Started
    /\ seen[p] # Modified(p)
    /\ seen' = [seen EXCEPT ![p] = Modified(p)]
    /\ IF current = p THEN UNCHANGED <<pending, current>> ELSE Sched!Event(p)
    /\ UNCHANGED <<disk, writes, phase, listed, base, job, stored, index, failed, torn>>

\* poll reports new, changed and missing files; watcher.NewPollWatcher
\* enqueues what it reports.
Visit(p) ==
    /\ Started
    /\ seen[p] # Modified(p)
    /\ seen' = [seen EXCEPT ![p] = Modified(p)]
    /\ Sched!Event(p)
    /\ UNCHANGED <<disk, writes, phase, listed, base, job, stored, index, failed, torn>>

-----------------------------------------------------------------------------
(* ProcessFile is started by a worker of ScanAll or by the scheduler *)

Dispatch(p) ==
    /\ phase = "scan"
    /\ p \in listed
    /\ listed' = listed \ {p}
    /\ job' = [job EXCEPT ![p] = Stage("stat")]
    /\ failed' = failed \ {p}
    /\ UNCHANGED <<disk, writes, phase, seen, base, pending, current, stored, index, torn>>

Handle(p) ==
    /\ Sched!Start(p)
    /\ job' = [job EXCEPT ![p] = Stage("stat")]
    /\ failed' = failed \ {p}
    /\ UNCHANGED <<disk, writes, phase, listed, seen, base, stored, index, torn>>

Is(p, contents) == disk[p].exists /\ disk[p].content \in contents

\* The job ends without storing the file as it is.
Fail(p) == job' = [job EXCEPT ![p] = Stage("done")] /\ failed' = failed \cup {p}

\* markSkipped clears the stored hash and keeps the symbols; when the store
\* fails, its error is only logged.
MarkSkipped(p) ==
    /\ job' = [job EXCEPT ![p] = Stage("done")]
    /\ \E hash \in {NoContent, stored[p].hash} : stored' = [stored EXCEPT ![p].hash = hash]
    /\ UNCHANGED failed

\* Size limit.  A stat that fails sees no size.
StatFile(p) ==
    /\ job[p].stage = "stat"
    /\ \/ Is(p, TooBig) /\ MarkSkipped(p)
       \/ job' = [job EXCEPT ![p] = Stage("hash")] /\ UNCHANGED <<stored, failed>>
    /\ UNCHANGED <<disk, writes, phase, listed, seen, base, pending, current, index, torn>>

\* hash.File wraps the error of os.Open; os.IsNotExist does not look inside.
HashErrors(p) == IF disk[p].exists THEN {"none", "read failed"} ELSE {"wrapped not exist"}
IsNotExist(err) == err = "not exist"

\* Hash and hash gate; a file the store cannot look up is taken for a new one.
\* The callback for deleted files, set by the watch commands, drops the symbols
\* of the stored content (BuildAndRemove).
HashFile(p) ==
    /\ job[p].stage = "hash"
    /\ \E err \in HashErrors(p), existing \in {stored[p].hash, NoContent} :
          LET gone == IsNotExist(err)
              skip == err = "none" /\ existing = disk[p].content
          IN  /\ \/ /\ err = "none" /\ ~skip
                    /\ job' = [job EXCEPT ![p].stage = "lines", ![p].hash = disk[p].content]
                    /\ UNCHANGED failed
                 \/ /\ skip \/ gone
                    /\ job' = [job EXCEPT ![p] = Stage("done")]
                    /\ UNCHANGED failed
                 \/ err # "none" /\ ~gone /\ Fail(p)
              /\ index' = [index EXCEPT ![p] = IF gone /\ phase = "watch" THEN @ \ {stored[p].ir} ELSE @]
    /\ UNCHANGED <<disk, writes, phase, listed, seen, base, pending, current, stored, torn>>

\* Line limit, then the choice of an adapter: without one the file is stored
\* under its hash.  A file that cannot be read has no lines.
CountLines(p) ==
    /\ job[p].stage = "lines"
    /\ \/ Is(p, TooLong) /\ MarkSkipped(p)
       \/ /\ p \notin Plain
          /\ job' = [job EXCEPT ![p].stage = "parse"]
          /\ UNCHANGED <<stored, failed>>
       \/ /\ p \in Plain
          /\ job' = [job EXCEPT ![p] = Stage("done")]
          /\ stored' = [stored EXCEPT ![p].hash = job[p].hash]
          /\ UNCHANGED failed
       \/ p \in Plain /\ Fail(p) /\ UNCHANGED stored
    /\ UNCHANGED <<disk, writes, phase, listed, seen, base, pending, current, index, torn>>

\* plugin.Parse reads the file for itself; an error, which may be a passing one,
\* or no document ends the job.
Parse(p) ==
    /\ job[p].stage = "parse"
    /\ \/ /\ Is(p, Contents \ Unparsable)
          /\ job' = [job EXCEPT ![p].stage = "upsert", ![p].ir = disk[p].content]
          /\ UNCHANGED failed
       \/ Fail(p)
    /\ UNCHANGED <<disk, writes, phase, listed, seen, base, pending, current, stored, index, torn>>

\* Mutant: the hash is taken from the file again when the document is stored.
UpsertRehashed(p) ==
    /\ job[p].stage = "upsert"
    /\ stored' = [stored EXCEPT ![p] = [hash |-> disk[p].content, ir |-> job[p].ir]]
    /\ job' = [job EXCEPT ![p] = IF phase = "watch" THEN [@ EXCEPT !.stage = "index"] ELSE Stage("done")]
    /\ torn' = torn \ {p}
    /\ UNCHANGED <<disk, writes, phase, listed, seen, base, pending, current, index, failed>>

\* What a failing UpsertIR may leave: nothing new, or the new hash with the
\* symbols of before or with a part of the new ones.
HalfStored(p) == {stored[p], [stored[p] EXCEPT !.hash = job[p].hash], [hash |-> job[p].hash, ir |-> NoContent]}

\* store.UpsertIR under the hash read first.  ScanAll has no index callback.
Upsert(p) ==
    /\ job[p].stage = "upsert"
    /\ \/ /\ stored' = [stored EXCEPT ![p] = [hash |-> job[p].hash, ir |-> job[p].ir]]
          /\ job' = [job EXCEPT ![p] = IF phase = "watch" THEN [@ EXCEPT !.stage = "index"] ELSE Stage("done")]
          /\ torn' = torn \ {p}
          /\ UNCHANGED failed
       \/ /\ \E left \in HalfStored(p) :
                /\ stored' = [stored EXCEPT ![p] = left]
                /\ torn' = IF left = stored[p] THEN torn ELSE torn \cup {p}
          /\ Fail(p)
    /\ UNCHANGED <<disk, writes, phase, listed, seen, base, pending, current, index>>

\* onIndex, BuildAndIndex: adds the symbols of the stored content, removes none.
\* Its error is only logged: the file stays stored under its hash.
Index(p) ==
    /\ job[p].stage = "index"
    /\ job' = [job EXCEPT ![p] = Stage("done")]
    /\ \/ index' = [index EXCEPT ![p] = @ \cup {stored[p].ir}] /\ UNCHANGED torn
       \/ torn' = torn \cup {p} /\ UNCHANGED index
    /\ UNCHANGED <<disk, writes, phase, listed, seen, base, pending, current, stored, failed>>

\* ProcessFile returns; its error, if any, goes into a log.
Return(p) ==
    /\ job[p].stage = "done"
    /\ job' = [job EXCEPT ![p] = Stage("idle")]
    /\ IF phase = "watch" THEN Sched!Finish ELSE UNCHANGED <<pending, current>>
    /\ UNCHANGED <<disk, writes, phase, listed, seen, base, stored, index, failed, torn>>

ProcessFile(p) ==
    StatFile(p) \/ HashFile(p) \/ CountLines(p) \/ Parse(p) \/ Upsert(p) \/ Index(p) \/ Return(p)

\* ScanAll returns once all workers are done; the callers only log its error.
\* BuildIndex fills the index, but for the files whose symbols it cannot read
\* or add, and the watcher starts.
StartWatch ==
    /\ phase = "scan"
    /\ listed = {}
    /\ \A p \in Sources : job[p].stage = "idle"
    /\ phase' = "watch"
    /\ \E skipped \in SUBSET {p \in Sources : stored[p].ir # NoContent} :
          /\ index' = [p \in Sources |-> index[p] \cup (IF p \in skipped THEN {} ELSE {stored[p].ir} \ {NoContent})]
          /\ torn' = torn \cup skipped
    /\ UNCHANGED <<disk, writes, listed, seen, base, pending, current, job, stored, failed>>

PipelineNext ==
    \/ StartWatch
    \/ \E p \in Sources :
          \/ Delete(p) \/ \E c \in Contents : Write(p, c)
          \/ Dispatch(p) \/ InitialVisit(p) \/ Visit(p) \/ Handle(p) \/ ProcessFile(p)

\* Polls go on, the scheduler handles what is due (Scheduler.tla) and every
\* step of ProcessFile returns, with or without success.  An event stays behind
\* a handling only if it came in meanwhile, so not every time.  Users need not
\* change anything.
PipelineFairness ==
    /\ WF_pipelineVars(StartWatch)
    /\ \A p \in Sources :
          /\ WF_pipelineVars(Dispatch(p)) /\ WF_pipelineVars(InitialVisit(p)) /\ WF_pipelineVars(Visit(p))
          /\ SF_pipelineVars(Handle(p) /\ p \notin pending')
          /\ WF_pipelineVars(ProcessFile(p))

PipelineSpec == PipelineInit /\ [][PipelineNext]_pipelineVars /\ PipelineFairness

-----------------------------------------------------------------------------
(* Properties *)

\* A file the pipeline takes, changed since the watcher first looked at it.
Watched(p) ==
    /\ disk[p].exists
    /\ disk[p].content \notin TooBig \cup TooLong
    /\ disk[p].content \notin Unparsable \/ p \in Plain
    /\ base[p] # Unseen /\ base[p] # disk[p].mtime

\* The last change of p is on its way: not polled yet, queued, or in the hands
\* of a ProcessFile that will see it or has hashed it.
InFlight(p) ==
    \/ seen[p] # disk[p].mtime
    \/ p \in pending
    \/ job[p].stage \in {"stat", "hash"}
    \/ job[p].stage \in {"lines", "parse", "upsert"} /\ job[p].hash = disk[p].content

NoChangeLost ==
    \A p \in Sources : Watched(p) => stored[p].hash = disk[p].content \/ InFlight(p) \/ p \in failed

\* Types, and no change is lost between poll, queue, hash gate and parser: a
\* file whose stored hash is not that of its content has its change on its way,
\* even if it changed while it was queued, hashed, parsed or stored, or the
\* content it has was handled and the disk, the adapter or the store failed.
PipelineSound == PipelineTypeOK /\ NoChangeLost

HashCatchesUp == \A p \in Sources : <>[](Watched(p) /\ p \notin failed => stored[p].hash = disk[p].content)

\* ProcessFile is documented to run the deletion callback for a file that does
\* not exist: its symbols leave the index.
DeletedLeavesIndex ==
    [][\A p \in Sources :
          phase = "watch" /\ job[p].stage = "hash" /\ job'[p].stage = "done" /\ ~disk[p].exists =>
              stored[p].ir \notin index'[p]]_pipelineVars
=============================================================================
