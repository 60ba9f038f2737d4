--------------------------- MODULE StoreSessions ---------------------------
(***************************************************************************)
(* FileStore from one session to the next: the directory's lock            *)
(* (internal/lock), the index file that Open reads and Close writes, and a *)
(* scan or a watch in between, which may be cancelled or killed.  ScanAll  *)
(* and the watcher's stop function do not wait for their goroutines, so a  *)
(* goroutine may be inside an UpsertIR when Close saves, and write on into *)
(* a store that is closed.                                                 *)
(*                                                                         *)
(* A version stands for the content of a file, its hash and its symbols; a *)
(* row has the version of its hash and that of its symbols.  The steps of  *)
(* ProcessFile and of UpsertIR are those of WatchPipeline and FileStore;   *)
(* here an UpsertIR is two steps, the file's record and the rest.          *)
(***************************************************************************)
EXTENDS Naturals, FiniteSets

CONSTANTS
    Procs,        \* processes, or instances of one process
    Files,        \* paths of the repository
    MaxEdits,     \* bound on the changes of the repository
    MaxSessions,  \* bound on the sessions
    Nobody, Unreadable

ASSUME SessionsAssumption ==
    MaxEdits \in Nat /\ MaxSessions \in Nat /\ Nobody \notin Procs

VARIABLES
    repo,      \* path -> version of the file
    saved,     \* the index file
    holder,    \* who holds the directory
    left,      \* on Windows, where the lock is a file: has its owner died?
    windows,
    proc,      \* process -> where it is, its tables, the paths to scan, what the scan began with
    job,       \* process -> path -> the version its UpsertIR stores, and how far it is
    cut,       \* paths in hand when a scan or a watch was cancelled (history)
    sessions

Versions == 0 .. MaxEdits + 1
Unknown == [hash |-> 0, symbols |-> 0]
Tables == [Files -> [hash : Versions, symbols : Versions]]
Empty == [p \in Files |-> Unknown]
NoJob == [version |-> 0, at |-> "none"]
Down == [at |-> "down", table |-> Empty, todo |-> {}, began |-> [p \in Files |-> 0]]

SessionsTypeOK ==
    /\ repo \in [Files -> Versions \ {0}]
    /\ saved \in (Tables \cup {Unreadable})
    /\ holder \in (Procs \cup {Nobody}) /\ left \in BOOLEAN /\ windows \in BOOLEAN
    /\ proc \in [Procs -> [at : {"down", "scan", "watch", "closing", "saved", "closed"}, table : Tables,
                           todo : SUBSET Files, began : [Files -> Versions]]]
    /\ job \in [Procs -> [Files -> [version : Versions, at : {"none", "record", "symbols"}]]]
    /\ cut \subseteq Files /\ sessions \in 0 .. MaxSessions

SessionsInit ==
    /\ repo = [p \in Files |-> 1] /\ saved = Empty
    /\ holder = Nobody /\ left = FALSE /\ windows \in BOOLEAN
    /\ proc = [i \in Procs |-> Down] /\ job = [i \in Procs |-> [p \in Files |-> NoJob]]
    /\ cut = {} /\ sessions = 0

UnderWay(i) == {p \in Files : job[i][p].at # "none"}

-----------------------------------------------------------------------------
(* The directory                                                           *)

\* flock, or a file that only one process can create: at once or not at all.
Acquire(i) == holder = Nobody /\ holder' = i
Release(i) == holder' = IF holder = i THEN Nobody ELSE holder

\* loadFromDisk: Open ignores its error.
Loaded == IF saved = Unreadable THEN Empty ELSE saved

Open(i) ==
    /\ proc[i].at = "down" /\ sessions < MaxSessions
    /\ Acquire(i)
    /\ proc' = [proc EXCEPT ![i] = [at |-> "scan", table |-> Loaded, todo |-> Files, began |-> repo]]
    /\ sessions' = sessions + 1
    /\ UNCHANGED <<repo, saved, left, windows, job, cut>>

\* Mutant: the lock is released before the tables are saved.
CloseUnlocked(i) ==
    \/ /\ proc[i].at = "closing"
       /\ Release(i)
       /\ proc' = [proc EXCEPT ![i].at = "saved"]
       /\ UNCHANGED <<repo, saved, left, windows, job, cut, sessions>>
    \/ /\ proc[i].at = "saved"
       /\ saved' = proc[i].table
       /\ proc' = [proc EXCEPT ![i].at = "closed"]
       /\ UNCHANGED <<repo, holder, left, windows, job, cut, sessions>>

\* Close saves first, by a file of another name that is renamed: the index
\* file is the old one or the new one.  When that fails the lock is released
\* all the same.
Close(i) ==
    \/ /\ proc[i].at = "closing"
       /\ saved' \in {saved, proc[i].table}
       /\ proc' = [proc EXCEPT ![i].at = "saved"]
       /\ UNCHANGED <<repo, holder, left, windows, job, cut, sessions>>
    \/ /\ proc[i].at = "saved"
       /\ Release(i)
       /\ proc' = [proc EXCEPT ![i].at = "closed"]
       /\ UNCHANGED <<repo, saved, left, windows, job, cut, sessions>>

-----------------------------------------------------------------------------
(* A scan, then a watch                                                    *)

\* The hash gate of ProcessFile
Gate(i, p) == proc[i].table[p].hash = repo[p]

\* ScanAll hands a listed file to a goroutine.
Dispatch(i, p) ==
    /\ proc[i].at = "scan" /\ p \in proc[i].todo
    /\ proc' = [proc EXCEPT ![i].todo = @ \ {p}]
    /\ job' = IF Gate(i, p) THEN job ELSE [job EXCEPT ![i][p] = [version |-> repo[p], at |-> "record"]]
    /\ UNCHANGED <<repo, saved, holder, left, windows, cut, sessions>>

\* The scheduler hands one changed file at a time to the watcher's handler.
HandleChange(i, p) ==
    /\ proc[i].at = "watch" /\ UnderWay(i) = {} /\ ~Gate(i, p)
    /\ job' = [job EXCEPT ![i][p] = [version |-> repo[p], at |-> "record"]]
    /\ UNCHANGED <<repo, saved, holder, left, windows, proc, cut, sessions>>

\* UpsertIR, also of a goroutine that nobody waits for any more.
StoreRecord(i, p) ==
    /\ job[i][p].at = "record"
    /\ proc' = [proc EXCEPT ![i].table[p].hash = job[i][p].version]
    /\ job' = [job EXCEPT ![i][p].at = "symbols"]
    /\ UNCHANGED <<repo, saved, holder, left, windows, cut, sessions>>

StoreSymbols(i, p) ==
    /\ job[i][p].at = "symbols"
    /\ proc' = [proc EXCEPT ![i].table[p].symbols = job[i][p].version]
    /\ job' = [job EXCEPT ![i][p] = NoJob]
    /\ UNCHANGED <<repo, saved, holder, left, windows, cut, sessions>>

\* ScanAll waits for every goroutine.
Scanned(i) == proc[i].at = "scan" /\ proc[i].todo = {} /\ UnderWay(i) = {}

\* After the scan the command ends, or the watcher starts.
ScanReturns(i) ==
    /\ Scanned(i)
    /\ \E to \in {"closing", "watch"} : proc' = [proc EXCEPT ![i].at = to]
    /\ UNCHANGED <<repo, saved, holder, left, windows, job, cut, sessions>>

\* A signal, or a reload that replaces the tenant: what is in hand goes on.
\* ScanAll looks for it before each file, and not while it waits at its end.
Cancel(i) ==
    /\ proc[i].at = "watch" \/ (proc[i].at = "scan" /\ proc[i].todo # {})
    /\ proc' = [proc EXCEPT ![i].at = "closing"]
    /\ cut' = cut \cup UnderWay(i)
    /\ UNCHANGED <<repo, saved, holder, left, windows, job, sessions>>

\* The process ends, or is killed: its memory is gone, and a lock by flock too.
Exit(i) ==
    /\ proc[i].at # "down"
    /\ proc' = [proc EXCEPT ![i] = Down]
    /\ job' = [job EXCEPT ![i] = [p \in Files |-> NoJob]]
    /\ IF windows THEN left' = (left \/ holder = i) /\ UNCHANGED holder
                  ELSE Release(i) /\ UNCHANGED left
    /\ UNCHANGED <<repo, saved, windows, cut, sessions>>

-----------------------------------------------------------------------------
(* The world                                                               *)

ChangeFile(p) ==
    /\ repo[p] <= MaxEdits
    /\ repo' = [repo EXCEPT ![p] = @ + 1]
    /\ UNCHANGED <<saved, holder, left, windows, proc, job, cut, sessions>>

\* "remove stale lock if no writer exists"
RemoveLock ==
    /\ left /\ left' = FALSE /\ holder' = Nobody
    /\ UNCHANGED <<repo, saved, windows, proc, job, cut, sessions>>

\* The index file is damaged, by an editor or a disk.
Damage ==
    /\ saved # Unreadable /\ saved' = Unreadable
    /\ UNCHANGED <<repo, holder, left, windows, proc, job, cut, sessions>>

SessionsNext ==
    \/ \E i \in Procs : Open(i) \/ Close(i) \/ ScanReturns(i) \/ Cancel(i) \/ Exit(i)
    \/ \E i \in Procs, p \in Files : Dispatch(i, p) \/ HandleChange(i, p) \/ StoreRecord(i, p) \/ StoreSymbols(i, p)
    \/ \E p \in Files : ChangeFile(p)
    \/ RemoveLock \/ Damage

sessionsVars == <<repo, saved, holder, left, windows, proc, job, cut, sessions>>
SessionsSpec == SessionsInit /\ [][SessionsNext]_sessionsVars

-----------------------------------------------------------------------------
(* Properties                                                              *)

\* No session overwrites what another has saved by what it read before: for
\* every path the index file goes forward.  (FileStore.Open, Close and the
\* lock; a file that was damaged starts anew.)
SavedForward ==
    [][saved # Unreadable /\ saved' # Unreadable =>
        \A p \in Files : saved[p].hash <= saved'[p].hash]_sessionsVars

\* The hash in the index file is that of its symbols, unless the path was in
\* hand when a scan or a watch was cancelled: ScanAll waits before Close.
WholeUnlessCut ==
    saved # Unreadable => \A p \in Files : saved[p].hash # saved[p].symbols => p \in cut

\* A scan that was not cancelled has every file at the version it had when
\* the scan began, or a later one, whatever earlier sessions lost.
ScanCatchesUp ==
    \A i \in Procs : proc[i].at = "watch" =>
        \A p \in Files : /\ proc[i].table[p].hash >= proc[i].began[p]
                         /\ p \notin cut /\ job[i][p].at = "none" => proc[i].table[p].symbols >= proc[i].began[p]

\* Open, Close and the lock of the file store: the index file never goes back,
\* symbols lag behind their hash only in a file at which a scan was cut off, and
\* a whole scan ends with every other file stored as it is.
SessionsKeepFiles == SavedForward /\ []WholeUnlessCut /\ []ScanCatchesUp
=============================================================================
