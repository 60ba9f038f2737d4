----------------------------- MODULE SqliteStore -----------------------------
(***************************************************************************)
(* The SQLite store (internal/store/sqlite/sqlite.go): a database that     *)
(* survives the process, and every operation that writes it, short of the  *)
(* tags.  One mutex serialises the operations of the process.  UpsertIR    *)
(* commits its file record, its classes, the methods of each class, its    *)
(* calls and its imports one after the other; a statement that fails or a  *)
(* process that dies in between leaves what is committed.  BulkUpsert and  *)
(* DeleteFile are one transaction.                                         *)
(*                                                                         *)
(* The database is one record; an operator below that takes a database and *)
(* returns one stands for the statements of one transaction.               *)
(***************************************************************************)
EXTENDS IRDocuments

CONSTANTS
    Batches, \* the batches BulkUpsert is called with
    NoFile,  \* a path without a file record
    NoDoc,   \* no document in hand
    NoTx,    \* no transaction open
    MaxID    \* bound: no operation starts once MaxID identifiers are used

VARIABLES
    db,   \* what is committed
    up,   \* the UpsertIR that holds the mutex
    tx,   \* the database as the open transaction of a BulkUpsert sees it
    bulk  \* rest of its batch

vars == <<db, up, tx, bulk>>

ID == Nat \ {0}
FileRecord == [id : ID, hash : Hashes \cup {NoHash}, imports : SUBSET Imports]
ClassRecord == [id : ID, file : ID, name : ClassNames]

\* lastFile and lastClass are the AUTOINCREMENT counters (sqlite_sequence).
\* torn is not in the database: it marks the paths whose last UpsertIR stopped
\* between two commits.
Database ==
    [files : [Paths -> FileRecord \cup {NoFile}],
     classes : SUBSET ClassRecord,
     methods : SUBSET [class : ID, name : MethodNames],
     calls : SUBSET [file : ID, call : Calls],
     lastFile : Nat, lastClass : Nat,
     torn : SUBSET Paths]

Upsert == [stage : {"classes", "methods", "imports"},
           doc : Docs, file : ID, groups : SUBSET ClassRecord]

Idle == [stage |-> "idle", doc |-> NoDoc, file |-> 0, groups |-> {}]

ASSUME SqliteStoreAssumption ==
    /\ NoFile \notin FileRecord
    /\ NoDoc \notin Docs
    /\ NoTx \notin Database
    /\ Batches \subseteq Seq(Docs)
    /\ MaxID \in Nat

TypeOK ==
    /\ db \in Database
    /\ up \in Upsert \cup {Idle}
    /\ tx \in Database \cup {NoTx}
    /\ bulk \in Seq(Docs)

-----------------------------------------------------------------------------
(* Statements *)

ClassesOf(x, f) == {c \in x.classes : c.file = f}
MethodsOf(x, c) == {m \in x.methods : m.class = c}
CallsOf(x, f) == {k \in x.calls : k.file = f}

\* Mutant: INTEGER PRIMARY KEY without AUTOINCREMENT, an identifier is one more
\* than the largest in the table.
FreshIDsReused(x, S) ==
    LET top == CHOOSE i \in 0 .. x.lastClass :
                  (\A c \in x.classes : c.id <= i) /\ (i = 0 \/ \E c \in x.classes : c.id = i)
    IN  {num \in [S -> (top + 1) .. (top + Cardinality(S))] :
            \A m, n \in S : num[m] = num[n] => m = n}

\* Ways to number the new rows of S; the order of a list does not matter here.
FreshIDs(x, S) ==
    {num \in [S -> (x.lastClass + 1) .. (x.lastClass + Cardinality(S))] :
        \A m, n \in S : num[m] = num[n] => m = n}

\* INSERT INTO file ... ON CONFLICT DO UPDATE: upsertFileLocked, UpsertFile and
\* MarkParseSkipped.
PutFile(x, p, h) ==
    IF x.files[p] = NoFile
    THEN [x EXCEPT !.files[p] = [id |-> x.lastFile + 1, hash |-> h, imports |-> {}],
                   !.lastFile = @ + 1]
    ELSE [x EXCEPT !.files[p].hash = h]

\* DELETE FROM class, then one INSERT per class: the methods of the deleted
\* classes stay in their table.
PutClasses(x, f, num) ==
    [x EXCEPT !.classes = (@ \ ClassesOf(x, f)) \cup
                          {[id |-> num[n], file |-> f, name |-> n] : n \in DOMAIN num},
              !.lastClass = @ + Cardinality(DOMAIN num)]

GroupOf(d, n) == {m.name : m \in {g \in d.methods : g.class = n}}

PutMethods(x, c, d) ==
    [x EXCEPT !.methods = (@ \ MethodsOf(x, c.id)) \cup [class : {c.id}, name : GroupOf(d, c.name)]]

PutCalls(x, f, d) ==
    [x EXCEPT !.calls = (@ \ CallsOf(x, f)) \cup [file : {f}, call : d.calls]]

PutImports(x, p, d) ==
    IF d.imports = {} \/ x.files[p] = NoFile THEN x ELSE [x EXCEPT !.files[p].imports = d.imports]

\* Methods of a batch document go to the classes just numbered.
BulkMethodRows(d, num) ==
    {[class |-> num[m.class], name |-> m.name] : m \in {g \in d.methods : g.class \in DOMAIN num}}

\* The new methods of a batch document: the DELETE in front of them finds the
\* classes that are in the table by now.
PutBulkMethods(x, f, d, num) ==
    LET gone == {c.id : c \in ClassesOf(x, f)}
    IN  [x EXCEPT !.methods = {m \in @ : m.class \notin gone} \cup BulkMethodRows(d, num)]

Untorn(x, p) == [x EXCEPT !.torn = @ \ {p}]

-----------------------------------------------------------------------------
Empty ==
    [files |-> [p \in Paths |-> NoFile], classes |-> {}, methods |-> {}, calls |-> {},
     lastFile |-> 0, lastClass |-> 0, torn |-> {}]

Init ==
    /\ db = Empty
    /\ up = Idle
    /\ tx = NoTx
    /\ bulk = <<>>

\* The mutex is free, and the bound of the model is not reached.
Free == up = Idle /\ tx = NoTx
Bounded == db.lastFile + db.lastClass <= MaxID

-----------------------------------------------------------------------------
(* UpsertIR, commit by commit *)

\* The scanner calls it for a file whose hash is not the stored one.
UpsertFile(d) ==
    /\ Free
    /\ Bounded
    /\ db.files[d.path] # NoFile => db.files[d.path].hash # d.hash
    /\ db' = PutFile(db, d.path, d.hash)
    /\ up' = [stage |-> "classes", doc |-> d, file |-> db'.files[d.path].id, groups |-> {}]
    /\ UNCHANGED <<tx, bulk>>

\* With the class identifiers read back, the methods are grouped.
UpsertClasses ==
    /\ up.stage = "classes"
    /\ \E num \in FreshIDs(db, up.doc.classes) : db' = PutClasses(db, up.file, num)
    /\ up' = [up EXCEPT !.stage = "methods",
                        !.groups = {c \in ClassesOf(db', up.file) : GroupOf(up.doc, c.name) # {}}]
    /\ UNCHANGED <<tx, bulk>>

UpsertMethods(c) ==
    /\ up.stage = "methods"
    /\ c \in up.groups
    /\ db' = PutMethods(db, c, up.doc)
    /\ up' = [up EXCEPT !.groups = @ \ {c}]
    /\ UNCHANGED <<tx, bulk>>

UpsertCalls ==
    /\ up.stage = "methods"
    /\ up.groups = {}
    /\ db' = PutCalls(db, up.file, up.doc)
    /\ up' = [up EXCEPT !.stage = "imports"]
    /\ UNCHANGED <<tx, bulk>>

SaveImports ==
    /\ up.stage = "imports"
    /\ db' = Untorn(PutImports(db, up.doc.path, up.doc), up.doc.path)
    /\ up' = Idle
    /\ UNCHANGED <<tx, bulk>>

\* A statement fails and UpsertIR returns its error, or the process dies and
\* the next one opens the file: what is committed stays.
Interrupt ==
    /\ up # Idle
    /\ db' = [db EXCEPT !.torn = @ \cup {up.doc.path}]
    /\ up' = Idle
    /\ UNCHANGED <<tx, bulk>>

-----------------------------------------------------------------------------
(* BulkUpsert *)

BeginBulkUpsert(batch) ==
    /\ Free
    /\ Bounded
    /\ batch # <<>>
    /\ tx' = db
    /\ bulk' = batch
    /\ UNCHANGED <<db, up>>

\* One document: what it has nothing for keeps the rows of the previous one.
AfterDocument(x, d, num) ==
    LET filed   == PutFile(x, d.path, d.hash)
        f       == filed.files[d.path].id
        classed == IF d.classes = {} THEN filed ELSE PutClasses(filed, f, num)
        method  == IF d.methods = {} THEN classed ELSE PutBulkMethods(classed, f, d, num)
        called  == IF d.calls = {} THEN method ELSE PutCalls(method, f, d)
        saved   == PutImports(called, d.path, d)
    IN  IF d.classes # {} /\ d.calls # {} THEN Untorn(saved, d.path) ELSE saved

BulkUpsertNext ==
    /\ bulk # <<>>
    /\ \E num \in FreshIDs(tx, Head(bulk).classes) : tx' = AfterDocument(tx, Head(bulk), num)
    /\ bulk' = Tail(bulk)
    /\ UNCHANGED <<db, up>>

Commit ==
    /\ tx # NoTx
    /\ bulk = <<>>
    /\ db' = tx
    /\ tx' = NoTx
    /\ UNCHANGED <<up, bulk>>

\* Mutant: what the statements of the batch wrote so far is kept.
RollbackNothing ==
    /\ tx # NoTx
    /\ db' = tx
    /\ tx' = NoTx
    /\ bulk' = <<>>
    /\ UNCHANGED up

\* A statement of the batch or the commit fails, or the process dies.
Rollback ==
    /\ tx # NoTx
    /\ tx' = NoTx
    /\ bulk' = <<>>
    /\ UNCHANGED <<db, up>>

-----------------------------------------------------------------------------
(* The other writers *)

\* A path no adapter parses gets its hash, an oversized file an empty one.
RecordFile(p, h) ==
    /\ Free
    /\ Bounded
    /\ h = NoHash \/ \A d \in Docs : d.path # p
    /\ db' = PutFile(db, p, h)
    /\ UNCHANGED <<up, tx, bulk>>

DeleteFile(p) ==
    /\ Free
    /\ db.files[p] # NoFile
    /\ LET f    == db.files[p].id
           gone == {c.id : c \in ClassesOf(db, f)}
       IN  db' = [Untorn(db, p) EXCEPT !.files[p] = NoFile,
                                       !.classes = @ \ ClassesOf(db, f),
                                       !.methods = {m \in @ : m.class \notin gone},
                                       !.calls = @ \ CallsOf(db, f)]
    /\ UNCHANGED <<up, tx, bulk>>

Next ==
    \/ \E d \in Docs : UpsertFile(d)
    \/ UpsertClasses
    \/ \E c \in up.groups : UpsertMethods(c)
    \/ UpsertCalls
    \/ SaveImports
    \/ Interrupt
    \/ \E b \in Batches : BeginBulkUpsert(b)
    \/ BulkUpsertNext
    \/ Commit
    \/ Rollback
    \/ \E p \in Paths : DeleteFile(p) \/ \E h \in Hashes \cup {NoHash} : RecordFile(p, h)

Spec == Init /\ [][Next]_vars

-----------------------------------------------------------------------------
(* What a reader sees of a path, getter by getter *)

Classes(x, f) == {c.name : c \in ClassesOf(x, f)}
NamesOf(x, c) == {m.name : m \in MethodsOf(x, c.id)}
Methods(x, f) == UNION {[class : {c.name}, name : NamesOf(x, c)] : c \in ClassesOf(x, f)}
Calling(x, f) == {k.call : k \in CallsOf(x, f)}

\* The classes of file f are those of d, each with all its methods or none yet.
OneVersion(x, f, d) ==
    /\ Classes(x, f) = d.classes
    /\ \A c \in ClassesOf(x, f) : NamesOf(x, c) \in {{}, GroupOf(d, c.name)}

Versions(p) == {d \in Docs : d.path = p}

WholeFile(x, p, f) ==
    /\ ClassesOf(x, f) = {} \/ \E d \in Versions(p) : OneVersion(x, f, d)
    /\ CallsOf(x, f) = {} \/ \E d \in Versions(p) : Calling(x, f) = d.calls

LayersWhole == \A p \in Paths : db.files[p] # NoFile => WholeFile(db, p, db.files[p].id)

\* Types, and the classes a file shows come from one version of it, all of them, and so
\* do the methods of each, all of them or none yet; its calls come from one
\* version too.  No interrupted UpsertIR and no rolled back batch makes rows of
\* different versions, or of different files, pass for one, although methods
\* of deleted classes stay in their table (sqlite.go: upsertClassesLocked).
RowsSound == TypeOK /\ LayersWhole

\* The store is documented to be consistent across sessions: when nothing is
\* under way, a path whose record has the hash of a version shows that version.
SessionsConsistent ==
    Free => \A d \in Docs :
        LET r == db.files[d.path]
        IN  r # NoFile /\ r.hash = d.hash =>
                /\ Classes(db, r.id) = d.classes
                /\ Methods(db, r.id) = ClassMethods(d)
                /\ Calling(db, r.id) = d.calls

-----------------------------------------------------------------------------
(* What a path shows of a database, and of the store *)

Shown(x, p) ==
    LET r == x.files[p]
    IN  IF r = NoFile THEN Absent
        ELSE IF p \in x.torn THEN [state |-> "torn", imports |-> r.imports]
        ELSE Stored(r.hash, Classes(x, r.id), Methods(x, r.id), Calling(x, r.id), r.imports)

Seen(p) ==
    IF up # Idle /\ up.doc.path = p THEN Updating(up.doc, db.files[p].imports)
    ELSE Shown(db, p)

Durable == INSTANCE DurableStore WITH table <- [p \in Paths |-> Seen(p)]

\* Whatever fails or dies in between, a path shows its last whole document
\* unless its own last UpsertIR was the one cut short, a batch shows as a whole
\* or not at all, and the next UpsertIR mends a torn path (sqlite.go: UpsertIR,
\* BulkUpsert).
ImplementsDurableStore == Durable!Spec

\* BulkUpsert is documented to mean what UpsertIR means for each of its files:
\* inside its transaction, the rows of a document that is in are its whole content,
\* also where an UpsertIR was cut short before.
BatchesLikeUpsertIR ==
    [][\A p \in Paths :
          tx # NoTx /\ bulk # <<>> /\ bulk' = Tail(bulk) /\ tx' # NoTx /\ Head(bulk).path = p =>
              LET imports == IF tx.files[p] = NoFile THEN {} ELSE tx.files[p].imports
              IN  Shown(Untorn(tx', p), p) = DocContent(Head(bulk), imports)]_vars
=============================================================================
