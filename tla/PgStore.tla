------------------------------ MODULE PgStore ------------------------------
(***************************************************************************)
(* The PostgreSQL store (internal/store/pg/pg.go): several workers, of one *)
(* process or of several, write one database.  UpsertIR is one transaction *)
(* whose first statement takes the lock on the file's row and keeps it to  *)
(* the end; what a statement deletes and inserts is seen by others after   *)
(* the commit only (READ COMMITTED).  Foreign keys delete what hangs on a  *)
(* deleted row.  BulkUpsert is PgBatch.                                    *)
(*                                                                         *)
(* A row is <<"class", name, n>>, <<"method", class row, name>>,           *)
(* <<"call", call, n>>, <<"member", owner row, name>> for the tables field *)
(* and constant, or <<"tag", class row, tag>>, where n stands for the      *)
(* identifiers that one transaction draws; the file's own row is File.     *)
(***************************************************************************)
EXTENDS Naturals

CONSTANTS
    Workers,
    Paths,
    Docs,        \* documents: path, hash, classes, methods, members, calls
    Tags,
    NoHash,      \* the hash of a file that was skipped
    NoOne,       \* no lock, no document
    MaxTx        \* bound on the transactions

\* A document's hash is that of the file's content it was parsed from.
ASSUME PgAssumption ==
    /\ \A d \in Docs : /\ d.path \in Paths /\ d.hash # NoHash
                       /\ \A m \in d.members : m.of[1] \in {"file", "class", "method"}
    /\ \A d, e \in Docs : d.path = e.path /\ d.hash = e.hash => d = e
    /\ NoOne \notin Workers

VARIABLES
    disk,   \* path -> what is committed: is there a file row, its hash, rows
    lock,   \* path -> the worker whose transaction holds the file's row
    work,   \* worker -> where its UpsertIR is, what it deletes and inserts
    txns,   \* transactions so far
    beside  \* paths on which a batch ran beside another transaction (history)

pg == <<disk, lock, work, txns, beside>>

File == <<"file">>
NoFile == [known |-> FALSE, hash |-> NoHash, rows |-> {}]
Resting == [at |-> "idle", doc |-> NoOne, n |-> 0, gone |-> {}, new |-> {}]

PgInit ==
    /\ disk = [p \in Paths |-> NoFile] /\ lock = [p \in Paths |-> NoOne]
    /\ work = [w \in Workers |-> Resting] /\ txns = 0 /\ beside = {}

-----------------------------------------------------------------------------
(* Statements: from the rows a transaction sees to those it leaves         *)

Of(rows, kind) == {r \in rows : r[1] = kind}

\* REFERENCES ... ON DELETE CASCADE: methods and tags of classes, then members.
Cascade(rows) ==
    LET living == rows \ {r \in Of(rows, "method") \cup Of(rows, "tag") : r[2] \notin rows}
    IN  living \ {r \in Of(living, "member") : r[2] # File /\ r[2] \notin living}

\* upsertClassesTx
PutClasses(rows, d, n) ==
    IF d.classes = {} THEN rows ELSE Cascade(rows \ Of(rows, "class")) \cup {<<"class", c, n>> : c \in d.classes}

\* upsertMethodsTx looks the classes up again by name.
PutMethods(rows, d, n) ==
    IF d.classes = {} THEN rows
    ELSE rows \cup UNION {{<<"method", c, m.name>> : m \in {x \in d.methods : x.class = c[2]}} : c \in Of(rows, "class")}

\* upsertFieldsTx, upsertConstantsTx: the owners that have rows lose the members
\* they had; of a file without constants the old ones stay.  (Two classes of one
\* name are found on the paths of beside alone: the code takes either of them.)
Owner(rows, of) ==
    CASE of[1] = "file"   -> {File}
      [] of[1] = "class"  -> {c \in Of(rows, "class") : c[2] = of[2]}
      [] of[1] = "method" -> {m \in Of(rows, "method") : m[2][2] = of[2] /\ m[3] = of[3]}

PutMembers(rows, d) ==
    LET owned == UNION {{<<"member", o, m.name>> : o \in Owner(rows, m.of)} : m \in d.members}
        owners == {m[2] : m \in owned}
    IN  {r \in rows : r[1] = "member" => r[2] \notin owners} \cup owned

\* upsertCallsTx
PutCalls(rows, d, n) ==
    IF d.calls = {} THEN rows ELSE (rows \ Of(rows, "call")) \cup {<<"call", c, n>> : c \in d.calls}

-----------------------------------------------------------------------------
(* UpsertIR                                                                *)

Path(w) == work[w].doc.path
Seen(w) == (disk[Path(w)].rows \ work[w].gone) \cup work[w].new

\* Statements of w that leave these rows.
Leaves(w, rows, next) ==
    /\ work' = [work EXCEPT ![w].gone = @ \cup (Seen(w) \ rows), ![w].new = (@ \cup (rows \ Seen(w))) \cap rows, ![w].at = next]
    /\ UNCHANGED <<disk, lock, txns, beside>>

\* upsertFileTx: INSERT ... ON CONFLICT DO UPDATE waits for another transaction
\* that has written the row.
Begin(w, d) ==
    /\ work[w].at = "idle" /\ txns < MaxTx
    /\ lock[d.path] = NoOne /\ lock' = [lock EXCEPT ![d.path] = w]
    /\ work' = [work EXCEPT ![w] = [at |-> "classes", doc |-> d, n |-> txns + 1, gone |-> {}, new |-> {}]]
    /\ txns' = txns + 1
    /\ UNCHANGED disk

Classes(w) == work[w].at = "classes" /\ Leaves(w, PutClasses(Seen(w), work[w].doc, work[w].n), "methods")
Methods(w) == work[w].at = "methods" /\ Leaves(w, PutMethods(Seen(w), work[w].doc, work[w].n), "members")
MemberRows(w) == work[w].at = "members" /\ Leaves(w, PutMembers(Seen(w), work[w].doc), "calls")
CallRows(w) == work[w].at = "calls" /\ Leaves(w, PutCalls(Seen(w), work[w].doc, work[w].n), "commit")

Released(w) == [p \in Paths |-> IF lock[p] = w THEN NoOne ELSE lock[p]]

Commit(w) ==
    /\ work[w].at = "commit"
    /\ disk' = [disk EXCEPT ![Path(w)] = [known |-> TRUE, hash |-> work[w].doc.hash, rows |-> Cascade(Seen(w))]]
    /\ lock' = Released(w)
    /\ work' = [work EXCEPT ![w] = Resting]
    /\ UNCHANGED <<txns, beside>>

\* Mutant: the record of the file is not written by the transaction.
RollbackButFile(w) ==
    /\ work[w].at # "idle"
    /\ disk' = [disk EXCEPT ![Path(w)].known = TRUE, ![Path(w)].hash = work[w].doc.hash]
    /\ lock' = Released(w)
    /\ work' = [work EXCEPT ![w] = Resting]
    /\ UNCHANGED <<txns, beside>>

\* defer tx.Rollback: a statement or the commit failed, the context was
\* cancelled, or the process died and the server noticed.
Rollback(w) ==
    /\ work[w].at # "idle"
    /\ lock' = Released(w)
    /\ work' = [work EXCEPT ![w] = Resting]
    /\ UNCHANGED <<disk, txns, beside>>

-----------------------------------------------------------------------------
(* The other writers, one statement or one transaction that meets no other *)

\* UpsertFile for a file without an adapter, MarkParseSkipped for one that is
\* too large: the rows it had stay.
RecordFile(p, h) ==
    /\ lock[p] = NoOne
    /\ disk' = [disk EXCEPT ![p].known = TRUE, ![p].hash = h]
    /\ UNCHANGED <<lock, work, txns, beside>>

DeleteFile(p) ==
    /\ disk[p].known /\ lock[p] = NoOne
    /\ disk' = [disk EXCEPT ![p] = NoFile]
    /\ UNCHANGED <<lock, work, txns, beside>>

\* UpsertTags: inserting waits while a transaction has the class deleted, and
\* fails when it is gone.
UpsertTags(p, c, tags) ==
    /\ c \in Of(disk[p].rows, "class") /\ \A w \in Workers : c \notin work[w].gone
    /\ disk' = [disk EXCEPT ![p].rows = {r \in @ : r[1] = "tag" => r[2] # c} \cup {<<"tag", c, t>> : t \in tags}]
    /\ UNCHANGED <<lock, work, txns, beside>>

PgNext ==
    \/ \E w \in Workers, d \in Docs : Begin(w, d) /\ UNCHANGED beside
    \/ \E w \in Workers : Classes(w) \/ Methods(w) \/ MemberRows(w) \/ CallRows(w) \/ Commit(w) \/ Rollback(w)
    \/ \E p \in Paths : \/ DeleteFile(p)
                        \/ RecordFile(p, NoHash)
                        \/ \E c \in Of(disk[p].rows, "class"), tags \in SUBSET Tags : UpsertTags(p, c, tags)

PgSpec == PgInit /\ [][PgNext]_pg

-----------------------------------------------------------------------------
(* Properties                                                              *)

\* The classes of a path come from one document, and so do its calls, whatever
\* workers of whatever processes have written it.
LayersOfOne ==
    \A p \in Paths \ beside : \A kind \in {"class", "call"} :
        \A r, s \in Of(disk[p].rows, kind) : r[3] = s[3]

\* A hash that is stored tells what is stored: the layers its document has are
\* the document's, so that a scan may leave the file alone.
NamesOf(rows) == {<<c[2], {m[3] : m \in {x \in Of(rows, "method") : x[2] = c}}>> : c \in Of(rows, "class")}

HashTellsContent ==
    \A d \in Docs : d.path \notin beside /\ disk[d.path].known /\ disk[d.path].hash = d.hash =>
        LET rows == disk[d.path].rows
        IN  /\ d.classes # {} => NamesOf(rows) = {<<c, {m.name : m \in {x \in d.methods : x.class = c}}>> : c \in d.classes}
            /\ d.calls # {} => {r[2] : r \in Of(rows, "call")} = d.calls
            /\ \A m \in d.members : \A o \in Owner(rows, m.of) : <<"member", o, m.name>> \in rows

\* Every method, member and tag hangs on a row that is there.
NoOrphans ==
    \A p \in Paths : \A r \in disk[p].rows :
        r[1] \in {"method", "member", "tag"} => r[2] = File \/ r[2] \in disk[p].rows

\* UpsertIR, BulkUpsert and DeleteFile in PostgreSQL: no row outlives the row it
\* hangs from, and a file shows the layers of one document each and a stored hash
\* tells which, whatever transactions of other workers run beside them.  Excepted
\* are layers and hash of the paths in beside: a batch deletes before it takes
\* the lock, and its deletions do not see what another transaction commits later.
PgRowsWhole == LayersOfOne /\ HashTellsContent /\ NoOrphans
=============================================================================
