------------------------------ MODULE PgBatch ------------------------------
(***************************************************************************)
(* BulkUpsert of the PostgreSQL store: one transaction for a sequence of   *)
(* documents, beside the other writers of PgStore.  For each document it   *)
(* deletes the methods, the classes and the calls of the path, and only    *)
(* then writes the file's row, which takes the lock that UpsertIR takes    *)
(* first.  A DELETE picks the rows that are committed when it begins; it   *)
(* waits for a transaction that has deleted one of them, then skips what   *)
(* is gone, and what that transaction has inserted stays.                  *)
(***************************************************************************)
EXTENDS PgStore, Sequences

CONSTANT Batches   \* sequences of documents

ASSUME BatchAssumption == Batches \subseteq Seq(Docs)

VARIABLE bulk   \* worker -> where its BulkUpsert is, what it deletes and inserts

batchVars == <<pg, bulk>>

NoBulk == [at |-> "idle", docs |-> <<>>, n |-> 0, aim |-> {}, touched |-> {},
           gone |-> [p \in Paths |-> {}], new |-> [p \in Paths |-> {}], hash |-> [p \in Paths |-> NoHash]]

BatchInit == PgInit /\ bulk = [w \in Workers |-> NoBulk]

Doc(w) == Head(bulk[w].docs)
At(w) == Doc(w).path
BulkSeen(w, p) == (disk[p].rows \ bulk[w].gone[p]) \cup bulk[w].new[p]

-----------------------------------------------------------------------------
(* Waiting for rows that others have deleted or hung something on          *)

BulkGone(p) == UNION {bulk[v].gone[p] : v \in Workers}

OthersGone(w, p) ==
    UNION {bulk[v].gone[p] : v \in Workers \ {w}} \cup UNION {work[v].gone : v \in {u \in Workers \ {w} : work[u].at # "idle" /\ Path(u) = p}}
OthersNew(w, p) ==
    UNION {bulk[v].new[p] : v \in Workers \ {w}} \cup UNION {work[v].new : v \in {u \in Workers \ {w} : work[u].at # "idle" /\ Path(u) = p}}

\* The rows on which one of rows hangs.
Above(rows) == {r[2] : r \in {x \in rows : x[1] \in {"method", "member", "tag"}}}

\* w may delete some rows and insert others.
Free(w, p, old, new) ==
    /\ old \cap (OthersGone(w, p) \cup Above(OthersNew(w, p))) = {}
    /\ Above(new) \cap OthersGone(w, p) = {}

\* A statement of an UpsertIR waits for a batch in the same way.
NotKept(w) ==
    ((work'[w].gone \ work[w].gone) \cup Above(work'[w].new)) \cap BulkGone(Path(w)) = {}

\* Does another transaction have to do with p?
Company(w, p) == lock[p] \notin {NoOne, w} \/ \E v \in Workers \ {w} : p \in bulk[v].touched

-----------------------------------------------------------------------------
(* BulkUpsert                                                              *)

BeginBatch(w, batch) ==
    /\ work[w].at = "idle" /\ bulk[w].at = "idle" /\ txns < MaxTx
    /\ bulk' = [bulk EXCEPT ![w] = [NoBulk EXCEPT !.at = "method", !.docs = batch, !.n = txns + 1]]
    /\ txns' = txns + 1
    /\ UNCHANGED <<disk, lock, work, beside>>

AfterDelete(kind) == CASE kind = "method" -> "class" [] kind = "class" -> "call" [] kind = "call" -> "file"

\* The rows that are left of its path when w deletes some.
Left(w, rows) == Cascade(BulkSeen(w, At(w)) \ rows)

\* A row of its own that it deletes again is just gone.
Deletes(w, rows, next) ==
    LET p == At(w)
        left == Left(w, rows)
    IN  bulk' = [bulk EXCEPT ![w].at = next, ![w].aim = {}, ![w].touched = @ \cup {p},
                    ![w].gone[p] = @ \cup (disk[p].rows \ left), ![w].new[p] = @ \cap left]

\* DELETE FROM method, class, call: done at once, or after a wait.
Delete(w) ==
    LET p == At(w)
        aim == Of(BulkSeen(w, p), bulk[w].at)
    IN  /\ bulk[w].at \in {"method", "class", "call"}
        /\ IF bulk[w].aim = {} THEN
              IF Free(w, p, BulkSeen(w, p) \ Left(w, aim), {}) THEN Deletes(w, aim, AfterDelete(bulk[w].at))
              ELSE bulk' = [bulk EXCEPT ![w].aim = aim, ![w].touched = @ \cup {p}]
           ELSE /\ Free(w, p, BulkSeen(w, p) \ Left(w, bulk[w].aim), {})
                /\ Deletes(w, bulk[w].aim, AfterDelete(bulk[w].at))
        /\ beside' = beside \cup (IF Company(w, p) THEN {p} ELSE {})
        /\ UNCHANGED <<disk, lock, work, txns>>

\* INSERT ... ON CONFLICT DO UPDATE of the file's row.
WriteFile(w) ==
    /\ bulk[w].at = "file" /\ lock[At(w)] \in {NoOne, w}
    /\ lock' = [lock EXCEPT ![At(w)] = w]
    /\ bulk' = [bulk EXCEPT ![w].at = "rows", ![w].hash[At(w)] = Doc(w).hash]
    /\ UNCHANGED <<disk, work, txns, beside>>

\* Classes, and methods of these classes, are inserted; members and calls as by
\* UpsertIR.  Nobody commits anything on the path meanwhile.
Inserted(rows, d, n) ==
    LET classes == {<<"class", c, n>> : c \in d.classes}
        methods == {<<"method", <<"class", m.class, n>>, m.name>> : m \in {x \in d.methods : x.class \in d.classes}}
    IN  PutCalls(PutMembers(rows \cup classes \cup methods, d), d, n)

WriteRows(w) ==
    LET p == At(w)
        seen == BulkSeen(w, p)
        rows == Inserted(seen, Doc(w), bulk[w].n)
    IN  /\ bulk[w].at = "rows"
        /\ Free(w, p, seen \ rows, rows \ seen)
        /\ bulk' = [bulk EXCEPT ![w].at = IF Len(bulk[w].docs) = 1 THEN "commit" ELSE "method", ![w].docs = Tail(@),
                       ![w].gone[p] = @ \cup (disk[p].rows \ rows), ![w].new[p] = rows \ disk[p].rows]
        /\ UNCHANGED <<disk, lock, work, txns, beside>>

CommitBatch(w) ==
    /\ bulk[w].at = "commit"
    /\ disk' = [p \in Paths |-> IF p \in bulk[w].touched THEN [known |-> TRUE, hash |-> bulk[w].hash[p], rows |-> Cascade(BulkSeen(w, p))] ELSE disk[p]]
    /\ lock' = Released(w)
    /\ bulk' = [bulk EXCEPT ![w] = NoBulk]
    /\ UNCHANGED <<work, txns, beside>>

RollbackBatch(w) ==
    /\ bulk[w].at # "idle"
    /\ lock' = Released(w)
    /\ bulk' = [bulk EXCEPT ![w] = NoBulk]
    /\ UNCHANGED <<disk, work, txns, beside>>

-----------------------------------------------------------------------------
(* The other writers, which wait for the rows a batch has deleted          *)

Statements(w) == (Classes(w) \/ Methods(w) \/ MemberRows(w) \/ CallRows(w)) /\ NotKept(w)

UpsertBeside(w) ==
    /\ bulk[w].at = "idle" /\ UNCHANGED bulk
    /\ \/ \E d \in Docs : /\ Begin(w, d)
                          /\ beside' = beside \cup (IF Company(w, d.path) THEN {d.path} ELSE {})
       \/ Statements(w) \/ Commit(w) \/ Rollback(w)

OthersBeside(p) ==
    /\ UNCHANGED bulk
    /\ \/ BulkGone(p) = {} /\ DeleteFile(p)
       \/ RecordFile(p, NoHash)
       \/ \E c \in Of(disk[p].rows, "class") \ BulkGone(p), tags \in SUBSET Tags : UpsertTags(p, c, tags)

PgBatchNext ==
    \/ \E w \in Workers : UpsertBeside(w) \/ (\E batch \in Batches : BeginBatch(w, batch))
                           \/ Delete(w) \/ WriteFile(w) \/ WriteRows(w) \/ CommitBatch(w) \/ RollbackBatch(w)
    \/ \E p \in Paths : OthersBeside(p)

-----------------------------------------------------------------------------
(* Properties                                                              *)

\* "Full replacement of the file: first clear the old methods, classes and
\* calls" (pg.go:977): what a batch leaves on a path it has committed is its own,
\* of the other writers' classes and calls nothing is left.
Replaces(w, p) ==
    bulk[w].at = "commit" /\ p \in bulk[w].touched /\ disk'[p] # disk[p] =>
        \A kind \in {"class", "call"} : \A r \in Of(disk'[p].rows, kind) : r[3] = bulk[w].n

BatchReplacesFile == [][\A w \in Workers, p \in Paths : bulk'[w] # bulk[w] => Replaces(w, p)]_batchVars
=============================================================================
