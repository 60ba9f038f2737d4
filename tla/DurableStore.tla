---------------------------- MODULE DurableStore ----------------------------
(***************************************************************************)
(* What the SQLite store (internal/store/sqlite) promises its users across *)
(* failed statements, killed processes and restarts, seen through paths    *)
(* only.  A path is absent, being updated by an UpsertIR, torn because the *)
(* last UpsertIR stopped half way, or it shows a settled content.  Of a    *)
(* torn path only the imports are known.  SqliteStore.tla is shown to      *)
(* implement this module.                                                  *)
(***************************************************************************)
EXTENDS IRDocuments

CONSTANT Batches \* the batches BulkUpsert is called with

VARIABLE table

Torn(i) == [state |-> "torn", imports |-> i]

Busy(p) == table[p].state = "updating"
Kept(c) == IF c = Absent THEN {} ELSE c.imports

\* A document of a batch replaces only the layers it has something for, so it
\* mends a torn path when it has both classes and calls.  The comment of
\* BulkUpsert says otherwise (SqliteStore!BatchesLikeUpsertIR).
Mends(d) == d.classes # {} /\ d.calls # {}

BulkContent(c, d) ==
    IF c.state = "torn" /\ ~Mends(d) THEN Torn(KeepImports(d, c.imports))
    ELSE LET old == IF c.state = "stored" THEN c ELSE Stored(NoHash, {}, {}, {}, Kept(c))
         IN  Stored(d.hash,
                IF d.classes = {} THEN old.classes ELSE d.classes,
                IF d.classes = {} /\ d.methods = {} THEN old.methods ELSE ClassMethods(d),
                IF d.calls = {} THEN old.calls ELSE d.calls,
                KeepImports(d, old.imports))

AfterDocument(t, d) == [t EXCEPT ![d.path] = BulkContent(@, d)]

\* The table t with the first n documents of a batch in it.
AfterDocuments(n, t, batch) ==
    LET after[i \in Nat] == IF i = 0 THEN t ELSE AfterDocument(after[i - 1], batch[i])
    IN  after[n]

-----------------------------------------------------------------------------
Init == table = [p \in Paths |-> Absent]

BeginUpsertIR(d) ==
    /\ ~Busy(d.path)
    /\ table' = [table EXCEPT ![d.path] = Updating(d, Kept(@))]

FinishUpsertIR(p) ==
    /\ Busy(p)
    /\ table' = [table EXCEPT ![p] = DocContent(@.doc, @.imports)]

Tear(p) ==
    /\ Busy(p)
    /\ table' = [table EXCEPT ![p] = Torn(@.imports)]

\* A batch goes in as a whole or not at all.
BulkUpsert(batch) ==
    /\ \A i \in DOMAIN batch : ~Busy(batch[i].path)
    /\ table' = AfterDocuments(Len(batch), table, batch)

\* A new path gets a record of its hash, a settled one a new hash; nothing
\* is seen of the hash of a torn path.
Record(p, h) ==
    \/ /\ table[p] = Absent
       /\ table' = [table EXCEPT ![p] = Stored(h, {}, {}, {}, {})]
    \/ /\ table[p].state = "stored"
       /\ table' = [table EXCEPT ![p].hash = h]

DeleteFile(p) ==
    /\ ~Busy(p)
    /\ table' = [table EXCEPT ![p] = Absent]

Next ==
    \/ \E d \in Docs : BeginUpsertIR(d)
    \/ \E b \in Batches : BulkUpsert(b)
    \/ \E p \in Paths :
          \/ FinishUpsertIR(p)
          \/ Tear(p)
          \/ DeleteFile(p)
          \/ \E h \in Hashes \cup {NoHash} : Record(p, h)

Spec == Init /\ [][Next]_table
=============================================================================
