------------------------------ MODULE CodeStore ------------------------------
(***************************************************************************)
(* What the Store interface (internal/store/store.go) promises its users,  *)
(* seen through paths only: identifiers, orphaned rows and the locking of  *)
(* an implementation are invisible here.  A path is absent, or it is being *)
(* updated by an UpsertIR that has started and not returned, or it shows   *)
(* the content of the last documents written for it.  FileStore.tla is     *)
(* shown to implement this module.                                         *)
(***************************************************************************)
EXTENDS IRDocuments

VARIABLE table \* what a reader that waits for UpsertIR to return can see

\* The stored content, or the empty content for a path that has none yet.
Known(p) == IF table[p] = Absent THEN Stored(NoHash, {}, {}, {}, {}) ELSE table[p]

Settled(p) == table[p].state # "updating"

-----------------------------------------------------------------------------
Init == table = [p \in Paths |-> Absent]

BeginUpsertIR(d) ==
    /\ Settled(d.path)
    /\ table' = [table EXCEPT ![d.path] = Updating(d, Known(d.path).imports)]

FinishUpsertIR(p) ==
    /\ ~Settled(p)
    /\ table' = [table EXCEPT ![p] = DocContent(@.doc, @.imports)]

\* A document of a batch goes in at once.  Unlike UpsertIR, and unlike what the
\* comments of BulkUpsert say (FileStore!BatchesLikeUpsertIR), it leaves the
\* calls of the previous content when it has none of its own.
BulkUpsert(d) ==
    /\ Settled(d.path)
    /\ LET old == Known(d.path)
       IN  table' = [table EXCEPT ![d.path] =
               Stored(d.hash, d.classes, ClassMethods(d),
                      IF d.calls = {} THEN old.calls ELSE d.calls,
                      KeepImports(d, old.imports))]

\* Only the hash changes: no adapter for the file, or the file is over a limit.
Record(p, h) ==
    /\ Settled(p)
    /\ table' = [table EXCEPT ![p] = [Known(p) EXCEPT !.hash = h]]

DeleteFile(p) ==
    /\ Settled(p)
    /\ table' = [table EXCEPT ![p] = Absent]

Next ==
    \/ \E d \in Docs : BeginUpsertIR(d) \/ BulkUpsert(d)
    \/ \E p \in Paths :
          \/ FinishUpsertIR(p)
          \/ DeleteFile(p)
          \/ \E h \in Hashes \cup {NoHash} : Record(p, h)

Spec == Init /\ [][Next]_table
=============================================================================
