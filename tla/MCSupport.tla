----------------------------- MODULE MCSupport -----------------------------
(***************************************************************************)
(* The parts that stand beside the core, each on its own: the PostgreSQL   *)
(* store, the Redis layer, the download of the model, the query cache and  *)
(* the sessions of the file store.  A behaviour is one of one of them, the *)
(* others rest.                                                            *)
(***************************************************************************)
EXTENDS QueryCache, StoreSessions, PgBatch, RedisLayer, Integers, FiniteSets

CONSTANTS v, w, File1

VARIABLES which
VARIABLES served, part, reply, files, filled, at

-----------------------------------------------------------------------------
(* PostgreSQL: documents of one file, one of them without calls, and one   *)
(* batch that has the file twice                                           *)

OnFile == <<"file">>
OnClass(c) == <<"class", c>>
Document(hash, classes, methods, members, calls) ==
    [path |-> File1, hash |-> hash, classes |-> classes, methods |-> methods, members |-> members, calls |-> calls]
DocOne == Document("h1", {"A"}, {[class |-> "A", name |-> "m"]}, {[of |-> OnClass("A"), name |-> "f"], [of |-> <<"method", "A", "m">>, name |-> "p"]}, {"a"})
DocTwo == Document("h2", {"A", "B"}, {[class |-> "A", name |-> "n"]}, {[of |-> OnFile, name |-> "k"]}, {"b"})
DocBare == Document("h3", {"B"}, {}, {[of |-> OnClass("B"), name |-> "f"]}, {})

PgDocs == {DocOne, DocTwo, DocBare}
PgBatches == {<<DocTwo>>, <<DocOne, DocBare>>}

-----------------------------------------------------------------------------
(* Redis: two files, of which one is written twice                         *)

Ir(path, rev, classes, methods, calls) == [path |-> path, rev |-> rev, classes |-> classes, methods |-> methods, calls |-> calls]
IrOne == Ir("one", 1, {"A"}, {"A.m"}, {<<"A.m", "B.n">>})
IrOneLater == Ir("one", 2, {"A"}, {}, {})
IrTwo == Ir("two", 1, {"A"}, {}, {<<"B.n", "A.m">>})

KvIRs == {IrOne, IrOneLater, IrTwo}
KvBatches == {<<IrOne>>, <<IrTwo, IrOneLater>>}
KvLeftovers == {{}, {<<"class", "Old", 1>>}}

-----------------------------------------------------------------------------
(* The model's archive, in three blocks, and what replaces it              *)

Model == INSTANCE ModelDownload WITH Blocks <- 3, Versions <- 2, Checked <- TRUE

-----------------------------------------------------------------------------
modelVars == <<served, part, reply, files, filled, at>>
vars == <<which, batchVars, kv, modelVars, cache, sessionsVars>>

Init ==
    /\ which \in {"pg", "redis", "model", "cache", "store"}
    /\ BatchInit /\ KvInit /\ Model!DownloadInit /\ CacheInit /\ SessionsInit
    /\ which # "redis" => redis = {}
    /\ which # "store" => ~windows

InPg == UNCHANGED <<which, kv, modelVars, cache, sessionsVars>>
InKv == UNCHANGED <<which, batchVars, modelVars, cache, sessionsVars>>
InModel == UNCHANGED <<which, batchVars, kv, cache, sessionsVars>>
InCache == UNCHANGED <<which, batchVars, kv, modelVars, sessionsVars>>
InStore == UNCHANGED <<which, batchVars, kv, modelVars, cache>>

Next ==
    \/ which = "pg" /\ PgBatchNext /\ InPg
    \/ which = "redis" /\ KvNext /\ InKv
    \/ which = "model" /\ Model!DownloadNext /\ InModel
    \/ which = "cache" /\ CacheNext /\ InCache
    \/ which = "store" /\ SessionsNext /\ InStore

\* Fairness: Ensure runs once for each start of the program, and the program
\* is started again.
Spec == Init /\ [][Next]_vars /\ WF_vars(which = "model" /\ Model!DownloadStep /\ InModel)

-----------------------------------------------------------------------------
(* What each part promises                                                 *)

\* ModelDownloader (ModelDownload): only an archive with the checksum is
\* unpacked, what stands at a place of the part file belongs there, and of an
\* archive that stays as it is the download is finished once interruptions cease.
ModelArrives == []Model!VerifiedOnly /\ []Model!PartInOrder /\ (which = "model" => Model!Recovers)
=============================================================================
