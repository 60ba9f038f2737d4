--------------------------- MODULE MCWatchPipeline ---------------------------
(* Contents for WatchPipeline: a and b are ordinary, big is over both limits  *)
(* and bad does not parse; and a history variable.                           *)
EXTENDS WatchPipeline

CONSTANTS a, b, big, bad

\* Any content may follow any other, the same one included (touch), if one of
\* them is ordinary.
OrdinaryEdits == {e \in Contents \X Contents : e[1] \in {a, b} \/ e[2] \in {a, b}}

VARIABLE
    past \* what every path with an adapter has contained, {} once something came back

Recorded(p) ==
    IF past[p] = {} \/ disk'[p].content \in past[p] THEN {} ELSE past[p] \cup {disk'[p].content}

\* The content of a missing file is never read, and without an adapter only the
\* limits matter: one of the alike is enough at the start.
MCInit ==
    /\ PipelineInit
    /\ \A p \in Sources : ~disk[p].exists => disk[p].content = a
    /\ \A p \in Plain : disk[p].content \in {a, big}
    /\ past = [p \in Sources \ Plain |-> {disk[p].content}]

MCNext ==
    /\ PipelineNext
    /\ past' = [p \in Sources \ Plain |-> IF disk'[p].mtime = disk[p].mtime THEN past[p] ELSE Recorded(p)]

MCSpec == MCInit /\ [][MCNext]_<<pipelineVars, past>> /\ PipelineFairness

SymbolsCatchUp ==
    \A p \in Sources \ Plain :
        <>[](Watched(p) /\ past[p] # {} /\ p \notin failed \cup torn =>
                stored[p].ir = disk[p].content /\ disk[p].content \in index[p])

\* When users stop changing files, the stored hash ends up right unless the last
\* handling failed; and if no edit of a file brought an earlier content back and
\* no write of its symbols failed, its stored symbols and the index do too,
\* although hash and symbols are read at different times.
ChangesCatchUp == HashCatchesUp /\ SymbolsCatchUp
=============================================================================
