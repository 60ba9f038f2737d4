----------------------------- MODULE MCQueries -----------------------------
(***************************************************************************)
(* The SQLite store, and the queries on the call graph of a store.  A      *)
(* behaviour is one of either, the other rests.                            *)
(***************************************************************************)
EXTENDS SqliteStore, ImpactQuery, FiniteSetsExt

-----------------------------------------------------------------------------
(* SQLite: three versions of one file and one of another: classes are      *)
(* renamed, the same method moves, a version has neither classes nor calls *)

CONSTANTS p1, p2, h1, h2, h3, A, B, foo, bar, k1, i1

MethodRow(c, n) == [class |-> c, name |-> n]

V1 == [path |-> p1, hash |-> h1, classes |-> {A}, methods |-> {MethodRow(A, foo)},
       calls |-> {k1}, imports |-> {i1}]
V2 == [path |-> p1, hash |-> h2, classes |-> {A, B}, methods |-> {MethodRow(A, bar)},
       calls |-> {}, imports |-> {}]
V3 == [path |-> p1, hash |-> h3, classes |-> {}, methods |-> {MethodRow(A, bar)},
       calls |-> {}, imports |-> {}]
V4 == [path |-> p2, hash |-> h1, classes |-> {B}, methods |-> {},
       calls |-> {k1}, imports |-> {}]

SqliteDocs == {V1, V2, V3, V4}
SqliteBatches == {<<V1, V4>>, <<V2>>, <<V3>>}

-----------------------------------------------------------------------------
(* The call graph *)

t == <<"t">>
u == <<"u">>
v == <<"v">>
x == <<"x">>
y == <<"y">>
pm == <<"p", "m">>
qm == <<"q", "m">>
m0 == <<"m">>

\* t is called by u and v, v also by u; x and y call down a chain into v, or
\* into u; and t calls back up.
Tangle == {<<u, t>>, <<v, t>>, <<v, u>>, <<x, v>>, <<y, x>>, <<t, y>>}
\* A short and a long way from t to y, and a side branch.
Fork == {<<t, u>>, <<u, y>>, <<u, pm>>, <<t, v>>, <<v, x>>, <<x, y>>}

Ask(kind, symbol, to, limit, recursive) ==
    [kind |-> kind, symbol |-> symbol, to |-> to, limit |-> limit,
     recursive |-> recursive]

\* The calls of the only file are any of S, in any order.
Tangled(S, asks) ==
    {[files |-> <<s>>, ask |-> q, faults |-> 0] :
        s \in SetToAllKPermutations(S), q \in asks}

\* A call may be recorded twice.
Repeated ==
    {[files |-> <<<<c, d, c>>>>, ask |-> Ask("impact", t, t, 2, FALSE),
      faults |-> 0] : c \in Tangle, d \in Tangle}

TangleAsks ==
    {Ask("impact", t, t, 2, FALSE), Ask("impact", v, t, 3, FALSE),
     Ask("deps", t, t, 0, FALSE), Ask("graph", t, t, 3, FALSE),
     Ask("affected", t, t, 0, TRUE), Ask("affected", t, t, 0, FALSE),
     Ask("path", t, v, 0, FALSE)}
ForkAsks == {Ask("impact", t, t, 3, FALSE), Ask("path", t, y, 0, FALSE)}

\* Names that end alike, in two files that are rewritten and cannot be read.
MCContents == {<<>>, <<<<t, pm>>>>, <<<<u, qm>>, <<t, u>>>>, <<<<u, m0>>>>}
SuffixAsks ==
    {Ask(kind, s, t, 1, FALSE) : kind \in {"impact", "graph"}, s \in {pm, m0}}
      \cup {Ask("affected", m0, t, 0, TRUE), Ask("path", u, m0, 0, FALSE)}
Suffixed ==
    {[files |-> fs, ask |-> q, faults |-> 2] :
        fs \in [1 .. 2 -> MCContents], q \in SuffixAsks}

MCNames == {t, u, v, x, y, pm, qm, m0}
MCCases ==
    Tangled(Tangle, TangleAsks) \cup Tangled(Fork, ForkAsks)
      \cup Repeated \cup Suffixed

GraphCases == Tangled(Tangle, {Ask("graph", t, t, 3, FALSE)})
-----------------------------------------------------------------------------
VARIABLE which

\* A query on a store without calls.
QueryAtRest == QueryInit /\ calls = <<<<>>, <<>>>> /\ ask = Ask("path", u, m0, 0, FALSE)

QueriesInit == which \in {"sqlite", "graph"} /\ Init /\ (IF which = "graph" THEN QueryInit ELSE QueryAtRest)

QueriesNext ==
    \/ which = "sqlite" /\ Next /\ UNCHANGED <<which, queryVars>>
    \/ which = "graph" /\ QueryNext /\ UNCHANGED <<which, vars>>

QueriesSpec == QueriesInit /\ [][QueriesNext]_<<which, vars, queryVars>>
=============================================================================
