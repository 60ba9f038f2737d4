----------------------------- MODULE CallGraphs -----------------------------
(***************************************************************************)
(* The call graph of internal/analyzer as data: how it grows from the call *)
(* records of a store, and how a queried name is matched to a node of it.  *)
(* A method name is its sequence of segments (pkg.Type.Method has three),  *)
(* so that one name may be a suffix of another.                            *)
(***************************************************************************)
EXTENDS Naturals, Sequences, SequencesExt

CONSTANT Names  \* the names of methods, in calls and in queries

ASSUME NamesAreSegments == Names \subseteq Seq(STRING) \ {<<>>}

Sides == {"callers", "callees"}

\* CallGraph: for each method its callers and callees, in the order met.
EmptyGraph == [side \in Sides |-> [m \in Names |-> <<>>]]

\* A node exists once an edge mentions it: AddNode has no other caller.
Nodes(g) == {m \in Names : \E side \in Sides : g[side][m] # <<>>}

Adjoin(s, m) == IF Contains(s, m) THEN s ELSE Append(s, m)

-----------------------------------------------------------------------------
\* contains is not asked for the callers.
AddEdgeTwice(g, from, to) ==
    [g EXCEPT !.callees[from] = Adjoin(@, to), !.callers[to] = Append(@, from)]

AddEdge(g, from, to) ==
    [g EXCEPT !.callees[from] = Adjoin(@, to), !.callers[to] = Adjoin(@, from)]

(***************************************************************************)
(* The nodes a name may stand for.  The longest suffix of the name that is *)
(* a node wins; if there is none, any node that ends in the name, whichever *)
(* the map yields first.                                                   *)
(***************************************************************************)
Longest(S) == {m \in S : \A n \in S : Len(n) <= Len(m)}

\* Any node that matches at either end, the exact one not first.
ResolveAny(g, name) ==
    {m \in Nodes(g) : IsSuffix(m, name) \/ IsSuffix(name, m)}

Resolve(g, name) ==
    LET inner == {m \in Nodes(g) : IsSuffix(m, name)}
    IN  IF inner # {} THEN Longest(inner)
                      ELSE {m \in Nodes(g) : IsSuffix(name, m)}

(***************************************************************************)
(* Reference definitions: what lies within k steps of a node, and how far. *)
(***************************************************************************)
Within(g, side, m, k) ==
    LET ball[i \in 0 .. k] ==
            IF i = 0 THEN {m}
            ELSE ball[i - 1] \cup UNION {ToSet(g[side][n]) : n \in ball[i - 1]}
    IN  ball[k]

IsDistance(g, side, m, n, k) ==
    /\ n \in Within(g, side, m, k)
    /\ k > 0 => n \notin Within(g, side, m, k - 1)
=============================================================================
