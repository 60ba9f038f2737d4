---------------------------- MODULE ImpactQuery ----------------------------
(***************************************************************************)
(* The queries over the call graph: GetImpact, FindDependencies,           *)
(* GetCallGraph and GetAffected of internal/service and ShortestPath of    *)
(* internal/analyzer.  A query keeps no graph: every step of it that needs *)
(* one reads all files of the store again, file by file, while the watcher *)
(* may replace the calls of any file between two reads.                    *)
(***************************************************************************)
EXTENDS CallGraphs, FiniteSets

CONSTANTS
    Cases,           \* what a query may find: the files, the query, how often
                     \* it is disturbed
    Contents,        \* the sequences of calls a file may be replaced by
    RecursiveLimit,  \* depth of a recursive GetAffected: 10 in the code
    None             \* no method

Kinds == {"impact", "deps", "graph", "affected", "path"}
AskType == [kind : Kinds, symbol : Names, to : Names, limit : Nat,
            recursive : BOOLEAN]
CallLists == Seq(Names \X Names)  \* of pairs <<caller, callee>>

\* A case bounds how many files are replaced and reads fail during the query.
ASSUME Parameters ==
    /\ \A c \in Cases : c \in [files : Seq(CallLists), ask : AskType, faults : Nat]
    /\ Contents \subseteq CallLists
    /\ RecursiveLimit \in Nat \ {0}
    /\ None \notin Names \cup [m : Names, left : Nat]
    /\ IsFiniteSet(Names)

VARIABLES
    calls,     \* store: the calls of each file, as GetAllFiles lists them
    disturbances, \* bound: how many are left
    quiet,     \* no file was replaced and no read failed since it began
    ask,       \* the query
    pc,        \* where it is
    stage,     \* what the graph being read is for: "keep", "locate" or "find"
    next,      \* the next file to read
    batch,     \* the calls of the last file that are not in the graph yet
    graph,     \* the graph read so far
    keptGraph, \* GetCallGraph: the graph that the edges are taken from
    resolved,  \* the name the answer reports
    focus,     \* the node the traversal starts from
    goal,      \* ShortestPath: the node it looks for
    side,      \* the direction of the traversal
    queue,     \* breadth first: [m, left], left being the depth that remains
    item,      \* the entry whose neighbours are looked at, None in between
    at,        \* the neighbour of item to look at next
    stack,     \* depth first: the calls of collectCallers, innermost first
    visited,   \* methods whose neighbours were taken
    prev,      \* ShortestPath: where a method was reached from
    cursor,    \* reconstructPath: cur
    found      \* the lists of the answer: [m, depth]; the path under "path"

queryStore == <<calls, disturbances, quiet>>
answer == <<ask, keptGraph, resolved>>
reading == <<stage, next, batch, graph>>
walk == <<side, queue, item, at, stack, visited, prev, cursor>>
queryVars == <<queryStore, answer, reading, walk, pc, focus, goal, found>>

Stages == {"keep", "locate", "find"}
Pcs == {"read", "resolve", "bfs", "dfs", "path", "back", "done", "failed"}
GraphType == [Sides -> [Names -> Seq(Names)]]
Listed == [m : Names, depth : Nat]
Entry == [m : Names, left : Nat]

QueryTypeOK ==
    /\ calls \in Seq(CallLists) /\ disturbances \in Nat /\ quiet \in BOOLEAN
    /\ ask \in AskType /\ pc \in Pcs /\ stage \in Stages
    /\ next \in Nat \ {0} /\ batch \in CallLists
    /\ graph \in GraphType /\ keptGraph \in GraphType
    /\ resolved \in Names /\ focus \in Names \cup {None}
    /\ goal \in Names \cup {None} /\ side \in Sides
    /\ queue \in Seq(Entry) /\ at \in Nat \ {0}
    /\ item \in [m : Names, left : Nat \ {0}] \cup {None}
    /\ stack \in Seq([m : Names, left : Nat, at : Nat \ {0}])
    /\ visited \subseteq Names
    /\ prev \in [Names -> Names \cup {None}] /\ cursor \in Names \cup {None}
    /\ found \in [Sides \cup {"path"} -> Seq(Listed)]

\* The depth each query passes on; GetImpact and GetCallGraph default to 1.
Limit ==
    CASE ask.kind = "deps" -> 1
      [] ask.kind = "affected" -> IF ask.recursive THEN RecursiveLimit ELSE 1
      [] OTHER -> IF ask.limit = 0 THEN 1 ELSE ask.limit

FirstStage(kind) ==
    CASE kind = "graph" -> "keep"
      [] kind \in {"impact", "deps"} -> "locate"
      [] OTHER -> "find"

QueryInit ==
    /\ \E c \in Cases : calls = c.files /\ ask = c.ask /\ disturbances = c.faults
    /\ quiet = TRUE
    /\ pc = "read" /\ stage = FirstStage(ask.kind)
    /\ next = 1 /\ batch = <<>> /\ graph = EmptyGraph /\ keptGraph = EmptyGraph
    /\ resolved = ask.symbol /\ focus = None /\ goal = None
    /\ side = "callers" /\ queue = <<>> /\ item = None /\ at = 1
    /\ stack = <<>> /\ visited = {}
    /\ prev = [m \in Names |-> None] /\ cursor = None
    /\ found = [l \in Sides \cup {"path"} |-> <<>>]

\* The watcher stores another version of a file.
Rescan(f) ==
    /\ pc \in {"read", "resolve"} /\ disturbances > 0
    /\ \E s \in Contents : calls' = [calls EXCEPT ![f] = s]
    /\ disturbances' = disturbances - 1 /\ quiet' = FALSE
    /\ UNCHANGED <<answer, reading, walk, pc, focus, goal, found>>

(***************************************************************************)
(* BuildCallGraph: one GetCallsByFileID, then an edge for each call.       *)
(***************************************************************************)
ReadFile ==
    /\ pc = "read" /\ batch = <<>> /\ next <= Len(calls)
    /\ batch' = calls[next]
    /\ next' = next + 1
    /\ UNCHANGED <<queryStore, answer, walk, pc, stage, graph, focus, goal, found>>

AddCall ==
    /\ pc = "read" /\ batch # <<>>
    /\ graph' = AddEdge(graph, Head(batch)[1], Head(batch)[2])
    /\ batch' = Tail(batch)
    /\ UNCHANGED <<queryStore, answer, walk, pc, stage, next, focus, goal, found>>

Built ==
    /\ pc = "read" /\ batch = <<>> /\ next > Len(calls)
    /\ pc' = "resolve"
    /\ UNCHANGED <<queryStore, answer, reading, walk, focus, goal, found>>

NewGraph(s) == stage' = s /\ next' = 1 /\ batch' = <<>> /\ graph' = EmptyGraph

(***************************************************************************)
(* A read fails.  ResolveImpactNode turns that into "no such node" and the *)
(* query goes on with the name as it was asked; GetAffected drops it and   *)
(* answers for the symbol alone; the others return the error.              *)
(***************************************************************************)
ReadFails ==
    /\ pc = "read" /\ batch = <<>> /\ disturbances > 0
    /\ disturbances' = disturbances - 1 /\ quiet' = FALSE
    /\ IF stage = "locate"
       THEN NewGraph("find") /\ pc' = "read"
       ELSE /\ pc' = IF ask.kind = "affected" THEN "done" ELSE "failed"
            /\ UNCHANGED reading
    /\ UNCHANGED <<calls, answer, walk, focus, goal, found>>

\* GetCallGraph keeps its first graph and asks for a node of another one.
KeepGraph ==
    /\ pc = "resolve" /\ stage = "keep"
    /\ keptGraph' = graph
    /\ NewGraph("locate") /\ pc' = "read"
    /\ UNCHANGED <<queryStore, ask, resolved, walk, focus, goal, found>>

\* ResolveImpactNode; the queries report the name they find here.
Locate ==
    /\ pc = "resolve" /\ stage = "locate"
    /\ \/ resolved' \in Resolve(graph, ask.symbol)
       \/ Resolve(graph, ask.symbol) = {} /\ UNCHANGED resolved
    /\ NewGraph("find") /\ pc' = "read"
    /\ UNCHANGED <<queryStore, ask, keptGraph, walk, focus, goal, found>>

(***************************************************************************)
(* FindImpactNodes, FindImpactNodesWithDepth and ShortestPath resolve once *)
(* more, in the graph they will walk.                                      *)
(***************************************************************************)
NotFound ==
    /\ pc = "resolve" /\ stage = "find"
    /\ \/ Resolve(graph, resolved) = {}
       \/ ask.kind = "path" /\ Resolve(graph, ask.to) = {}
    /\ pc' = "done"
    /\ UNCHANGED <<queryStore, answer, reading, walk, focus, goal, found>>

EnterBreadth(m) ==
    /\ queue' = <<[m |-> m, left |-> Limit]>> /\ visited' = {}
    /\ UNCHANGED stack

EnterDepth(m) ==
    /\ stack' = <<[m |-> m, left |-> Limit, at |-> 1]>> /\ visited' = {m}
    /\ UNCHANGED queue

Find ==
    /\ pc = "resolve" /\ stage = "find" /\ ask.kind # "path"
    /\ focus' \in Resolve(graph, resolved)
    /\ IF ask.kind \in {"impact", "deps"}
       THEN EnterBreadth(focus') /\ pc' = "bfs"
       ELSE EnterDepth(focus') /\ pc' = "dfs"
    /\ UNCHANGED <<queryStore, answer, reading, side, item, at, prev, cursor, goal,
                   found>>

FindPath ==
    /\ pc = "resolve" /\ stage = "find" /\ ask.kind = "path"
    /\ focus' \in Resolve(graph, resolved)
    /\ goal' \in Resolve(graph, ask.to)
    /\ queue' = <<[m |-> focus', left |-> 1]>> /\ visited' = {focus'}
    /\ side' = "callees" /\ pc' = "path"
    /\ UNCHANGED <<queryStore, answer, reading, item, at, stack, prev, cursor, found>>

(***************************************************************************)
(* GetCallersWithDepth and GetCalleesWithDepth.  A method is marked when   *)
(* it leaves the queue, and listed whenever it is met unmarked.            *)
(***************************************************************************)
Dequeue ==
    /\ pc = "bfs" /\ item = None /\ queue # <<>>
    /\ queue' = Tail(queue)
    /\ LET head == Head(queue)
           enter == head.m \notin visited /\ head.left > 0
       IN  /\ visited' = visited \cup {head.m}
           /\ item' = IF enter THEN head ELSE None
           /\ at' = IF enter THEN 1 ELSE at
    /\ UNCHANGED <<queryStore, answer, reading, pc, focus, goal, side, stack, prev,
                   cursor, found>>

LookAt ==
    /\ pc = "bfs" /\ item # None /\ at <= Len(graph[side][item.m])
    /\ LET m == graph[side][item.m][at]
           depth == (Limit - item.left) + 1
       IN  /\ found' = IF m \in visited THEN found
                       ELSE [found EXCEPT ![side] =
                               Append(@, [m |-> m, depth |-> depth])]
           /\ queue' = Append(queue, [m |-> m, left |-> item.left - 1])
    /\ at' = at + 1
    /\ UNCHANGED <<queryStore, answer, reading, pc, focus, goal, side, item, stack,
                   visited, prev, cursor>>

LookedAtAll ==
    /\ pc \in {"bfs", "path"} /\ item # None /\ at > Len(graph[side][item.m])
    /\ item' = None
    /\ UNCHANGED <<queryStore, answer, reading, pc, focus, goal, side, queue, at,
                   stack, visited, prev, cursor, found>>

\* First the callers, then the callees; then the answer is complete.
EndBreadth ==
    /\ pc = "bfs" /\ item = None /\ queue = <<>>
    /\ side' = "callees"
    /\ IF side = "callers"
       THEN EnterBreadth(focus) /\ UNCHANGED pc
       ELSE pc' = "done" /\ UNCHANGED <<queue, stack, visited>>
    /\ UNCHANGED <<queryStore, answer, reading, focus, goal, item, at, prev, cursor,
                   found>>

\* The recursive call passes its own depth on.
DescendSameDepth ==
    /\ pc = "dfs" /\ stack # <<>>
    /\ LET frame == Head(stack)
       IN  /\ frame.at <= Len(graph[side][frame.m])
           /\ LET m == graph[side][frame.m][frame.at]
                  rest == <<[frame EXCEPT !.at = @ + 1]>> \o Tail(stack)
                  enter == m \notin visited
              IN  /\ found' = [found EXCEPT ![side] =
                                 Append(@, [m |-> m, depth |-> 0])]
                  /\ stack' = IF enter
                              THEN <<[m |-> m, left |-> frame.left, at |-> 1]>>
                                     \o rest
                              ELSE rest
                  /\ visited' = IF enter THEN visited \cup {m} ELSE visited
    /\ UNCHANGED <<queryStore, answer, reading, pc, focus, goal, side, queue, item,
                   at, prev, cursor>>

(***************************************************************************)
(* collectCallers and collectCallees: a neighbour is listed, then entered  *)
(* unless it was entered before or the depth is used up.                   *)
(***************************************************************************)
Descend ==
    /\ pc = "dfs" /\ stack # <<>>
    /\ LET frame == Head(stack)
       IN  /\ frame.at <= Len(graph[side][frame.m])
           /\ LET m == graph[side][frame.m][frame.at]
                  rest == <<[frame EXCEPT !.at = @ + 1]>> \o Tail(stack)
                  enter == frame.left > 1 /\ m \notin visited
              IN  /\ found' = [found EXCEPT ![side] =
                                 Append(@, [m |-> m, depth |-> 0])]
                  /\ stack' = IF enter
                              THEN <<[m |-> m, left |-> frame.left - 1,
                                      at |-> 1]>> \o rest
                              ELSE rest
                  /\ visited' = IF enter THEN visited \cup {m} ELSE visited
    /\ UNCHANGED <<queryStore, answer, reading, pc, focus, goal, side, queue, item,
                   at, prev, cursor>>

Return ==
    /\ pc = "dfs" /\ stack # <<>>
    /\ Head(stack).at > Len(graph[side][Head(stack).m])
    /\ stack' = Tail(stack)
    /\ UNCHANGED <<queryStore, answer, reading, pc, focus, goal, side, queue, item,
                   at, visited, prev, cursor, found>>

EndDepth ==
    /\ pc = "dfs" /\ stack = <<>>
    /\ side' = "callees"
    /\ IF side = "callers"
       THEN EnterDepth(focus) /\ UNCHANGED pc
       ELSE pc' = "done" /\ UNCHANGED <<queue, stack, visited>>
    /\ UNCHANGED <<queryStore, answer, reading, focus, goal, item, at, prev, cursor,
                   found>>

(***************************************************************************)
(* ShortestPath: here a method is marked when it enters the queue, and     *)
(* what remains of the depth plays no part.                                *)
(***************************************************************************)
Expand ==
    /\ pc = "path" /\ item = None /\ queue # <<>> /\ Head(queue).m # goal
    /\ queue' = Tail(queue) /\ at' = 1
    /\ item' = [m |-> Head(queue).m, left |-> 1]
    /\ UNCHANGED <<queryStore, answer, reading, pc, focus, goal, side, stack,
                   visited, prev, cursor, found>>

\* The method met last is taken first.
LookAheadLast ==
    /\ pc = "path" /\ item # None /\ at <= Len(graph[side][item.m])
    /\ LET m == graph[side][item.m][at]
       IN  IF m \in visited THEN UNCHANGED <<visited, prev, queue>>
           ELSE /\ visited' = visited \cup {m}
                /\ prev' = [prev EXCEPT ![m] = item.m]
                /\ queue' = <<[m |-> m, left |-> 1]>> \o queue
    /\ at' = at + 1
    /\ UNCHANGED <<queryStore, answer, reading, pc, focus, goal, side, item, stack,
                   cursor, found>>

LookAhead ==
    /\ pc = "path" /\ item # None /\ at <= Len(graph[side][item.m])
    /\ LET m == graph[side][item.m][at]
       IN  IF m \in visited THEN UNCHANGED <<visited, prev, queue>>
           ELSE /\ visited' = visited \cup {m}
                /\ prev' = [prev EXCEPT ![m] = item.m]
                /\ queue' = Append(queue, [m |-> m, left |-> 1])
    /\ at' = at + 1
    /\ UNCHANGED <<queryStore, answer, reading, pc, focus, goal, side, item, stack,
                   cursor, found>>

Reach ==
    /\ pc = "path" /\ item = None /\ queue # <<>> /\ Head(queue).m = goal
    /\ cursor' = goal /\ pc' = "back"
    /\ UNCHANGED <<queryStore, answer, reading, focus, goal, side, queue, item, at,
                   stack, visited, prev, found>>

NoPath ==
    /\ pc = "path" /\ item = None /\ queue = <<>>
    /\ pc' = "done"
    /\ UNCHANGED <<queryStore, answer, reading, walk, focus, goal, found>>

\* reconstructPath puts one method in front at a time.
StepBack ==
    /\ pc = "back" /\ cursor # None
    /\ found' = [found EXCEPT !.path = <<[m |-> cursor, depth |-> 0]>> \o @]
    /\ cursor' = prev[cursor]
    /\ UNCHANGED <<queryStore, answer, reading, pc, focus, goal, side, queue, item,
                   at, stack, visited, prev>>

AtStart ==
    /\ pc = "back" /\ cursor = None
    /\ found' = IF Head(found.path).m = focus THEN found
                ELSE [found EXCEPT !.path = <<>>]
    /\ pc' = "done"
    /\ UNCHANGED <<queryStore, answer, reading, walk, focus, goal>>

Stopped == pc \in {"done", "failed"} /\ UNCHANGED queryVars

QueryNext ==
    \/ \E f \in DOMAIN calls : Rescan(f)
    \/ ReadFile \/ AddCall \/ Built \/ ReadFails \/ KeepGraph \/ Locate \/ NotFound \/ Find \/ FindPath
    \/ Dequeue \/ LookAt \/ LookedAtAll \/ EndBreadth
    \/ Descend \/ Return \/ EndDepth
    \/ Expand \/ LookAhead \/ Reach \/ NoPath \/ StepBack \/ AtStart
    \/ Stopped

QuerySpec == QueryInit /\ [][QueryNext]_queryVars

-----------------------------------------------------------------------------
Answered == pc = "done" /\ focus # None
Breadth == Answered /\ ask.kind \in {"impact", "deps"}
Depth == Answered /\ ask.kind \in {"graph", "affected"}

GraphMirrors ==
    \A m \in Names :
        /\ \A s \in Sides : IsInjective(graph[s][m])
        /\ \A n \in Names : Contains(graph.callees[m], n)
                                <=> Contains(graph.callers[n], m)

AscendingDepth ==
    ask.kind \in {"impact", "deps"} =>
        \A s \in Sides : \A i, j \in DOMAIN found[s] :
            i < j => found[s][i].depth <= found[s][j].depth

\* Types (no remaining depth is negative), and two facts that hold at every step
\* of a query: the two halves of the graph agree and no edge is listed twice,
\* after any number of files and calls in any order (AddEdge); the lists of
\* GetImpact are in order of depth, also while they grow (GetCallersWithDepth).
GraphsSound == QueryTypeOK /\ GraphMirrors /\ AscendingDepth

NearestListed ==
    Breadth => \A s \in Sides, n \in Names \ {focus}, d \in 1 .. Limit :
        IsDistance(graph, s, focus, n, d) <=>
            \E i \in DOMAIN found[s] :
                /\ found[s][i] = [m |-> n, depth |-> d]
                /\ \A j \in 1 .. i - 1 : found[s][j].m # n

ListedWithinLimit ==
    Depth =>
        \A s \in Sides : \A i \in DOMAIN found[s] :
            found[s][i].m \in Within(graph, s, focus, Limit)

AllCallersAffected ==
    (Depth /\ ask.kind = "affected" /\ ask.recursive
       /\ RecursiveLimit > Cardinality(Names)) =>
        Within(graph, "callers", focus, RecursiveLimit) \ {focus}
            \subseteq {found.callers[i].m : i \in DOMAIN found.callers}

\* GetImpact lists every method within the limit, the first time at its distance,
\* and nothing else (GetCallersWithDepth, GetCalleesWithDepth); GetCallGraph and
\* GetAffected list nothing beyond the limit, and a recursive GetAffected over
\* less than RecursiveLimit methods misses no transitive caller, cycles or not
\* (collectCallers, collectCallees).
AnswersExact == NearestListed /\ ListedWithinLimit /\ AllCallersAffected

\* ShortestPath returns a path of calls from one method to the other, none is
\* shorter, and it returns nothing only if there is none (reconstructPath).
PathIsShortest ==
    (Answered /\ ask.kind = "path") =>
        LET p == found.path
        IN  IF goal \in Within(graph, "callees", focus, Cardinality(Names))
            THEN /\ p # <<>> /\ p[1].m = focus /\ p[Len(p)].m = goal
                 /\ \A i \in 1 .. Len(p) - 1 :
                        Contains(graph.callees[p[i].m], p[i + 1].m)
                 /\ IsDistance(graph, "callees", focus, goal, Len(p) - 1)
            ELSE p = <<>>

\* A query that no change and no failure disturbs walks from the very node it
\* reports, although it resolves the name in two graphs (ResolveImpactNode).
QuietQueryNamesItsNode ==
    (Answered /\ quiet
       /\ ask.kind \in {"impact", "deps", "graph"}) => resolved = focus

-----------------------------------------------------------------------------
\* Claimed: GetCallGraph collects breadth first up to depth (service.go:1394).
SubgraphComplete ==
    (Depth /\ ask.kind = "graph") => \A s \in Sides :
        Within(graph, s, focus, Limit) \ {focus}
            \subseteq {found[s][i].m : i \in DOMAIN found[s]}

=============================================================================
