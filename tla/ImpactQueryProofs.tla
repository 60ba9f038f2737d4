-------------------------- MODULE ImpactQueryProofs --------------------------
(***************************************************************************)
(* For every set of names, every store and every query:                    *)
(*  - types, the two halves of the graph agree, and the lists of GetImpact *)
(*    are in order of depth (IInv).  The order needs the shape of the      *)
(*    queue: the remaining depths in it do not rise and differ by at most  *)
(*    one, and nothing listed so far is deeper than what the head of the   *)
(*    queue will list;                                                     *)
(*  - the searches find what Within and IsDistance say: layer by layer the *)
(*    breadth-first one (BreadthInv), within the stack the depth-first one *)
(*    (DepthInv), frontier by frontier the path (PathInv);                 *)
(*  - an undisturbed query reports the node it starts from (QuietInv).     *)
(***************************************************************************)
EXTENDS ImpactQuery, SublistProofs, FiniteSetTheorems, TLAPS

Breadths == {"impact", "deps"}

\* The phases a query goes through, and what it has touched before each.
Phased ==
    /\ pc \in {"read", "resolve"} =>
          /\ found = [l \in Sides \cup {"path"} |-> <<>>]
          /\ side = "callers" /\ item = None
    /\ pc = "bfs" /\ side = "callers" => found.callees = <<>>
    /\ ask.kind \in Breadths => pc \notin {"dfs", "path", "back"}
    /\ pc \in {"bfs", "dfs", "path", "back"} => focus \in Names

\* The depth that remains where the search stands.
Level == IF item # None THEN item.left ELSE queue[1].left

\* The queue of a breadth-first search and its list.
Layered ==
    pc = "bfs" =>
        /\ item # None => item.left <= Limit
        /\ \A i \in DOMAIN queue :
              /\ queue[i].left <= Limit
              /\ Level - 1 <= queue[i].left /\ queue[i].left <= Level
              /\ \A j \in DOMAIN queue : i < j => queue[j].left <= queue[i].left
        /\ (item # None \/ queue # <<>>) =>
              \A i \in DOMAIN found[side] :
                  found[side][i].depth <= (Limit - Level) + 1

IInv == QueryTypeOK /\ GraphMirrors /\ Phased /\ Layered /\ AscendingDepth

-----------------------------------------------------------------------------
\* contains and append: a list without repetitions gets one more member.
LEMMA AdjoinFacts ==
    ASSUME NEW s \in Seq(Names), NEW m \in Names
    PROVE  /\ Adjoin(s, m) \in Seq(Names)
           /\ \A n \in Names : Contains(Adjoin(s, m), n) <=> Contains(s, n) \/ n = m
           /\ IsInjective(s) => IsInjective(Adjoin(s, m))
<1>1. CASE Contains(s, m)
  BY <1>1 DEF Adjoin, Contains
<1>2. CASE ~Contains(s, m)
  <2>1. Adjoin(s, m) = Append(s, m)
    BY <1>2 DEF Adjoin
  <2>2. \A n \in Names : Contains(Append(s, m), n) <=> Contains(s, n) \/ n = m
    BY DEF Contains
  <2>3. IsInjective(s) => IsInjective(Append(s, m))
    BY <1>2 DEF IsInjective, Contains
  <2> QED
    BY <2>1, <2>2, <2>3
<1> QED
  BY <1>1, <1>2

\* AddEdge keeps the graph well-typed and its halves in agreement.
Mirrored(g) ==
    \A m \in Names :
        /\ \A s \in Sides : IsInjective(g[s][m])
        /\ \A n \in Names : Contains(g.callees[m], n) <=> Contains(g.callers[n], m)

LEMMA AddEdgeMirrors ==
    ASSUME NEW g \in GraphType, NEW a \in Names, NEW b \in Names, Mirrored(g)
    PROVE  AddEdge(g, a, b) \in GraphType /\ Mirrored(AddEdge(g, a, b))
<1> DEFINE h == AddEdge(g, a, b)
<1>1. /\ g.callees[a] \in Seq(Names) /\ g.callers[b] \in Seq(Names)
      /\ g["callees"][a] = g.callees[a] /\ g["callers"][b] = g.callers[b]
  BY DEF GraphType, Sides
<1>2. /\ h.callees = [g.callees EXCEPT ![a] = Adjoin(@, b)]
      /\ h.callers = [g.callers EXCEPT ![b] = Adjoin(@, a)]
      /\ h = [s \in Sides |-> h[s]]
  BY DEF AddEdge, GraphType, Sides
<1> HIDE DEF h
<1>3. Adjoin(g.callees[a], b) \in Seq(Names) /\ Adjoin(g.callers[b], a) \in Seq(Names)
  BY <1>1, AdjoinFacts
<1>4. g.callees \in [Names -> Seq(Names)] /\ g.callers \in [Names -> Seq(Names)]
  BY DEF GraphType, Sides
<1>5. h.callees \in [Names -> Seq(Names)] /\ h.callers \in [Names -> Seq(Names)]
  BY <1>2, <1>3, <1>4
<1>6. h \in GraphType
  BY <1>2, <1>5 DEF GraphType, Sides
<1>7. \A m \in Names : h.callees[m] = IF m = a THEN Adjoin(g.callees[a], b) ELSE g.callees[m]
  BY <1>2, <1>4
<1>8. \A m \in Names : h.callers[m] = IF m = b THEN Adjoin(g.callers[b], a) ELSE g.callers[m]
  BY <1>2, <1>4
<1>9. \A m \in Names : \A s \in Sides : IsInjective(h[s][m])
  <2> SUFFICES ASSUME NEW m \in Names
               PROVE  IsInjective(h.callees[m]) /\ IsInjective(h.callers[m])
    BY DEF Sides
  <2>1. IsInjective(g.callees[m]) /\ IsInjective(g.callers[m])
    BY DEF Mirrored, Sides
  <2>2. IsInjective(h.callees[m])
    <3>1. m = a => IsInjective(Adjoin(g.callees[a], b))
      BY <1>1, <2>1, AdjoinFacts
    <3> QED
      BY <1>7, <2>1, <3>1
  <2>3. IsInjective(h.callers[m])
    <3>1. m = b => IsInjective(Adjoin(g.callers[b], a))
      BY <1>1, <2>1, AdjoinFacts
    <3> QED
      BY <1>8, <2>1, <3>1
  <2> QED
    BY <2>2, <2>3
<1>10. \A m, n \in Names : Contains(h.callees[m], n) <=> Contains(h.callers[n], m)
  <2> SUFFICES ASSUME NEW m \in Names, NEW n \in Names
               PROVE  Contains(h.callees[m], n) <=> Contains(h.callers[n], m)
    OBVIOUS
  <2>1. Contains(g.callees[m], n) <=> Contains(g.callers[n], m)
    BY DEF Mirrored
  <2>2. Contains(Adjoin(g.callees[a], b), n) <=> Contains(g.callees[a], n) \/ n = b
    BY <1>1, AdjoinFacts
  <2>3. Contains(Adjoin(g.callers[b], a), m) <=> Contains(g.callers[b], m) \/ m = a
    BY <1>1, AdjoinFacts
  <2>4. Contains(h.callees[m], n) <=> Contains(g.callees[m], n) \/ (m = a /\ n = b)
    <3>1. CASE m = a
      BY <1>7, <2>2, <3>1
    <3>2. CASE m # a
      BY <1>7, <3>2
    <3> QED
      BY <3>1, <3>2
  <2>5. Contains(h.callers[n], m) <=> Contains(g.callers[n], m) \/ (m = a /\ n = b)
    <3>1. CASE n = b
      BY <1>8, <2>3, <3>1
    <3>2. CASE n # b
      BY <1>8, <3>2
    <3> QED
      BY <3>1, <3>2
  <2> QED
    BY <2>1, <2>4, <2>5
<1> QED
  BY <1>6, <1>9, <1>10 DEF Mirrored, h

\* Every edge mentioned in a list leads to a name.
LEMMA Neighbour ==
    ASSUME NEW g \in GraphType, NEW s \in Sides, NEW m \in Names,
           NEW i \in Nat \ {0}, i <= Len(g[s][m])
    PROVE  g[s][m][i] \in Names
<1>1. g[s][m] \in Seq(Names)
  BY DEF GraphType
<1> QED
  BY <1>1

\* The depth of a query is at least 1.
LEMMA LimitPositive == QueryTypeOK => Limit \in Nat \ {0}
  BY Parameters DEF QueryTypeOK, AskType, Limit

LEMMA EmptyFacts == EmptyGraph \in GraphType /\ Mirrored(EmptyGraph)
  BY DEF EmptyGraph, GraphType, Mirrored, Contains, IsInjective, Sides

\* A mirrored graph is what GraphMirrors asks for.
LEMMA MirrorsIff == GraphMirrors <=> Mirrored(graph)
  BY DEF GraphMirrors, Mirrored

\* Nothing but the query decides the limit and whether lists are ordered.
LEMMA Unlisted ==
    ASSUME AscendingDepth, UNCHANGED <<ask, found>> PROVE AscendingDepth'
  BY DEF AscendingDepth

-----------------------------------------------------------------------------
(* The steps before a traversal. *)

LEMMA InitStep == QueryInit => IInv
<1> SUFFICES ASSUME QueryInit PROVE IInv
  OBVIOUS
<1>1. PICK c \in Cases : calls = c.files /\ ask = c.ask /\ disturbances = c.faults
  BY DEF QueryInit
<1>2. calls \in Seq(CallLists) /\ ask \in AskType /\ disturbances \in Nat
  BY <1>1, Parameters
<1>3. ask.kind \in Kinds /\ ask.symbol \in Names
  BY <1>2 DEF AskType
<1>4. QueryTypeOK
  BY <1>2, <1>3, EmptyFacts DEF QueryInit, QueryTypeOK, FirstStage, Stages, Pcs, Sides, CallLists, Kinds
<1>5. GraphMirrors
  BY EmptyFacts, MirrorsIff DEF QueryInit
<1>6. Phased /\ Layered /\ AscendingDepth
  BY DEF QueryInit, Phased, Layered, AscendingDepth, Sides
<1> QED
  BY <1>4, <1>5, <1>6 DEF IInv

\* Steps that only read: the walk has not begun and does not begin.
LEMMA ReadingStep ==
    ASSUME IInv, UNCHANGED <<ask, walk, focus, goal, found>>,
           pc' \in {"read", "resolve", "done", "failed"},
           pc \in {"read", "resolve"},
           GraphMirrors', QueryTypeOK'
    PROVE  IInv'
<1>1. Phased' /\ Layered'
  BY DEF IInv, Phased, Layered, walk
<1> QED
  BY <1>1, Unlisted DEF IInv

LEMMA RescanStep ==
    ASSUME IInv, NEW f \in DOMAIN calls, Rescan(f) PROVE IInv'
<1> USE DEF Rescan, answer, reading, walk
<1>1. PICK s \in Contents : calls' = [calls EXCEPT ![f] = s]
  OBVIOUS
<1>2. calls \in Seq(CallLists) /\ s \in CallLists
  BY Parameters DEF IInv, QueryTypeOK
<1>3. calls' \in Seq(CallLists)
  BY <1>1, <1>2
<1>4. disturbances' \in Nat /\ quiet' \in BOOLEAN
  <2>1. disturbances \in Nat
    BY DEF IInv, QueryTypeOK
  <2>2. disturbances > 0 /\ disturbances' = disturbances - 1
    OBVIOUS
  <2>3. quiet' \in BOOLEAN
    OBVIOUS
  <2> QED
    BY <2>1, <2>2, <2>3
<1>5. QueryTypeOK'
  BY <1>3, <1>4 DEF IInv, QueryTypeOK
<1>6. GraphMirrors'
  BY DEF IInv, GraphMirrors
<1> QED
  BY <1>5, <1>6, ReadingStep

LEMMA ReadFileStep == ASSUME IInv, ReadFile PROVE IInv'
<1> USE DEF ReadFile, queryStore, answer, walk
<1>1. calls[next] \in CallLists
  BY DEF IInv, QueryTypeOK
<1>2. QueryTypeOK'
  BY <1>1 DEF IInv, QueryTypeOK
<1>3. GraphMirrors'
  BY DEF IInv, GraphMirrors
<1> QED
  BY <1>2, <1>3, ReadingStep

LEMMA AddCallStep == ASSUME IInv, AddCall PROVE IInv'
<1> USE DEF AddCall, queryStore, answer, walk
<1>1. Head(batch) \in Names \X Names /\ Tail(batch) \in CallLists
  BY DEF IInv, QueryTypeOK, CallLists
<1>2. graph' \in GraphType /\ Mirrored(graph')
  BY <1>1, AddEdgeMirrors, MirrorsIff DEF IInv, QueryTypeOK
<1>3. QueryTypeOK'
  BY <1>1, <1>2 DEF IInv, QueryTypeOK
<1>4. GraphMirrors'
  BY <1>2 DEF GraphMirrors, Mirrored
<1> QED
  BY <1>3, <1>4, ReadingStep

LEMMA BuiltStep == ASSUME IInv, Built PROVE IInv'
<1> USE DEF Built, queryStore, answer, reading, walk
<1>1. QueryTypeOK' /\ GraphMirrors'
  BY DEF IInv, QueryTypeOK, Pcs, GraphMirrors
<1> QED
  BY <1>1, ReadingStep

\* A new graph is empty.
LEMMA NewGraphFacts ==
    ASSUME NEW s \in Stages, NewGraph(s)
    PROVE  /\ stage' \in Stages /\ next' \in Nat \ {0} /\ batch' \in CallLists
           /\ graph' \in GraphType /\ GraphMirrors'
  BY EmptyFacts DEF NewGraph, GraphMirrors, Mirrored, CallLists

LEMMA ReadFailsStep == ASSUME IInv, ReadFails PROVE IInv'
<1> USE DEF ReadFails, answer, walk
<1>1. disturbances' \in Nat /\ quiet' \in BOOLEAN
  <2>1. disturbances \in Nat
    BY DEF IInv, QueryTypeOK
  <2>2. disturbances > 0 /\ disturbances' = disturbances - 1
    OBVIOUS
  <2>3. quiet' \in BOOLEAN
    OBVIOUS
  <2> QED
    BY <2>1, <2>2, <2>3
<1>2. pc' \in Pcs \cap {"read", "done", "failed"}
  BY DEF Pcs
<1>3. CASE stage = "locate"
  <2>1. NewGraph("find") /\ "find" \in Stages
    BY <1>3 DEF Stages
  <2>2. GraphMirrors'
    BY <2>1, NewGraphFacts
  <2>3. QueryTypeOK'
    BY <1>1, <1>2, <2>1, NewGraphFacts DEF IInv, QueryTypeOK
  <2> QED
    BY <1>2, <2>2, <2>3, ReadingStep
<1>4. CASE stage # "locate"
  <2>1. UNCHANGED reading
    BY <1>4
  <2>2. QueryTypeOK' /\ GraphMirrors'
    BY <1>1, <1>2, <2>1 DEF IInv, QueryTypeOK, GraphMirrors, reading
  <2> QED
    BY <1>2, <2>2, ReadingStep
<1> QED
  BY <1>3, <1>4

LEMMA KeepStep == ASSUME IInv, KeepGraph PROVE IInv'
<1> USE DEF KeepGraph, queryStore, walk
<1>1. NewGraph("locate") /\ "locate" \in Stages
  BY DEF Stages
<1>2. QueryTypeOK' /\ GraphMirrors'
  BY <1>1, NewGraphFacts DEF IInv, QueryTypeOK, Pcs
<1> QED
  BY <1>2, ReadingStep

\* Resolution yields names.
LEMMA ResolveFacts ==
    ASSUME NEW g, NEW name PROVE Resolve(g, name) \subseteq Names
  BY DEF Resolve, Nodes, Longest

LEMMA LocateStep == ASSUME IInv, Locate PROVE IInv'
<1> USE DEF Locate, queryStore, walk
<1>1. NewGraph("find") /\ "find" \in Stages
  BY DEF Stages
<1>2. resolved' \in Names
  BY ResolveFacts DEF IInv, QueryTypeOK
<1>3. QueryTypeOK' /\ GraphMirrors'
  BY <1>1, <1>2, NewGraphFacts DEF IInv, QueryTypeOK, Pcs
<1> QED
  BY <1>3, ReadingStep

LEMMA NotFoundStep == ASSUME IInv, NotFound PROVE IInv'
<1> USE DEF NotFound, queryStore, answer, reading, walk
<1>1. QueryTypeOK' /\ GraphMirrors'
  BY DEF IInv, QueryTypeOK, Pcs, GraphMirrors
<1> QED
  BY <1>1, ReadingStep

-----------------------------------------------------------------------------
(* The breadth-first search. *)

LEMMA LimitKept == UNCHANGED ask => Limit' = Limit
  BY DEF Limit

\* No entry of a queue is None.
LEMMA EntryNotNone == \A e \in Entry : e # None
  BY Parameters DEF Entry

\* A search starts at the limit with nothing else in its queue.
LEMMA EnterBreadthFacts ==
    ASSUME QueryTypeOK, NEW m \in Names, EnterBreadth(m), UNCHANGED <<ask, item>>,
           item = None, found'[side'] = <<>>
    PROVE  /\ queue' \in Seq(Entry) /\ visited' \subseteq Names
           /\ stack' = stack /\ Layered'
<1>1. Limit \in Nat /\ Limit' = Limit
  BY LimitPositive, LimitKept
<1>2. queue' = <<[m |-> m, left |-> Limit]>> /\ visited' = {} /\ stack' = stack
  BY DEF EnterBreadth
<1>3. queue' \in Seq(Entry) /\ Len(queue') = 1 /\ queue'[1].left = Limit
  BY <1>1, <1>2 DEF Entry
<1>4. Level' = Limit
  BY <1>3 DEF Level
<1>5. \A i \in DOMAIN queue' : i = 1
  BY <1>3
<1>6. Layered'
  BY <1>1, <1>3, <1>4, <1>5 DEF Layered
<1> QED
  BY <1>2, <1>3, <1>6

LEMMA EnterDepthFacts ==
    ASSUME QueryTypeOK, NEW m \in Names, EnterDepth(m)
    PROVE  /\ stack' \in Seq([m : Names, left : Nat, at : Nat \ {0}])
           /\ visited' \subseteq Names /\ queue' = queue
  BY LimitPositive DEF EnterDepth

LEMMA FindStep == ASSUME IInv, Find PROVE IInv'
<1> USE DEF Find, queryStore, answer, reading
<1>1. QueryTypeOK /\ focus' \in Names /\ item = None
  BY ResolveFacts DEF IInv, Phased
<1>2. found = [l \in Sides \cup {"path"} |-> <<>>] /\ side = "callers"
  BY DEF IInv, Phased
<1>3. found'[side'] = <<>> /\ found' = found
  BY <1>2 DEF Sides
<1>4. ask.kind \in Kinds
  BY <1>1 DEF QueryTypeOK, AskType
<1>5. GraphMirrors' /\ AscendingDepth'
  BY Unlisted DEF IInv, GraphMirrors
<1>6. CASE ask.kind \in Breadths
  <2>1. EnterBreadth(focus') /\ pc' = "bfs"
    BY <1>6 DEF Breadths
  <2>2. queue' \in Seq(Entry) /\ visited' \subseteq Names /\ stack' = stack /\ Layered'
    BY <1>1, <1>3, <2>1, EnterBreadthFacts
  <2>3. QueryTypeOK'
    BY <1>1, <2>1, <2>2 DEF QueryTypeOK, Pcs
  <2>4. Phased'
    BY <1>1, <1>2, <1>3, <2>1 DEF Phased, Sides
  <2> QED
    BY <1>5, <2>2, <2>3, <2>4 DEF IInv
<1>7. CASE ask.kind \notin Breadths
  <2>1. EnterDepth(focus') /\ pc' = "dfs"
    BY <1>7 DEF Breadths
  <2>2. /\ stack' \in Seq([m : Names, left : Nat, at : Nat \ {0}])
        /\ visited' \subseteq Names /\ queue' = queue
    BY <1>1, <2>1, EnterDepthFacts
  <2>3. QueryTypeOK'
    BY <1>1, <2>1, <2>2 DEF QueryTypeOK, Pcs
  <2>4. Phased' /\ Layered'
    BY <1>1, <1>7, <2>1 DEF Phased, Layered
  <2> QED
    BY <1>5, <2>3, <2>4 DEF IInv
<1> QED
  BY <1>6, <1>7

LEMMA DequeueStep == ASSUME IInv, Dequeue PROVE IInv'
<1> USE DEF Dequeue, queryStore, answer, reading
<1> DEFINE head == Head(queue)
           enter == head.m \notin visited /\ head.left > 0
<1>1. /\ QueryTypeOK /\ Layered /\ queue \in Seq(Entry) /\ queue # <<>>
      /\ pc = "bfs" /\ item = None /\ Limit \in Nat /\ Limit' = Limit
  BY LimitPositive, LimitKept DEF IInv, QueryTypeOK
<1>2. head \in Entry /\ head = queue[1] /\ queue' = Tail(queue) /\ queue' \in Seq(Entry)
  BY <1>1
<1>3. head.left \in Nat /\ head.m \in Names /\ Level = head.left
  BY <1>1, <1>2 DEF Entry, Level
<1>4. /\ visited' \subseteq Names
      /\ item' \in [m : Names, left : Nat \ {0}] \cup {None}
      /\ at' \in Nat \ {0}
  <2>1. visited' = visited \cup {head.m} /\ item' = (IF enter THEN head ELSE None) /\ at' = (IF enter THEN 1 ELSE at)
    OBVIOUS
  <2>2. visited \subseteq Names /\ at \in Nat \ {0}
    BY <1>1 DEF QueryTypeOK
  <2>3. enter => head \in [m : Names, left : Nat \ {0}]
    <3> HIDE DEF head
    <3> QED
      BY <1>2 DEF Entry
  <2> HIDE DEF head, enter, Dequeue
  <2> QED
    BY <1>3, <2>1, <2>2, <2>3
<1>5. QueryTypeOK'
  BY <1>1, <1>2, <1>4 DEF QueryTypeOK
<1>6. \A i \in DOMAIN queue' : i + 1 \in DOMAIN queue /\ queue'[i] = queue[i + 1]
  BY <1>1, <1>2
<1>7. \A i \in DOMAIN queue : queue[i].left \in Nat
  <2>1. \A i \in DOMAIN queue : queue[i] \in Entry
    BY <1>1
  <2> QED
    BY <2>1 DEF Entry
<1>8. UNCHANGED <<found, side, ask, pc, graph>>
  OBVIOUS
<1>9. found[side] \in Seq(Listed)
  BY <1>1 DEF QueryTypeOK, Sides
<1>10. \A i \in DOMAIN found[side] :
          found[side][i].depth \in Nat /\ found[side][i].depth <= (Limit - Level) + 1
  <2>1. \A i \in DOMAIN found[side] : found[side][i] \in Listed
    BY <1>9
  <2>2. \A i \in DOMAIN found[side] : found[side][i].depth <= (Limit - Level) + 1
    BY <1>1 DEF Layered
  <2> QED
    BY <2>1, <2>2 DEF Listed
<1>11. \A i \in DOMAIN queue : Level - 1 <= queue[i].left /\ queue[i].left <= Level
                                  /\ queue[i].left <= Limit
  BY <1>1 DEF Layered
<1>12. \A i, j \in DOMAIN queue : i < j => queue[j].left <= queue[i].left
  BY <1>1 DEF Layered
<1>13. \A i, j \in DOMAIN queue' : i < j => queue'[j].left <= queue'[i].left
  <2> SUFFICES ASSUME NEW i \in DOMAIN queue', NEW j \in DOMAIN queue', i < j
               PROVE  queue'[j].left <= queue'[i].left
    OBVIOUS
  <2>1. i \in Nat /\ j \in Nat
    BY <1>2
  <2> QED
    BY <1>6, <1>12, <2>1
<1>14. Layered'
  <2>1. CASE enter
    <3>1. item' = head /\ item' # None
      BY <1>2, <2>1, EntryNotNone
    <3>2. Level' = Level
      BY <1>3, <3>1 DEF Level
    <3>3. item'.left <= Limit
      BY <1>1, <1>2, <1>11, <3>1
    <3> QED
      BY <1>1, <1>6, <1>8, <1>10, <1>11, <1>13, <3>1, <3>2, <3>3 DEF Layered
  <2>2. CASE ~enter
    <3>1. item' = None
      BY <2>2
    <3>2. CASE queue' = <<>>
      BY <3>1, <3>2 DEF Layered
    <3>3. CASE queue' # <<>>
      <4>1. 1 \in DOMAIN queue' /\ Level' = queue'[1].left
        BY <1>2, <3>1, <3>3 DEF Level
      <4>2. 2 \in DOMAIN queue /\ Level' = queue[2].left
        BY <1>6, <4>1
      <4>3. Level' \in Nat /\ Level' <= Level /\ Level \in Nat
        BY <1>3, <1>7, <1>11, <4>2
      <4>4. \A i \in DOMAIN queue' : Level' - 1 <= queue'[i].left /\ queue'[i].left <= Limit
        BY <1>6, <1>7, <1>11, <4>3
      <4>5. \A i \in DOMAIN queue' : queue'[i].left <= Level'
        <5> SUFFICES ASSUME NEW i \in DOMAIN queue' PROVE queue'[i].left <= Level'
          OBVIOUS
        <5>1. CASE i = 1
          BY <4>1, <4>3, <5>1
        <5>2. CASE i # 1
          <6>1. i \in Nat /\ 1 < i
            BY <1>2, <5>2
          <6> QED
            BY <1>13, <4>1, <6>1
        <5> QED
          BY <5>1, <5>2
      <4>6. \A i \in DOMAIN found[side] : found[side][i].depth <= (Limit - Level') + 1
        BY <1>1, <1>10, <4>3
      <4> QED
        BY <1>1, <1>8, <1>13, <3>1, <4>4, <4>5, <4>6 DEF Layered
    <3> QED
      BY <3>2, <3>3
  <2> QED
    BY <2>1, <2>2
<1>15. GraphMirrors' /\ Phased' /\ AscendingDepth'
  BY <1>1, <1>8, Unlisted DEF IInv, GraphMirrors, Phased
<1> QED
  BY <1>5, <1>14, <1>15 DEF IInv

\* A neighbour goes to the end of the list and of the queue.
LEMMA LookAtStep == ASSUME IInv, LookAt PROVE IInv'
<1> USE DEF LookAt, queryStore, answer, reading
<1> DEFINE m == graph[side][item.m][at]
           depth == (Limit - item.left) + 1
           new == [m |-> m, left |-> item.left - 1]
<1>1. /\ QueryTypeOK /\ Layered /\ queue \in Seq(Entry) /\ pc = "bfs" /\ item # None
      /\ Limit \in Nat /\ Limit' = Limit /\ side \in Sides
  BY LimitPositive, LimitKept DEF IInv, QueryTypeOK
<1>2. item.m \in Names /\ item.left \in Nat \ {0} /\ item.left <= Limit
  BY <1>1 DEF QueryTypeOK, Layered
<1>3. m \in Names
  BY <1>1, <1>2, Neighbour DEF QueryTypeOK
<1>4. new \in Entry /\ depth \in Nat /\ new.left = item.left - 1
  BY <1>1, <1>2, <1>3 DEF Entry
<1>5. queue' = Append(queue, new)
  OBVIOUS
<1>6. Level = item.left /\ Level' = item.left
  BY <1>1 DEF Level
<1>7. found[side] \in Seq(Listed) /\ found \in [Sides \cup {"path"} -> Seq(Listed)]
  BY <1>1 DEF QueryTypeOK
<1>8. \/ found' = found
      \/ found' = [found EXCEPT ![side] = Append(@, [m |-> m, depth |-> depth])]
  OBVIOUS
<1>9. [m |-> m, depth |-> depth] \in Listed
  BY <1>3, <1>4 DEF Listed
<1> HIDE DEF m, depth, new
<1>10. found' \in [Sides \cup {"path"} -> Seq(Listed)]
  <2>1. side \in Sides \cup {"path"}
    BY <1>1
  <2>2. Append(found[side], [m |-> m, depth |-> depth]) \in Seq(Listed)
    BY <1>7, <1>9
  <2> QED
    BY <1>7, <1>8, <2>1, <2>2
<1>11. at' \in Nat \ {0}
  BY <1>1 DEF QueryTypeOK
<1>12. queue' \in Seq(Entry)
  BY <1>1, <1>4, <1>5
<1>13. QueryTypeOK'
  BY <1>1, <1>10, <1>11, <1>12 DEF QueryTypeOK
<1>14. \A i \in DOMAIN queue : /\ queue[i].left \in Nat /\ Level - 1 <= queue[i].left
                               /\ queue[i].left <= Level /\ queue[i].left <= Limit
  <2>1. \A i \in DOMAIN queue : queue[i] \in Entry
    BY <1>1
  <2> QED
    BY <1>1, <2>1 DEF Layered, Entry
<1>15. \A i \in DOMAIN queue' : \/ i \in DOMAIN queue /\ queue'[i] = queue[i]
                                \/ i = Len(queue) + 1 /\ queue'[i] = new
  BY <1>1, <1>5
<1>16. \A i \in DOMAIN queue' : /\ Level - 1 <= queue'[i].left
                                /\ queue'[i].left <= Level /\ queue'[i].left <= Limit
  BY <1>1, <1>2, <1>4, <1>6, <1>14, <1>15
<1>17. \A i, j \in DOMAIN queue' : i < j => queue'[j].left <= queue'[i].left
  <2> SUFFICES ASSUME NEW i \in DOMAIN queue', NEW j \in DOMAIN queue', i < j
               PROVE  queue'[j].left <= queue'[i].left
    OBVIOUS
  <2>1. Len(queue) \in Nat /\ DOMAIN queue = 1 .. Len(queue)
    BY <1>1
  <2>2. i \in DOMAIN queue /\ queue'[i] = queue[i]
    <3>1. i \in Nat /\ j \in Nat /\ j <= Len(queue) + 1
      BY <1>15, <2>1
    <3> QED
      BY <1>15, <2>1, <3>1
  <2>3. CASE j \in DOMAIN queue
    <3>1. queue[j].left <= queue[i].left
      BY <1>1, <2>2, <2>3 DEF Layered
    <3>2. queue'[j] = queue[j]
      BY <1>15, <2>1, <2>3
    <3> QED
      BY <2>2, <3>1, <3>2
  <2>4. CASE j \notin DOMAIN queue
    <3>1. queue'[j] = new
      BY <1>15, <2>4
    <3> QED
      BY <1>2, <1>4, <1>6, <1>14, <2>2, <3>1
  <2> QED
    BY <2>3, <2>4
<1>18. \A i \in DOMAIN found[side] :
          found[side][i].depth \in Nat /\ found[side][i].depth <= depth
  <2>1. \A i \in DOMAIN found[side] : found[side][i] \in Listed
    BY <1>7
  <2>2. \A i \in DOMAIN found[side] : found[side][i].depth <= (Limit - Level) + 1
    BY <1>1 DEF Layered
  <2> QED
    BY <1>6, <2>1, <2>2 DEF Listed, depth
<1>19. \A i \in DOMAIN found'[side] :
          \/ i \in DOMAIN found[side] /\ found'[side][i] = found[side][i]
          \/ i = Len(found[side]) + 1 /\ found'[side][i].depth = depth
  <2>1. CASE found' = found
    BY <2>1
  <2>2. CASE found' = [found EXCEPT ![side] = Append(@, [m |-> m, depth |-> depth])]
    <3>1. found'[side] = Append(found[side], [m |-> m, depth |-> depth])
      BY <1>1, <1>7, <2>2
    <3> QED
      BY <1>7, <3>1
  <2> QED
    BY <1>8, <2>1, <2>2
<1>20. \A i \in DOMAIN found'[side] : found'[side][i].depth <= depth
  BY <1>4, <1>18, <1>19
<1>21. \A i \in DOMAIN found'[side] : found'[side][i].depth <= (Limit' - Level') + 1
  BY <1>1, <1>6, <1>20 DEF depth
<1>22. Layered'
  BY <1>1, <1>2, <1>6, <1>16, <1>17, <1>21 DEF Layered
<1>23. AscendingDepth'
  <2> SUFFICES ASSUME ask.kind \in {"impact", "deps"}, NEW s \in Sides,
                      NEW i \in DOMAIN found'[s], NEW j \in DOMAIN found'[s], i < j
               PROVE  found'[s][i].depth <= found'[s][j].depth
    BY DEF AscendingDepth
  <2>1. \A k, l \in DOMAIN found[s] : k < l => found[s][k].depth <= found[s][l].depth
    BY DEF IInv, AscendingDepth
  <2>2. CASE s # side
    <3>1. found'[s] = found[s]
      BY <1>7, <1>8, <2>2
    <3> QED
      BY <2>1, <3>1
  <2>3. CASE s = side
    <3>1. Len(found[side]) \in Nat /\ DOMAIN found[side] = 1 .. Len(found[side])
      BY <1>7
    <3>2. i \in DOMAIN found[side] /\ found'[side][i] = found[side][i]
      <4>1. i \in Nat /\ j \in Nat /\ j <= Len(found[side]) + 1
        BY <1>19, <2>3, <3>1
      <4> QED
        BY <1>19, <2>3, <3>1, <4>1
    <3>3. CASE j \in DOMAIN found[side] /\ found'[side][j] = found[side][j]
      BY <2>1, <2>3, <3>2, <3>3
    <3>4. CASE found'[side][j].depth = depth
      BY <1>18, <2>3, <3>2, <3>4
    <3> QED
      BY <1>19, <2>3, <3>3, <3>4
  <2> QED
    BY <2>2, <2>3
<1>24. Phased'
  BY <1>1, <1>7, <1>8 DEF IInv, Phased, Sides
<1>25. GraphMirrors'
  BY DEF IInv, GraphMirrors
<1> QED
  BY <1>13, <1>22, <1>23, <1>24, <1>25 DEF IInv

\* The search leaves a method; the level can only fall.
LEMMA LookedAtAllStep == ASSUME IInv, LookedAtAll PROVE IInv'
<1> USE DEF LookedAtAll, queryStore, answer, reading
<1>1. /\ QueryTypeOK /\ Layered /\ item # None /\ item' = None /\ queue' = queue
      /\ found' = found /\ Limit \in Nat /\ Limit' = Limit /\ side \in Sides
  BY LimitPositive, LimitKept DEF IInv, QueryTypeOK
<1>2. QueryTypeOK' /\ GraphMirrors' /\ Phased' /\ AscendingDepth'
  BY Unlisted DEF IInv, QueryTypeOK, GraphMirrors, Phased
<1>3. Layered'
  <2> SUFFICES ASSUME pc = "bfs" PROVE Layered'
    BY DEF Layered
  <2>1. CASE queue = <<>>
    BY <1>1, <2>1 DEF Layered
  <2>2. CASE queue # <<>>
    <3>1. 1 \in DOMAIN queue /\ queue[1] \in Entry /\ DOMAIN queue = 1 .. Len(queue)
      BY <1>1, <2>2 DEF QueryTypeOK
    <3>2. Level' = queue[1].left /\ Level = item.left /\ Level \in Nat /\ Level' \in Nat
      BY <1>1, <2>2, <3>1 DEF Level, QueryTypeOK, Entry
    <3>3. Level - 1 <= Level' /\ Level' <= Level
      BY <3>1, <3>2 DEF IInv, Layered
    <3>4. \A i \in DOMAIN queue : /\ queue[i].left \in Nat /\ queue[i].left <= Limit
                                  /\ Level - 1 <= queue[i].left
      <4>1. \A i \in DOMAIN queue : queue[i] \in Entry
        BY <1>1 DEF QueryTypeOK
      <4> QED
        BY <1>1, <4>1 DEF Entry, Layered
    <3>5. \A i, j \in DOMAIN queue : i < j => queue[j].left <= queue[i].left
      BY <1>1 DEF Layered
    <3>6. \A i \in DOMAIN queue : Level' - 1 <= queue[i].left /\ queue[i].left <= Level'
      <4> SUFFICES ASSUME NEW i \in DOMAIN queue
                   PROVE  Level' - 1 <= queue[i].left /\ queue[i].left <= Level'
        OBVIOUS
      <4>1. Level' - 1 <= queue[i].left
        BY <3>2, <3>3, <3>4
      <4>2. CASE i = 1
        BY <3>2, <4>1, <4>2
      <4>3. CASE i # 1
        <5>1. 1 < i
          BY <3>1, <4>3
        <5> QED
          BY <3>1, <3>2, <3>5, <4>1, <5>1
      <4> QED
        BY <4>2, <4>3
    <3>7. \A i \in DOMAIN found[side] : found[side][i].depth <= (Limit - Level') + 1
      <4>1. \A i \in DOMAIN found[side] : found[side][i] \in Listed
        BY <1>1 DEF QueryTypeOK
      <4>2. \A i \in DOMAIN found[side] : found[side][i].depth <= (Limit - Level) + 1
        BY <1>1 DEF Layered
      <4> QED
        BY <1>1, <3>2, <3>3, <4>1, <4>2 DEF Listed
    <3> QED
      BY <1>1, <3>4, <3>5, <3>6, <3>7 DEF Layered
  <2> QED
    BY <2>1, <2>2
<1> QED
  BY <1>2, <1>3 DEF IInv

LEMMA EndBreadthStep == ASSUME IInv, EndBreadth PROVE IInv'
<1> USE DEF EndBreadth, queryStore, answer, reading
<1>1. QueryTypeOK /\ item = None /\ item' = None
  BY DEF IInv
<1>2. GraphMirrors' /\ AscendingDepth'
  BY Unlisted DEF IInv, GraphMirrors
<1>3. CASE side = "callers"
  <2>1. found'[side'] = <<>> /\ side' = "callees"
    BY <1>3 DEF IInv, Phased
  <2>2. EnterBreadth(focus) /\ focus \in Names \cup {None} /\ pc' = "bfs"
    BY <1>1, <1>3 DEF QueryTypeOK
  <2>3. focus \in Names
    BY <1>3 DEF IInv, Phased
  <2>4. queue' \in Seq(Entry) /\ visited' \subseteq Names /\ stack' = stack /\ Layered'
    BY <1>1, <2>1, <2>2, <2>3, EnterBreadthFacts
  <2>5. QueryTypeOK'
    BY <1>1, <2>1, <2>2, <2>4 DEF QueryTypeOK, Sides
  <2>6. Phased'
    BY <2>1, <2>2 DEF IInv, Phased
  <2> QED
    BY <1>2, <2>4, <2>5, <2>6 DEF IInv
<1>4. CASE side # "callers"
  <2>1. QueryTypeOK' /\ Phased' /\ Layered'
    BY <1>1, <1>4 DEF IInv, QueryTypeOK, Phased, Layered, Pcs, Sides
  <2> QED
    BY <1>2, <2>1 DEF IInv
<1> QED
  BY <1>3, <1>4

-----------------------------------------------------------------------------
(* The depth-first search and the path: no query whose list is ordered.    *)

LEMMA OtherWalkStep ==
    ASSUME IInv, pc \in {"dfs", "path", "back"}, UNCHANGED <<ask, focus, graph>>,
           pc' \in {"dfs", "path", "back", "done"}, QueryTypeOK'
    PROVE  IInv'
<1>1. GraphMirrors' /\ Phased' /\ Layered'
  BY DEF IInv, GraphMirrors, Phased, Layered
<1>2. AscendingDepth'
  BY DEF IInv, Phased, AscendingDepth, Breadths
<1> QED
  BY <1>1, <1>2 DEF IInv

\* What a stack and a queue are made of.
Frame == [m : Names, left : Nat, at : Nat \ {0}]

LEMMA StackFacts ==
    ASSUME QueryTypeOK, stack # <<>>
    PROVE  /\ Head(stack) \in Frame /\ Tail(stack) \in Seq(Frame)
           /\ [Head(stack) EXCEPT !.at = @ + 1] \in Frame
<1>1. stack \in Seq(Frame)
  BY DEF QueryTypeOK, Frame
<1>2. Head(stack) \in Frame /\ Tail(stack) \in Seq(Frame)
  BY <1>1
<1>3. \A f \in Frame : [f EXCEPT !.at = @ + 1] \in Frame
  BY DEF Frame
<1> QED
  BY <1>2, <1>3

LEMMA DescendStep == ASSUME IInv, Descend PROVE IInv'
<1> USE DEF Descend, queryStore, answer, reading
<1> DEFINE frame == Head(stack)
           m == graph[side][frame.m][frame.at]
           rest == <<[frame EXCEPT !.at = @ + 1]>> \o Tail(stack)
           enter == frame.left > 1 /\ m \notin visited
           inner == [m |-> m, left |-> frame.left - 1, at |-> 1]
           listed == [m |-> m, depth |-> 0]
<1>1. /\ QueryTypeOK /\ stack # <<>> /\ side \in Sides
      /\ graph \in GraphType /\ found \in [Sides \cup {"path"} -> Seq(Listed)]
  BY DEF IInv, QueryTypeOK
<1>2. frame \in Frame /\ Tail(stack) \in Seq(Frame)
  BY <1>1, StackFacts
<1>3. frame.m \in Names /\ frame.at \in Nat \ {0} /\ frame.left \in Nat
  BY <1>2 DEF Frame
<1>4. m \in Names
  BY <1>1, <1>3, Neighbour
<1>5. [frame EXCEPT !.at = @ + 1] \in Frame
  BY <1>1, StackFacts
<1>6. rest \in Seq(Frame)
  BY <1>2, <1>5
<1>7. enter => inner \in Frame
  BY <1>3, <1>4 DEF Frame
<1>8. listed \in Listed
  BY <1>4 DEF Listed
<1>9. /\ found' = [found EXCEPT ![side] = Append(@, listed)]
      /\ stack' = IF enter THEN <<inner>> \o rest ELSE rest
      /\ visited' = IF enter THEN visited \cup {m} ELSE visited
  OBVIOUS
<1> HIDE DEF m, rest, enter, inner, listed, frame
<1>10. found' \in [Sides \cup {"path"} -> Seq(Listed)]
  <2>1. Append(found[side], listed) \in Seq(Listed) /\ side \in Sides \cup {"path"}
    BY <1>1, <1>8
  <2> QED
    BY <1>1, <1>9, <2>1
<1>11. stack' \in Seq(Frame)
  <2>1. enter => <<inner>> \o rest \in Seq(Frame)
    BY <1>6, <1>7
  <2> QED
    BY <1>6, <1>9, <2>1
<1>12. visited' \subseteq Names
  BY <1>1, <1>4, <1>9 DEF QueryTypeOK
<1>13. QueryTypeOK'
  BY <1>1, <1>10, <1>11, <1>12 DEF QueryTypeOK, Frame
<1> QED
  BY <1>13, OtherWalkStep

LEMMA ReturnStep == ASSUME IInv, Return PROVE IInv'
<1> USE DEF Return, queryStore, answer, reading
<1>1. Tail(stack) \in Seq([m : Names, left : Nat, at : Nat \ {0}])
  BY DEF IInv, QueryTypeOK
<1>2. QueryTypeOK'
  BY <1>1 DEF IInv, QueryTypeOK
<1> QED
  BY <1>2, OtherWalkStep

LEMMA EndDepthStep == ASSUME IInv, EndDepth PROVE IInv'
<1> USE DEF EndDepth, queryStore, answer, reading
<1>1. QueryTypeOK /\ focus \in Names /\ side' \in Sides
  BY DEF IInv, Phased, Sides
<1>2. CASE side = "callers"
  <2>1. EnterDepth(focus)
    BY <1>2
  <2>2. QueryTypeOK'
    BY <1>1, <1>2, <2>1, EnterDepthFacts DEF QueryTypeOK
  <2> QED
    BY <1>2, <2>2, OtherWalkStep
<1>3. CASE side # "callers"
  <2>1. QueryTypeOK'
    BY <1>1, <1>3 DEF QueryTypeOK, Pcs
  <2> QED
    BY <1>3, <2>1, OtherWalkStep
<1> QED
  BY <1>2, <1>3

LEMMA FindPathStep == ASSUME IInv, FindPath PROVE IInv'
<1> USE DEF FindPath, queryStore, answer, reading
<1>1. QueryTypeOK /\ focus' \in Names /\ goal' \in Names
  BY ResolveFacts DEF IInv
<1>2. queue' \in Seq(Entry) /\ visited' \subseteq Names
  BY <1>1 DEF Entry
<1>3. QueryTypeOK'
  BY <1>1, <1>2 DEF QueryTypeOK, Pcs, Sides
<1>4. GraphMirrors' /\ Phased' /\ Layered'
  BY <1>1 DEF IInv, GraphMirrors, Phased, Layered, Breadths
<1> QED
  BY <1>3, <1>4, Unlisted DEF IInv

LEMMA ExpandStep == ASSUME IInv, Expand PROVE IInv'
<1> USE DEF Expand, queryStore, answer, reading
<1>1. QueryTypeOK /\ queue \in Seq(Entry) /\ queue # <<>>
  BY DEF IInv, QueryTypeOK
<1>2. Head(queue) \in Entry /\ Tail(queue) \in Seq(Entry)
  BY <1>1
<1>3. item' \in [m : Names, left : Nat \ {0}]
  BY <1>2 DEF Entry
<1>4. QueryTypeOK'
  BY <1>1, <1>2, <1>3 DEF QueryTypeOK
<1> QED
  BY <1>4, OtherWalkStep

LEMMA LookAheadStep == ASSUME IInv, LookAhead PROVE IInv'
<1> USE DEF LookAhead, queryStore, answer, reading
<1> DEFINE m == graph[side][item.m][at]
<1>1. QueryTypeOK /\ side \in Sides /\ item.m \in Names /\ at \in Nat \ {0}
  BY DEF IInv, QueryTypeOK
<1>2. m \in Names
  BY <1>1, Neighbour DEF QueryTypeOK
<1>3. /\ visited' \in {visited, visited \cup {m}}
      /\ prev' \in {prev, [prev EXCEPT ![m] = item.m]}
      /\ queue' \in {queue, Append(queue, [m |-> m, left |-> 1])}
  OBVIOUS
<1> HIDE DEF m
<1>4. [m |-> m, left |-> 1] \in Entry
  BY <1>2 DEF Entry
<1>5. visited' \subseteq Names
  BY <1>1, <1>2, <1>3 DEF QueryTypeOK
<1>8. queue' \in Seq(Entry)
  <2>1. queue \in Seq(Entry)
    BY <1>1 DEF QueryTypeOK
  <2>2. Append(queue, [m |-> m, left |-> 1]) \in Seq(Entry)
    BY <1>4, <2>1
  <2> QED
    BY <1>3, <2>1, <2>2
<1>6. prev' \in [Names -> Names \cup {None}]
  BY <1>1, <1>2, <1>3 DEF QueryTypeOK
<1>7. QueryTypeOK'
  BY <1>1, <1>5, <1>6, <1>8 DEF QueryTypeOK
<1> QED
  BY <1>7, OtherWalkStep

LEMMA PathEndSteps == ASSUME IInv, Reach \/ NoPath PROVE IInv'
<1>1. QueryTypeOK'
  BY DEF IInv, QueryTypeOK, Reach, NoPath, Pcs, queryStore, answer, reading, walk
<1> QED
  BY <1>1, OtherWalkStep DEF Reach, NoPath, queryStore, answer, reading, walk

LEMMA StepBackStep == ASSUME IInv, StepBack PROVE IInv'
<1> USE DEF StepBack, queryStore, answer, reading
<1>1. QueryTypeOK /\ cursor \in Names
  BY DEF IInv, QueryTypeOK
<1>2. [m |-> cursor, depth |-> 0] \in Listed
  BY <1>1 DEF Listed
<1>3. <<[m |-> cursor, depth |-> 0]>> \o found.path \in Seq(Listed)
  BY <1>1, <1>2 DEF QueryTypeOK
<1>4. found' \in [Sides \cup {"path"} -> Seq(Listed)]
  <2>1. found \in [Sides \cup {"path"} -> Seq(Listed)]
    BY <1>1 DEF QueryTypeOK
  <2> QED
    BY <1>3, <2>1
<1>5. QueryTypeOK'
  BY <1>1, <1>4 DEF QueryTypeOK
<1> QED
  BY <1>5, OtherWalkStep

LEMMA AtStartStep == ASSUME IInv, AtStart PROVE IInv'
<1> USE DEF AtStart, queryStore, answer, reading, walk
<1>1. found' \in [Sides \cup {"path"} -> Seq(Listed)]
  <2>1. found \in [Sides \cup {"path"} -> Seq(Listed)]
    BY DEF IInv, QueryTypeOK
  <2>2. <<>> \in Seq(Listed)
    OBVIOUS
  <2>3. [found EXCEPT !.path = <<>>] \in [Sides \cup {"path"} -> Seq(Listed)]
    BY <2>1, <2>2
  <2> QED
    BY <2>1, <2>3
<1>2. QueryTypeOK'
  BY <1>1 DEF IInv, QueryTypeOK, Pcs
<1> QED
  BY <1>2, OtherWalkStep

-----------------------------------------------------------------------------
(* The theorems. *)

\* IInv holds in every reachable state.
THEOREM Inductive == QuerySpec => []IInv
<1>1. IInv /\ [QueryNext]_queryVars => IInv'
  <2> SUFFICES ASSUME IInv, [QueryNext]_queryVars PROVE IInv'
    OBVIOUS
  <2>1. CASE UNCHANGED queryVars
    BY <2>1 DEF IInv, QueryTypeOK, GraphMirrors, Phased, Layered, AscendingDepth, Level, Limit,
                queryVars, queryStore, answer, reading, walk
  <2>2. ASSUME NEW f \in DOMAIN calls, Rescan(f) PROVE IInv'
    BY <2>2, RescanStep
  <2>3. CASE ReadFile \/ AddCall \/ Built \/ ReadFails \/ KeepGraph \/ Locate \/ NotFound
    BY <2>3, ReadFileStep, AddCallStep, BuiltStep, ReadFailsStep, KeepStep, LocateStep, NotFoundStep
  <2>4. CASE Find \/ FindPath
    BY <2>4, FindStep, FindPathStep
  <2>5. CASE Dequeue \/ LookAt \/ LookedAtAll \/ EndBreadth
    BY <2>5, DequeueStep, LookAtStep, LookedAtAllStep, EndBreadthStep
  <2>6. CASE Descend \/ Return \/ EndDepth
    BY <2>6, DescendStep, ReturnStep, EndDepthStep
  <2>7. CASE Expand \/ LookAhead \/ Reach \/ NoPath \/ StepBack \/ AtStart
    BY <2>7, ExpandStep, LookAheadStep, PathEndSteps, StepBackStep, AtStartStep
  <2>8. CASE Stopped
    BY <2>1, <2>8 DEF Stopped
  <2> QED
    BY <2>1, <2>2, <2>3, <2>4, <2>5, <2>6, <2>7, <2>8 DEF QueryNext
<1> QED
  BY InitStep, <1>1, PTL DEF QuerySpec

\* For every set of names, every store and every query: types, callers and callees
\* that agree in every graph AddEdge builds, and lists of GetImpact in order of
\* depth, whatever the graph.
THEOREM GraphsStaySound == QuerySpec => []GraphsSound
<1>1. IInv => GraphsSound
  BY DEF IInv, GraphsSound
<1> QED
  BY Inductive, <1>1, PTL

-----------------------------------------------------------------------------
(* How far a search has come: Within, for every graph.                     *)

\* A set of nodes and their neighbours.
Around(g, s, X) == X \cup UNION {ToSet(g[s][n]) : n \in X}

BallNext(f, g, s, m, i) == IF i = 0 THEN {m} ELSE Around(g, s, f[i - 1])

\* The recursive function of Within exists, for it extends to the next number;
\* so Within is what it says, step by step.
LEMMA BallSteps ==
    \A g, s, m : \A k \in Nat :
        \E f : (\A i \in 0 .. k : f[i] = BallNext(f, g, s, m, i)) /\ Within(g, s, m, k) = f[k]
<1> TAKE g, s, m
<1> TAKE k \in Nat
<1> DEFINE Upto(n, f) == f = [i \in 0 .. n |-> BallNext(f, g, s, m, i)]
           I == {n \in Nat : \E f : Upto(n, f)}
<1>1. 0 \in I
  <2>1. Upto(0, [i \in 0 .. 0 |-> {m}])
    BY DEF BallNext
  <2> QED
    BY <2>1
<1>2. ASSUME NEW n \in I PROVE n + 1 \in I
  <2>1. PICK f : Upto(n, f)
    OBVIOUS
  <2>2. n \in Nat /\ n + 1 \in Nat /\ \A i \in 0 .. n : f[i] = BallNext(f, g, s, m, i)
    BY <2>1
  <2> DEFINE h == [i \in 0 .. n + 1 |-> IF i <= n THEN f[i] ELSE BallNext(f, g, s, m, i)]
  <2>3. ASSUME NEW i \in 0 .. n + 1 PROVE h[i] = BallNext(h, g, s, m, i)
    <3>1. i # 0 => h[i - 1] = f[i - 1]
      BY <2>2
    <3>2. h[i] = BallNext(f, g, s, m, i)
      BY <2>2
    <3> HIDE DEF h
    <3> QED
      BY <3>1, <3>2 DEF BallNext
  <2>4. Upto(n + 1, h)
    <3>1. h = [i \in 0 .. n + 1 |-> h[i]]
      OBVIOUS
    <3> HIDE DEF h
    <3> QED
      BY <2>3, <3>1
  <2> HIDE DEF Upto, h
  <2> QED
    BY <2>2, <2>4
<1>3. Nat \subseteq I
  <2> HIDE DEF I
  <2> QED
    BY <1>1, <1>2, SetInduction
<1> DEFINE ball == CHOOSE f : Upto(k, f)
<1>4. \E f : Upto(k, f)
  BY <1>3
<1>5. Upto(k, ball)
  <2> HIDE DEF Upto
  <2> QED
    BY <1>4
<1>6. Within(g, s, m, k) = ball[k]
  BY DEF Within, BallNext, Around
<1>7. \A i \in 0 .. k : ball[i] = BallNext(ball, g, s, m, i)
  <2> HIDE DEF ball
  <2> QED
    BY <1>5, Zenon
<1> HIDE DEF ball
<1> QED
  BY <1>6, <1>7

\* One more step reaches the neighbours of what is within reach.
LEMMA WithinSteps ==
    \A g, s, m :
        /\ Within(g, s, m, 0) = {m}
        /\ \A k \in Nat : Within(g, s, m, k + 1) = Around(g, s, Within(g, s, m, k))
<1> TAKE g, s, m
<1>1. Within(g, s, m, 0) = {m}
  <2>1. PICK f : (\A i \in 0 .. 0 : f[i] = BallNext(f, g, s, m, i)) /\ Within(g, s, m, 0) = f[0]
    BY BallSteps
  <2> QED
    BY <2>1 DEF BallNext
<1>2. ASSUME NEW k \in Nat PROVE Within(g, s, m, k + 1) = Around(g, s, Within(g, s, m, k))
  <2>1. PICK f : (\A i \in 0 .. k : f[i] = BallNext(f, g, s, m, i)) /\ Within(g, s, m, k) = f[k]
    BY BallSteps
  <2>2. PICK h : (\A i \in 0 .. k + 1 : h[i] = BallNext(h, g, s, m, i)) /\ Within(g, s, m, k + 1) = h[k + 1]
    <3>1. k + 1 \in Nat
      OBVIOUS
    <3> QED
      BY <3>1, BallSteps
  <2> DEFINE I == {n \in Nat : n <= k => f[n] = h[n]}
  <2>3. 0 \in I
    BY <2>1, <2>2 DEF BallNext
  <2>4. ASSUME NEW n \in Nat, n \in I PROVE n + 1 \in I
    <3> SUFFICES ASSUME n + 1 <= k PROVE f[n + 1] = h[n + 1]
      OBVIOUS
    <3>1. f[n] = h[n] /\ (n + 1) - 1 = n /\ n + 1 # 0 /\ n + 1 \in 0 .. k /\ n + 1 \in 0 .. k + 1
      BY <2>4
    <3>2. f[n + 1] = BallNext(f, g, s, m, n + 1) /\ h[n + 1] = BallNext(h, g, s, m, n + 1)
      BY <2>1, <2>2, <3>1
    <3> QED
      BY <3>1, <3>2 DEF BallNext
  <2>5. Nat \subseteq I
    <3> HIDE DEF I
    <3> QED
      BY <2>3, <2>4, SetInduction
  <2>6. f[k] = h[k]
    BY <2>5
  <2>7. h[k + 1] = BallNext(h, g, s, m, k + 1) /\ (k + 1) - 1 = k /\ k + 1 # 0
    BY <2>2
  <2> QED
    BY <2>1, <2>2, <2>6, <2>7 DEF BallNext
<1> QED
  BY <1>1, <1>2

\* The neighbours of a node, by their places in its list.
LEMMA AroundPlaces ==
    ASSUME NEW g \in GraphType, NEW s \in Sides, NEW X \in SUBSET Names
    PROVE  /\ Around(g, s, X) \in SUBSET Names
           /\ \A n : n \in Around(g, s, X) <=>
                 n \in X \/ \E p \in X : \E i \in 1 .. Len(g[s][p]) : n = g[s][p][i]
<1>1. \A p \in Names : g[s][p] \in Seq(Names)
  BY DEF GraphType
<1>2. \A p \in Names : DOMAIN g[s][p] = 1 .. Len(g[s][p]) /\ \A i \in 1 .. Len(g[s][p]) : g[s][p][i] \in Names
  BY <1>1
<1>3. \A p \in Names : ToSet(g[s][p]) = {g[s][p][i] : i \in 1 .. Len(g[s][p])}
  BY <1>2 DEF ToSet
<1>4. \A n : n \in Around(g, s, X) <=> n \in X \/ \E p \in X : n \in ToSet(g[s][p])
  BY DEF Around
<1>5. \A n : n \in Around(g, s, X) <=> n \in X \/ \E p \in X : \E i \in 1 .. Len(g[s][p]) : n = g[s][p][i]
  <2> SUFFICES ASSUME NEW n
               PROVE  n \in Around(g, s, X) <=> n \in X \/ \E p \in X : \E i \in 1 .. Len(g[s][p]) : n = g[s][p][i]
    OBVIOUS
  <2>1. ASSUME NEW p \in X, n \in ToSet(g[s][p])
        PROVE  \E i \in 1 .. Len(g[s][p]) : n = g[s][p][i]
    BY <1>3, <2>1
  <2>2. ASSUME NEW p \in X, NEW i \in 1 .. Len(g[s][p]), n = g[s][p][i]
        PROVE  n \in ToSet(g[s][p])
    BY <1>3, <2>2
  <2> QED
    BY <1>4, <2>1, <2>2
<1>6. Around(g, s, X) \in SUBSET Names
  BY <1>2, <1>5
<1> QED
  BY <1>5, <1>6

LEMMA WithinNames ==
    ASSUME NEW g \in GraphType, NEW s \in Sides, NEW m \in Names, NEW k \in Nat
    PROVE  Within(g, s, m, k) \in SUBSET Names
<1> DEFINE I == {n \in Nat : Within(g, s, m, n) \in SUBSET Names}
<1>1. 0 \in I
  BY WithinSteps
<1>2. ASSUME NEW n \in Nat, n \in I PROVE n + 1 \in I
  <2>1. Within(g, s, m, n) \in SUBSET Names
    BY <1>2
  <2>2. Around(g, s, Within(g, s, m, n)) \in SUBSET Names
    BY <2>1, AroundPlaces
  <2> QED
    BY <2>2, WithinSteps
<1>3. Nat \subseteq I
  <2> HIDE DEF I
  <2> QED
    BY <1>1, <1>2, SetInduction
<1> QED
  BY <1>3

\* What a step reaches, and what it keeps.
LEMMA WithinNext ==
    ASSUME NEW g \in GraphType, NEW s \in Sides, NEW m \in Names, NEW k \in Nat
    PROVE  /\ Within(g, s, m, k) \subseteq Within(g, s, m, k + 1)
           /\ \A n : n \in Within(g, s, m, k + 1) <=>
                 \/ n \in Within(g, s, m, k)
                 \/ \E p \in Within(g, s, m, k) : \E i \in 1 .. Len(g[s][p]) : n = g[s][p][i]
<1>1. Within(g, s, m, k) \in SUBSET Names
  BY WithinNames
<1>2. Within(g, s, m, k + 1) = Around(g, s, Within(g, s, m, k))
  BY WithinSteps
<1> DEFINE X == Within(g, s, m, k)
<1>3. \A n : n \in Around(g, s, X) <=> n \in X \/ \E p \in X : \E i \in 1 .. Len(g[s][p]) : n = g[s][p][i]
  <2>1. X \in SUBSET Names
    BY <1>1
  <2> HIDE DEF X
  <2> QED
    BY <2>1, AroundPlaces
<1> QED
  BY <1>2, <1>3

LEMMA WithinGrows ==
    ASSUME NEW g \in GraphType, NEW s \in Sides, NEW m \in Names, NEW j \in Nat, NEW k \in Nat, j <= k
    PROVE  Within(g, s, m, j) \subseteq Within(g, s, m, k)
<1> DEFINE I == {n \in Nat : Within(g, s, m, j) \subseteq Within(g, s, m, j + n)}
<1>1. 0 \in I
  OBVIOUS
<1>2. ASSUME NEW n \in Nat, n \in I PROVE n + 1 \in I
  <2>1. Within(g, s, m, j + n) \subseteq Within(g, s, m, (j + n) + 1)
    BY WithinNext
  <2>2. (j + n) + 1 = j + (n + 1)
    OBVIOUS
  <2> QED
    BY <1>2, <2>1, <2>2
<1>3. Nat \subseteq I
  <2> HIDE DEF I
  <2> QED
    BY <1>1, <1>2, SetInduction
<1>4. k - j \in Nat /\ j + (k - j) = k
  OBVIOUS
<1> QED
  BY <1>3, <1>4

\* A set that contains the start and, with each node, its neighbours contains
\* all that can be reached.
LEMMA WithinClosed ==
    ASSUME NEW g \in GraphType, NEW s \in Sides, NEW m \in Names, NEW X, m \in X,
           \A p \in X \cap Names : \A i \in 1 .. Len(g[s][p]) : g[s][p][i] \in X,
           NEW k \in Nat
    PROVE  Within(g, s, m, k) \subseteq X
<1> DEFINE I == {n \in Nat : Within(g, s, m, n) \subseteq X}
<1>1. 0 \in I
  BY WithinSteps
<1>2. ASSUME NEW n \in Nat, n \in I PROVE n + 1 \in I
  <2>1. Within(g, s, m, n) \subseteq X /\ Within(g, s, m, n) \subseteq Names
    BY <1>2, WithinNames
  <2> QED
    BY <2>1, WithinNext
<1>3. Nat \subseteq I
  <2> HIDE DEF I
  <2> QED
    BY <1>1, <1>2, SetInduction
<1> QED
  BY <1>3

\* What is within reach has a distance, and one only.
LEMMA DistanceExists ==
    ASSUME NEW g \in GraphType, NEW s \in Sides, NEW m \in Names, NEW n, NEW k \in Nat,
           n \in Within(g, s, m, k)
    PROVE  \E d \in 0 .. k : IsDistance(g, s, m, n, d)
<1> DEFINE I == {j \in Nat : n \in Within(g, s, m, j) => \E d \in 0 .. j : IsDistance(g, s, m, n, d)}
<1>1. 0 \in I
  BY DEF IsDistance
<1>2. ASSUME NEW j \in Nat, j \in I PROVE j + 1 \in I
  <2> SUFFICES ASSUME n \in Within(g, s, m, j + 1) PROVE \E d \in 0 .. j + 1 : IsDistance(g, s, m, n, d)
    OBVIOUS
  <2>1. CASE n \in Within(g, s, m, j)
    BY <1>2, <2>1
  <2>2. CASE n \notin Within(g, s, m, j)
    <3>1. (j + 1) - 1 = j /\ j + 1 \in 0 .. j + 1
      OBVIOUS
    <3>2. IsDistance(g, s, m, n, j + 1)
      BY <2>2, <3>1 DEF IsDistance
    <3> QED
      BY <3>1, <3>2
  <2> QED
    BY <2>1, <2>2
<1>3. Nat \subseteq I
  <2> HIDE DEF I
  <2> QED
    BY <1>1, <1>2, SetInduction
<1> QED
  BY <1>3

LEMMA DistanceUnique ==
    ASSUME NEW g \in GraphType, NEW s \in Sides, NEW m \in Names, NEW n, NEW d \in Nat, NEW k \in Nat,
           IsDistance(g, s, m, n, d), n \in Within(g, s, m, k)
    PROVE  d <= k
<1> SUFFICES ASSUME k < d PROVE FALSE
  OBVIOUS
<1>1. d - 1 \in Nat /\ k <= d - 1 /\ d > 0
  OBVIOUS
<1>2. Within(g, s, m, k) \subseteq Within(g, s, m, d - 1)
  BY <1>1, WithinGrows
<1> QED
  BY <1>1, <1>2 DEF IsDistance

-----------------------------------------------------------------------------
(* The breadth-first search finds what is within the limit, where it is.   *)

Reached(k) == Within(graph, side, focus, k)

\* The answer has n at depth d.
InList(n, d) == \E i \in DOMAIN found[side] : found[side][i] = [m |-> n, depth |-> d]

\* Known to the search while it goes through the nodes k steps away: within k
\* steps, or in the queue for the next round.
Seen(k, n) ==
    n \in Reached(k) \/ \E j \in DOMAIN queue : queue[j].m = n /\ queue[j].left = (Limit - k) - 1

\* The queue holds nodes at most k or k + 1 steps away.
QueueLayer(k) ==
    \A i \in DOMAIN queue :
        \/ queue[i].left = Limit - k /\ queue[i].m \in Reached(k)
        \/ /\ queue[i].left = (Limit - k) - 1 /\ queue[i].m \in Reached(k + 1)
           /\ queue[i].m \in Reached(k) \/ InList(queue[i].m, k + 1)

\* What is marked lies within k steps, and all that is less far away is marked;
\* what is k steps away and not marked waits in the queue; and the neighbours
\* of what is marked have been seen, but for those of item still to be looked at.
VisitedLayer(k) ==
    /\ item # None => item.left = Limit - k /\ item.m \in visited
    /\ visited \subseteq Reached(k)
    /\ k > 0 => Reached(k - 1) \subseteq visited
    /\ \A n \in Reached(k) \ visited : \E i \in DOMAIN queue : queue[i].m = n /\ queue[i].left = Limit - k
    /\ k < Limit =>
          \A p \in visited : \A i \in 1 .. Len(graph[side][p]) :
              (item # None /\ p = item.m => i < at) => Seen(k, graph[side][p][i])

\* The answer names only what is there, and all that is at most k steps away at
\* its distance.
ListLayer(k) ==
    /\ \A n \in Names \ {focus}, d \in 1 .. k : IsDistance(graph, side, focus, n, d) => InList(n, d)
    /\ \A i \in DOMAIN found[side] :
          found[side][i].depth \in 1 .. Limit /\ found[side][i].m \in Reached(found[side][i].depth)

Layer(k) == QueueLayer(k) /\ VisitedLayer(k) /\ ListLayer(k)

\* NearestListed for one of the lists.
Exact(s) ==
    \A n \in Names \ {focus}, d \in 1 .. Limit :
        IsDistance(graph, s, focus, n, d) <=>
            \E i \in DOMAIN found[s] :
                /\ found[s][i] = [m |-> n, depth |-> d]
                /\ \A j \in 1 .. i - 1 : found[s][j].m # n

BreadthInv ==
    /\ pc \in {"read", "resolve"} => focus = None
    /\ pc = "bfs" => \E k \in 0 .. Limit : Layer(k)
    /\ ask.kind \in Breadths /\ focus # None =>
          /\ (pc = "bfs" /\ side = "callees") \/ pc = "done" => Exact("callers")
          /\ pc = "done" => Exact("callees")

-----------------------------------------------------------------------------
\* Reached, for a search that has begun.
LEMMA ReachedFacts ==
    ASSUME QueryTypeOK, focus \in Names
    PROVE  /\ Reached(0) = {focus}
           /\ \A k \in Nat : Reached(k) \in SUBSET Names
           /\ \A j, k \in Nat : j <= k => Reached(j) \subseteq Reached(k)
           /\ \A k \in Nat : \A n : n \in Reached(k + 1) <=>
                 \/ n \in Reached(k)
                 \/ \E p \in Reached(k) : \E i \in 1 .. Len(graph[side][p]) : n = graph[side][p][i]
           /\ \A n : \A d, k \in Nat : IsDistance(graph, side, focus, n, d) /\ n \in Reached(k) => d <= k
           /\ \A n : \A k \in Nat : n \in Reached(k) => \E d \in 0 .. k : IsDistance(graph, side, focus, n, d)
<1>1. graph \in GraphType /\ side \in Sides
  BY DEF QueryTypeOK
<1>2. Reached(0) = {focus}
  BY WithinSteps DEF Reached
<1>3. \A k \in Nat : Reached(k) \in SUBSET Names
  BY <1>1, WithinNames DEF Reached
<1>4. \A j, k \in Nat : j <= k => Reached(j) \subseteq Reached(k)
  BY <1>1, WithinGrows DEF Reached
<1>5. \A k \in Nat : \A n : n \in Reached(k + 1) <=>
         \/ n \in Reached(k)
         \/ \E p \in Reached(k) : \E i \in 1 .. Len(graph[side][p]) : n = graph[side][p][i]
  BY <1>1, WithinNext DEF Reached
<1>6. \A n : \A d, k \in Nat : IsDistance(graph, side, focus, n, d) /\ n \in Reached(k) => d <= k
  BY <1>1, DistanceUnique DEF Reached
<1>7. \A n : \A k \in Nat : n \in Reached(k) => \E d \in 0 .. k : IsDistance(graph, side, focus, n, d)
  BY <1>1, DistanceExists DEF Reached
<1> QED
  BY <1>2, <1>3, <1>4, <1>5, <1>6, <1>7

\* A search begins with its start in the queue.
LEMMA FirstLayer ==
    ASSUME QueryTypeOK, QueryTypeOK', focus' \in Names, EnterBreadth(focus'), UNCHANGED <<ask, item>>,
           item = None, found'[side'] = <<>>
    PROVE  Layer(0)'
<1>1. queue' = <<[m |-> focus', left |-> Limit]>> /\ visited' = {} /\ Limit' = Limit /\ Limit \in Nat \ {0}
  BY LimitPositive, LimitKept DEF EnterBreadth
<1>2. Reached(0)' = {focus'}
  BY WithinSteps DEF Reached
<1>3. DOMAIN queue' = {1} /\ queue'[1].m = focus' /\ queue'[1].left = Limit'
  BY <1>1
<1>4. QueueLayer(0)'
  BY <1>1, <1>2, <1>3 DEF QueueLayer
<1>5. VisitedLayer(0)'
  BY <1>1, <1>2, <1>3 DEF VisitedLayer
<1>6. ListLayer(0)'
  BY <1>1 DEF ListLayer
<1> QED
  BY <1>4, <1>5, <1>6 DEF Layer

\* When the queue holds nothing for the round, the next round has begun.
LEMMA NextLayer ==
    ASSUME QueryTypeOK, focus \in Names, NEW k \in 0 .. Limit, k < Limit, Layer(k), item = None,
           \A i \in DOMAIN queue : queue[i].left # Limit - k
    PROVE  Layer(k + 1)
<1>1. Limit \in Nat \ {0} /\ k \in Nat /\ k + 1 \in Nat /\ (k + 1) - 1 = k /\ k + 1 > 0
  BY LimitPositive
<1>2. \A i \in DOMAIN queue : /\ queue[i].left = Limit - (k + 1) /\ queue[i].m \in Reached(k + 1)
                              /\ queue[i].m \in Reached(k) \/ InList(queue[i].m, k + 1)
  BY <1>1 DEF Layer, QueueLayer
<1>3. Reached(k) \subseteq visited /\ visited \subseteq Reached(k) /\ Reached(k) \subseteq Reached(k + 1)
  <2>1. Reached(k) \subseteq Reached(k + 1)
    BY <1>1, ReachedFacts
  <2> QED
    BY <2>1 DEF Layer, VisitedLayer
<1>4. \A n \in Reached(k + 1) \ Reached(k) : \E i \in DOMAIN queue : queue[i].m = n
  <2> SUFFICES ASSUME NEW n \in Reached(k + 1), n \notin Reached(k)
               PROVE  \E i \in DOMAIN queue : queue[i].m = n
    OBVIOUS
  <2>1. PICK p \in Reached(k) : \E i \in 1 .. Len(graph[side][p]) : n = graph[side][p][i]
    <3>1. \A q : q \in Reached(k + 1) <=>
             \/ q \in Reached(k)
             \/ \E p \in Reached(k) : \E i \in 1 .. Len(graph[side][p]) : q = graph[side][p][i]
      BY <1>1, ReachedFacts
    <3> QED
      BY <3>1, Zenon
  <2>2. PICK i \in 1 .. Len(graph[side][p]) : n = graph[side][p][i]
    BY <2>1
  <2>3. Seen(k, n)
    BY <1>3, <2>2 DEF Layer, VisitedLayer
  <2> QED
    BY <2>3 DEF Seen
<1>5. QueueLayer(k + 1)
  BY <1>1, <1>2 DEF QueueLayer
<1>6. VisitedLayer(k + 1)
  <2>1. \A n \in Reached(k + 1) \ visited : \E i \in DOMAIN queue : queue[i].m = n /\ queue[i].left = Limit - (k + 1)
    BY <1>2, <1>3, <1>4
  <2>2. \A p \in visited : \A i \in 1 .. Len(graph[side][p]) : graph[side][p][i] \in Reached(k + 1)
    BY <1>1, <1>3, ReachedFacts
  <2> QED
    BY <1>1, <1>3, <2>1, <2>2 DEF VisitedLayer, Seen
<1>7. ListLayer(k + 1)
  <2>1. ASSUME NEW n \in Names \ {focus}, IsDistance(graph, side, focus, n, k + 1) PROVE InList(n, k + 1)
    <3>1. n \in Reached(k + 1) /\ n \notin Reached(k)
      BY <1>1, <2>1 DEF IsDistance, Reached
    <3>2. PICK i \in DOMAIN queue : queue[i].m = n
      BY <1>4, <3>1
    <3> QED
      BY <1>2, <3>1, <3>2
  <2>2. \A d \in 1 .. k + 1 : d \in 1 .. k \/ d = k + 1
    BY <1>1
  <2> QED
    BY <2>1, <2>2 DEF Layer, ListLayer
<1> QED
  BY <1>5, <1>6, <1>7 DEF Layer
\* Nothing that the search's records are about has changed.
SameSearch == UNCHANGED <<graph, side, focus, ask>>

LEMMA SameReached == ASSUME SameSearch, NEW k PROVE Reached(k)' = Reached(k) /\ Limit' = Limit
  BY DEF SameSearch, Reached, Limit

\* The head of the queue is taken, in its own round.
LEMMA DequeueLayer ==
    ASSUME QueryTypeOK, focus \in Names, NEW k \in 0 .. Limit, Layer(k), Dequeue,
           Head(queue).left = Limit - k
    PROVE  Layer(k)'
<1> DEFINE head == Head(queue)
           enter == head.m \notin visited /\ head.left > 0
<1>1. /\ queue \in Seq(Entry) /\ queue # <<>> /\ item = None /\ queue' = Tail(queue)
      /\ visited' = visited \cup {head.m} /\ item' = (IF enter THEN head ELSE None)
      /\ at' = (IF enter THEN 1 ELSE at) /\ SameSearch /\ found' = found
  BY DEF Dequeue, QueryTypeOK, SameSearch, answer, reading
<1>2. Limit \in Nat \ {0} /\ k \in Nat /\ Limit' = Limit /\ \A j : Reached(j)' = Reached(j)
  BY <1>1, LimitPositive, SameReached
<1>3. /\ head = queue[1] /\ 1 \in DOMAIN queue /\ head \in Entry /\ DOMAIN queue = 1 .. Len(queue) /\ Len(queue) \in Nat
      /\ DOMAIN queue' = 1 .. Len(queue) - 1
      /\ \A i \in DOMAIN queue' : i + 1 \in DOMAIN queue /\ queue'[i] = queue[i + 1]
      /\ \A i \in DOMAIN queue : i # 1 => i - 1 \in DOMAIN queue' /\ queue'[i - 1] = queue[i]
  BY <1>1
<1>4. head.left = Limit - k /\ head.left \in Nat /\ head.m \in Reached(k) /\ head # None
  <2>1. head.left # (Limit - k) - 1
    BY <1>2
  <2>2. queue[1].left = Limit - k /\ queue[1].m \in Reached(k)
    BY <1>3, <2>1 DEF Layer, QueueLayer
  <2> QED
    BY <1>3, <2>2, EntryNotNone DEF Entry
<1>5. \A n, d : InList(n, d)' <=> InList(n, d)
  BY <1>1 DEF InList, SameSearch
<1>6. \A n : Seen(k, n) => Seen(k, n)'
  <2> SUFFICES ASSUME NEW n, Seen(k, n), n \notin Reached(k) PROVE Seen(k, n)'
    BY <1>2 DEF Seen
  <2>1. PICK j \in DOMAIN queue : queue[j].m = n /\ queue[j].left = (Limit - k) - 1
    BY DEF Seen
  <2>2. j # 1
    BY <1>2, <1>3, <1>4, <2>1
  <2> QED
    BY <1>2, <1>3, <2>1, <2>2 DEF Seen
<1>7. QueueLayer(k)'
  BY <1>2, <1>3, <1>5 DEF Layer, QueueLayer
<1> HIDE DEF head
<1>8. VisitedLayer(k)'
  <2>1. item' # None => item'.left = Limit - k /\ item'.m \in visited'
    BY <1>1, <1>4
  <2>2. visited' \subseteq Reached(k) /\ (k > 0 => Reached(k - 1) \subseteq visited')
    BY <1>1, <1>4 DEF Layer, VisitedLayer
  <2>3. \A n \in Reached(k) \ visited' : \E i \in DOMAIN queue' : queue'[i].m = n /\ queue'[i].left = Limit - k
    <3> SUFFICES ASSUME NEW n \in Reached(k), n \notin visited, n # head.m
                 PROVE  \E i \in DOMAIN queue' : queue'[i].m = n /\ queue'[i].left = Limit - k
      BY <1>1
    <3>1. PICK i \in DOMAIN queue : queue[i].m = n /\ queue[i].left = Limit - k
      BY DEF Layer, VisitedLayer
    <3>2. i # 1
      BY <1>3, <3>1
    <3> QED
      BY <1>3, <3>1, <3>2
  <2>4. ASSUME k < Limit, NEW p \in visited', NEW i \in 1 .. Len(graph[side][p]), item' # None /\ p = item'.m => i < at'
        PROVE  \A q : q = graph[side][p][i] => Seen(k, q)'
    <3>1. CASE p \in visited
      <4>1. Seen(k, graph[side][p][i])
        BY <1>1, <2>4, <3>1 DEF Layer, VisitedLayer
      <4> QED
        BY <1>6, <4>1
    <3>2. CASE p \notin visited
      <4>1. p = head.m /\ head.left > 0
        BY <1>1, <1>2, <1>4, <2>4, <3>2
      <4>2. item' = head /\ at' = 1
        BY <1>1, <3>2, <4>1
      <4> QED
        BY <1>4, <2>4, <4>1, <4>2
    <3> QED
      BY <3>1, <3>2
  <2>5. (k < Limit =>
            \A p \in visited : \A i \in 1 .. Len(graph[side][p]) :
                (item # None /\ p = item.m => i < at) => Seen(k, graph[side][p][i]))'
    <3>1. UNCHANGED <<graph, side>> /\ Limit' = Limit /\ Reached(k)' = Reached(k)
      BY <1>1, <1>2 DEF SameSearch
    <3> SUFFICES ASSUME k < Limit, NEW p \in visited', NEW i \in 1 .. Len(graph[side][p]),
                        item' # None /\ p = item'.m => i < at'
                 PROVE  \/ graph[side][p][i] \in Reached(k)
                        \/ \E j \in DOMAIN queue' : queue'[j].m = graph[side][p][i] /\ queue'[j].left = (Limit - k) - 1
      BY <3>1 DEF Seen
    <3>2. \A q : q = graph[side][p][i] => Seen(k, q)'
      BY <1>1, <2>4
    <3> QED
      BY <3>1, <3>2 DEF Seen
  <2> QED
    BY <1>1, <1>2, <2>1, <2>2, <2>3, <2>5 DEF VisitedLayer, SameSearch
<1>9. ListLayer(k)'
  BY <1>1, <1>2, <1>5 DEF Layer, ListLayer, SameSearch
<1> QED
  BY <1>7, <1>8, <1>9 DEF Layer

\* A neighbour joins the queue for the next round, and the list if it was not
\* marked.
LEMMA LookAtLayer ==
    ASSUME QueryTypeOK, focus \in Names, NEW k \in 0 .. Limit, Layer(k), LookAt
    PROVE  Layer(k)'
<1> PICK n : n = graph[side][item.m][at]
  OBVIOUS
<1> DEFINE new == [m |-> n, left |-> item.left - 1]
           listed == [m |-> n, depth |-> (Limit - item.left) + 1]
<1>1. /\ queue \in Seq(Entry) /\ item # None /\ at <= Len(graph[side][item.m]) /\ queue' = Append(queue, new)
      /\ found' = (IF n \in visited THEN found ELSE [found EXCEPT ![side] = Append(@, listed)])
      /\ at' = at + 1 /\ SameSearch /\ UNCHANGED <<item, visited>>
  BY DEF LookAt, QueryTypeOK, SameSearch, answer, reading
<1>2. Limit \in Nat \ {0} /\ k \in Nat /\ k + 1 \in Nat /\ Limit' = Limit /\ \A j : Reached(j)' = Reached(j)
  BY <1>1, LimitPositive, SameReached
<1>3. /\ item.m \in Names /\ item.left \in Nat \ {0} /\ item.left = Limit - k /\ item.m \in visited
      /\ item.m \in Reached(k) /\ at \in Nat \ {0} /\ graph \in GraphType /\ side \in Sides
  BY <1>1 DEF QueryTypeOK, Layer, VisitedLayer
<1>4. k < Limit /\ k + 1 \in 1 .. Limit /\ new.left = (Limit - k) - 1 /\ new.m = n /\ listed = [m |-> n, depth |-> k + 1]
  BY <1>2, <1>3
<1>5. n \in Names /\ n \in Reached(k + 1)
  <2>1. at \in 1 .. Len(graph[side][item.m]) /\ n = graph[side][item.m][at]
    <3>1. graph[side][item.m] \in Seq(Names)
      BY <1>3 DEF GraphType
    <3>2. Len(graph[side][item.m]) \in Nat
      BY <3>1
    <3> QED
      BY <1>1, <1>3, <3>2
  <2>2. n \in Names
    BY <1>1, <1>3, Neighbour
  <2>3. \E p \in Reached(k) : \E i \in 1 .. Len(graph[side][p]) : n = graph[side][p][i]
    BY <1>3, <2>1
  <2> QED
    BY <1>2, <2>2, <2>3, ReachedFacts
<1>6. /\ Len(queue) \in Nat /\ DOMAIN queue = 1 .. Len(queue) /\ DOMAIN queue' = 1 .. Len(queue) + 1
      /\ \A i \in DOMAIN queue : i \in DOMAIN queue' /\ queue'[i] = queue[i]
      /\ queue'[Len(queue) + 1] = new /\ Len(queue) + 1 \in DOMAIN queue'
      /\ \A i \in DOMAIN queue' : i \in DOMAIN queue \/ i = Len(queue) + 1
  <2> HIDE DEF new
  <2>1. new \in Entry
    BY <1>2, <1>3, <1>4, <1>5 DEF Entry, new
  <2> QED
    BY <1>1, <2>1
<1>7. /\ found[side] \in Seq(Listed) /\ found'[side] \in Seq(Listed)
      /\ n \in visited => found'[side] = found[side]
      /\ n \notin visited => found'[side] = Append(found[side], listed)
  <2>1. found[side] \in Seq(Listed) /\ found \in [Sides \cup {"path"} -> Seq(Listed)] /\ side \in Sides \cup {"path"}
    BY <1>3 DEF QueryTypeOK
  <2>2. listed \in Listed
    BY <1>2, <1>4, <1>5 DEF Listed
  <2> HIDE DEF listed
  <2>3. Append(found[side], listed) \in Seq(Listed)
    BY <2>1, <2>2
  <2> QED
    BY <1>1, <2>1, <2>2, <2>3
<1> HIDE DEF new, listed
<1>8. /\ \A i \in DOMAIN found[side] : i \in DOMAIN found'[side] /\ found'[side][i] = found[side][i]
      /\ \A i \in DOMAIN found'[side] : i \in DOMAIN found[side] \/ found'[side][i] = listed
      /\ n \notin visited => \E i \in DOMAIN found'[side] : found'[side][i] = listed
  <2>1. CASE n \in visited
    BY <1>7, <2>1
  <2>2. CASE n \notin visited
    <3>1. found'[side] = Append(found[side], listed)
      BY <1>7, <2>2
    <3>2. Len(found[side]) \in Nat /\ DOMAIN found[side] = 1 .. Len(found[side])
      BY <1>7
    <3>3. /\ DOMAIN found'[side] = 1 .. Len(found[side]) + 1
          /\ found'[side][Len(found[side]) + 1] = listed
          /\ \A i \in DOMAIN found[side] : found'[side][i] = found[side][i]
      BY <1>7, <3>1, <3>2
    <3> QED
      BY <3>2, <3>3
  <2> QED
    BY <2>1, <2>2
<1>9. \A p, d : InList(p, d) => InList(p, d)'
  BY <1>1, <1>8 DEF InList, SameSearch
<1>10. n \notin Reached(k) => InList(n, k + 1)'
  <2>1. n \notin Reached(k) => n \notin visited
    BY DEF Layer, VisitedLayer
  <2> QED
    BY <1>1, <1>4, <1>8, <2>1 DEF InList, SameSearch
<1>11. /\ \A p : Seen(k, p) => Seen(k, p)'
       /\ Seen(k, n)'
  BY <1>2, <1>4, <1>6 DEF Seen
<1>12. QueueLayer(k)'
  <2> SUFFICES ASSUME NEW i \in DOMAIN queue'
               PROVE  \/ queue'[i].left = Limit - k /\ queue'[i].m \in Reached(k)
                      \/ /\ queue'[i].left = (Limit - k) - 1 /\ queue'[i].m \in Reached(k + 1)
                         /\ queue'[i].m \in Reached(k) \/ \A p : p = queue'[i].m => InList(p, k + 1)'
    BY <1>2 DEF QueueLayer, InList
  <2>1. CASE i \in DOMAIN queue
    <3>1. queue'[i] = queue[i]
      BY <1>6, <2>1
    <3>2. InList(queue[i].m, k + 1) => \A p : p = queue[i].m => InList(p, k + 1)'
      BY <1>9
    <3> QED
      BY <2>1, <3>1, <3>2 DEF Layer, QueueLayer
  <2>2. CASE i = Len(queue) + 1
    BY <1>4, <1>5, <1>6, <1>10, <2>2
  <2> QED
    BY <1>6, <2>1, <2>2
<1>13. VisitedLayer(k)'
  <2>1. item' # None => item'.left = Limit - k /\ item'.m \in visited'
    BY <1>1, <1>3
  <2>2. visited' \subseteq Reached(k) /\ (k > 0 => Reached(k - 1) \subseteq visited')
    BY <1>1 DEF Layer, VisitedLayer
  <2>3. \A p \in Reached(k) \ visited' : \E i \in DOMAIN queue' : queue'[i].m = p /\ queue'[i].left = Limit - k
    BY <1>1, <1>6 DEF Layer, VisitedLayer
  <2>4. ASSUME k < Limit, NEW p \in visited, NEW i \in 1 .. Len(graph[side][p]), item' # None /\ p = item'.m => i < at'
        PROVE  \A q : q = graph[side][p][i] => Seen(k, q)'
    <3>1. CASE p = item.m /\ i = at
      BY <1>11, <3>1
    <3>2. CASE ~(p = item.m /\ i = at)
      <4>1. i \in Nat /\ (p = item.m => i < at)
        BY <1>1, <1>3, <2>4, <3>2
      <4>2. Seen(k, graph[side][p][i])
        BY <2>4, <4>1 DEF Layer, VisitedLayer
      <4> QED
        BY <1>11, <4>2
    <3> QED
      BY <3>1, <3>2
  <2>5. (k < Limit =>
            \A p \in visited : \A i \in 1 .. Len(graph[side][p]) :
                (item # None /\ p = item.m => i < at) => Seen(k, graph[side][p][i]))'
    <3>1. UNCHANGED <<graph, side>> /\ Limit' = Limit /\ Reached(k)' = Reached(k)
      BY <1>1, <1>2 DEF SameSearch
    <3> SUFFICES ASSUME k < Limit, NEW p \in visited', NEW i \in 1 .. Len(graph[side][p]),
                        item' # None /\ p = item'.m => i < at'
                 PROVE  \/ graph[side][p][i] \in Reached(k)
                        \/ \E j \in DOMAIN queue' : queue'[j].m = graph[side][p][i] /\ queue'[j].left = (Limit - k) - 1
      BY <3>1 DEF Seen
    <3>2. \A q : q = graph[side][p][i] => Seen(k, q)'
      BY <1>1, <2>4
    <3> QED
      BY <3>1, <3>2 DEF Seen
  <2> QED
    BY <1>1, <1>2, <2>1, <2>2, <2>3, <2>5 DEF VisitedLayer, SameSearch
<1>14. ListLayer(k)'
  <2>1. \A p \in Names \ {focus}, d \in 1 .. k : IsDistance(graph, side, focus, p, d) => InList(p, d)'
    BY <1>9 DEF Layer, ListLayer
  <2>2. ASSUME NEW i \in DOMAIN found'[side]
        PROVE  found'[side][i].depth \in 1 .. Limit /\ found'[side][i].m \in Reached(found'[side][i].depth)
    <3>1. CASE i \in DOMAIN found[side]
      <4>1. found'[side][i] = found[side][i]
        BY <1>8, <3>1
      <4> QED
        BY <3>1, <4>1 DEF Layer, ListLayer
    <3>2. CASE found'[side][i] = listed
      BY <1>4, <1>5, <3>2
    <3> QED
      BY <1>8, <3>1, <3>2
  <2> QED
    BY <1>1, <1>2, <2>1, <2>2 DEF ListLayer, SameSearch
<1> QED
  BY <1>12, <1>13, <1>14 DEF Layer

\* All neighbours of item have been seen.
LEMMA LookedAtAllLayer ==
    ASSUME QueryTypeOK, focus \in Names, NEW k \in 0 .. Limit, Layer(k), pc = "bfs", LookedAtAll
    PROVE  Layer(k)'
<1>1. /\ item # None /\ at > Len(graph[side][item.m]) /\ item' = None /\ SameSearch
      /\ UNCHANGED <<queue, visited, found>>
  BY DEF LookedAtAll, SameSearch, answer, reading
<1>2. Limit' = Limit /\ \A j : Reached(j)' = Reached(j)
  BY <1>1, SameReached
<1>3. \A n, d : InList(n, d)' <=> InList(n, d)
  BY <1>1 DEF InList, SameSearch
<1>4. \A n : Seen(k, n)' <=> Seen(k, n)
  BY <1>1, <1>2 DEF Seen
<1>5. QueueLayer(k)'
  BY <1>1, <1>2, <1>3 DEF Layer, QueueLayer
<1>6. ASSUME k < Limit, NEW p \in visited, NEW i \in 1 .. Len(graph[side][p])
      PROVE  Seen(k, graph[side][p][i])
  <2>1. p = item.m => i < at
    <3>1. item.m \in Names /\ at \in Nat /\ graph[side][item.m] \in Seq(Names)
      BY <1>1 DEF QueryTypeOK, GraphType
    <3>2. Len(graph[side][item.m]) \in Nat
      BY <3>1
    <3> QED
      BY <1>1, <3>1, <3>2
  <2> QED
    BY <1>6, <2>1 DEF Layer, VisitedLayer
<1>7. VisitedLayer(k)'
  BY <1>1, <1>2, <1>4, <1>6 DEF Layer, VisitedLayer, SameSearch
<1>8. ListLayer(k)'
  BY <1>1, <1>2, <1>3 DEF Layer, ListLayer, SameSearch
<1> QED
  BY <1>5, <1>7, <1>8 DEF Layer
\* An ascending list that names only what is there, and everything within the
\* limit at its distance, names each method first at its distance.
LEMMA ListExact ==
    ASSUME NEW g \in GraphType, NEW s \in Sides, NEW m \in Names, NEW l \in Seq(Listed), NEW limit \in Nat,
           \A i, j \in DOMAIN l : i < j => l[i].depth <= l[j].depth,
           \A i \in DOMAIN l : l[i].depth \in 1 .. limit /\ l[i].m \in Within(g, s, m, l[i].depth),
           \A n \in Names \ {m}, d \in 1 .. limit :
              IsDistance(g, s, m, n, d) => \E i \in DOMAIN l : l[i] = [m |-> n, depth |-> d],
           NEW n \in Names \ {m}, NEW d \in 1 .. limit
    PROVE  IsDistance(g, s, m, n, d) <=>
               \E i \in DOMAIN l : l[i] = [m |-> n, depth |-> d] /\ \A j \in 1 .. i - 1 : l[j].m # n
<1>1. /\ DOMAIN l = 1 .. Len(l) /\ Len(l) \in Nat /\ d \in Nat
      /\ \A i \in DOMAIN l : l[i] \in Listed
  OBVIOUS
<1>2. \A i \in DOMAIN l : l[i].m \in Names /\ l[i].depth \in Nat
  BY <1>1 DEF Listed
<1>3. ASSUME IsDistance(g, s, m, n, d)
      PROVE  \E i \in DOMAIN l : l[i] = [m |-> n, depth |-> d] /\ \A j \in 1 .. i - 1 : l[j].m # n
  <2> DEFINE S == {i \in DOMAIN l : l[i].m = n}
  <2>1. PICK k \in DOMAIN l : l[k] = [m |-> n, depth |-> d]
    BY <1>3
  <2>2. k \in S /\ S \in SUBSET Nat /\ l[k].depth = d
    BY <1>1, <2>1
  <2>3. PICK i \in S : \A j \in S : i <= j
    <3> HIDE DEF S
    <3> QED
      BY <2>2, LeastNat
  <2>4. i \in DOMAIN l /\ l[i].m = n /\ i <= k
    BY <2>2, <2>3
  <2>5. l[i].depth <= d
    <3>1. i = k \/ i < k
      BY <1>1, <2>4
    <3>2. l[i].depth \in Nat /\ l[k].depth = d
      BY <1>2, <2>2, <2>4
    <3> QED
      BY <2>1, <2>4, <3>1, <3>2
  <2>6. d <= l[i].depth
    <3>1. n \in Within(g, s, m, l[i].depth) /\ l[i].depth \in Nat
      BY <1>2, <2>4
    <3> QED
      BY <1>1, <1>3, <3>1, DistanceUnique
  <2>7. l[i] = [m |-> n, depth |-> d]
    <3>1. l[i].depth = d
      BY <1>1, <1>2, <2>4, <2>5, <2>6
    <3>2. l[i] \in Listed
      BY <1>1, <2>4
    <3> QED
      BY <2>4, <3>1, <3>2 DEF Listed
  <2>8. \A j \in 1 .. i - 1 : l[j].m # n
    <3> SUFFICES ASSUME NEW j \in 1 .. i - 1, l[j].m = n PROVE FALSE
      OBVIOUS
    <3>1. j \in DOMAIN l /\ j < i
      BY <1>1, <2>4
    <3> QED
      BY <1>1, <2>3, <2>4, <3>1
  <2> QED
    BY <2>4, <2>7, <2>8
<1>4. ASSUME NEW i \in DOMAIN l, l[i] = [m |-> n, depth |-> d], \A j \in 1 .. i - 1 : l[j].m # n
      PROVE  IsDistance(g, s, m, n, d)
  <2>1. l[i].m = n /\ l[i].depth = d
    BY <1>4
  <2>2. n \in Within(g, s, m, d)
    BY <2>1
  <2>3. PICK e \in 0 .. d : IsDistance(g, s, m, n, e)
    BY <1>1, <2>2, DistanceExists
  <2>4. e \in Nat /\ e <= d /\ e # 0
    <3>1. Within(g, s, m, 0) = {m}
      BY WithinSteps
    <3> QED
      BY <1>1, <2>3, <3>1 DEF IsDistance
  <2>5. CASE e = d
    BY <2>3, <2>5
  <2>6. CASE e # d
    <3>1. e \in 1 .. limit /\ e < d
      BY <1>1, <2>4, <2>6
    <3>2. PICK j \in DOMAIN l : l[j] = [m |-> n, depth |-> e]
      BY <2>3, <3>1
    <3>3. l[j].m = n /\ l[j].depth = e
      BY <3>2
    <3>4. ~(j \in 1 .. i - 1)
      BY <1>4, <3>3
    <3>5. j \in Nat /\ i \in Nat /\ 1 <= j
      BY <1>1
    <3>6. i = j \/ i < j
      BY <3>4, <3>5
    <3>7. d <= e
      BY <1>1, <2>1, <3>3, <3>6
    <3> QED
      BY <1>1, <2>4, <3>1, <3>7
  <2> QED
    BY <2>5, <2>6
<1> QED
  BY <1>3, <1>4

\* When the queue is empty, the list is exact.
LEMMA LastLayer ==
    ASSUME QueryTypeOK, AscendingDepth, ask.kind \in Breadths, focus \in Names,
           NEW k \in 0 .. Limit, Layer(k), item = None, queue = <<>>
    PROVE  Exact(side)
<1>1. Limit \in Nat \ {0} /\ k \in Nat /\ graph \in GraphType /\ side \in Sides
  BY LimitPositive DEF QueryTypeOK
<1>2. \A j \in 1 .. Limit : Reached(j) \subseteq Reached(k)
  <2>1. CASE k = Limit
    BY <1>1, <2>1, ReachedFacts
  <2>2. CASE k # Limit
    <3>1. DOMAIN queue = {}
      BY DEF QueryTypeOK
    <3>2. k < Limit /\ Reached(k) \subseteq visited /\ visited \subseteq Reached(k)
      BY <1>1, <2>2, <3>1 DEF Layer, VisitedLayer
    <3>3. \A p \in visited : \A i \in 1 .. Len(graph[side][p]) : graph[side][p][i] \in Reached(k)
      BY <3>1, <3>2 DEF Layer, VisitedLayer, Seen
    <3>4. focus \in Reached(k)
      <4>1. Reached(0) = {focus} /\ Reached(0) \subseteq Reached(k)
        BY <1>1, ReachedFacts
      <4> QED
        BY <4>1
    <3> DEFINE X == Reached(k)
    <3>5. focus \in X /\ \A p \in X \cap Names : \A i \in 1 .. Len(graph[side][p]) : graph[side][p][i] \in X
      BY <3>2, <3>3, <3>4
    <3> HIDE DEF X
    <3>6. \A j \in Nat : Reached(j) \subseteq X
      BY <1>1, <3>5, WithinClosed DEF Reached
    <3> QED
      BY <1>1, <3>6 DEF X
  <2> QED
    BY <2>1, <2>2
<1>3. \A n \in Names \ {focus}, d \in 1 .. Limit : IsDistance(graph, side, focus, n, d) => InList(n, d)
  <2> SUFFICES ASSUME NEW n \in Names \ {focus}, NEW d \in 1 .. Limit, IsDistance(graph, side, focus, n, d)
               PROVE  InList(n, d)
    OBVIOUS
  <2>1. n \in Reached(d) /\ d \in Nat
    BY <1>1 DEF IsDistance, Reached
  <2>2. n \in Reached(k)
    BY <1>2, <2>1
  <2>3. d <= k
    BY <1>1, <2>1, <2>2, ReachedFacts
  <2> QED
    BY <1>1, <2>1, <2>3 DEF Layer, ListLayer
<1>4. /\ found[side] \in Seq(Listed)
      /\ \A i, j \in DOMAIN found[side] : i < j => found[side][i].depth <= found[side][j].depth
  BY <1>1 DEF QueryTypeOK, AscendingDepth, Breadths
<1>5. \A i \in DOMAIN found[side] : found[side][i].depth \in 1 .. Limit
                                   /\ found[side][i].m \in Within(graph, side, focus, found[side][i].depth)
  BY DEF Layer, ListLayer, Reached
<1>6. \A n \in Names \ {focus}, d \in 1 .. Limit :
         IsDistance(graph, side, focus, n, d) => \E i \in DOMAIN found[side] : found[side][i] = [m |-> n, depth |-> d]
  BY <1>3 DEF InList
<1>7. ASSUME NEW n \in Names \ {focus}, NEW d \in 1 .. Limit
      PROVE  IsDistance(graph, side, focus, n, d) <=>
                \E i \in DOMAIN found[side] :
                    found[side][i] = [m |-> n, depth |-> d] /\ \A j \in 1 .. i - 1 : found[side][j].m # n
  <2> DEFINE l == found[side]
  <2>1. /\ l \in Seq(Listed) /\ \A i, j \in DOMAIN l : i < j => l[i].depth <= l[j].depth
        /\ \A i \in DOMAIN l : l[i].depth \in 1 .. Limit /\ l[i].m \in Within(graph, side, focus, l[i].depth)
        /\ \A p \in Names \ {focus}, e \in 1 .. Limit :
              IsDistance(graph, side, focus, p, e) => \E i \in DOMAIN l : l[i] = [m |-> p, depth |-> e]
    BY <1>4, <1>5, <1>6
  <2>2. Limit \in Nat /\ graph \in GraphType /\ side \in Sides /\ focus \in Names
    BY <1>1
  <2> DEFINE limit == Limit
  <2> HIDE DEF l, limit
  <2>3. IsDistance(graph, side, focus, n, d) <=>
           \E i \in DOMAIN l : l[i] = [m |-> n, depth |-> d] /\ \A j \in 1 .. i - 1 : l[j].m # n
    BY <2>1, <2>2, ListExact
  <2> QED
    BY <2>3 DEF l
<1> QED
  BY <1>7 DEF Exact

-----------------------------------------------------------------------------
\* Before a search, and where there is none, nothing is claimed of it.
LEMMA BreadthElsewhere ==
    ASSUME IInv, BreadthInv, UNCHANGED <<ask, focus>>,
           pc' # "bfs", pc' = "done" => ask.kind \notin Breadths \/ focus = None,
           pc' \in {"read", "resolve"} => pc \in {"read", "resolve"}
    PROVE  BreadthInv'
  BY DEF BreadthInv

LEMMA BreadthInit == QueryInit => BreadthInv
  BY DEF QueryInit, BreadthInv

LEMMA BreadthReading ==
    ASSUME IInv, BreadthInv,
           \/ \E f \in DOMAIN calls : Rescan(f)
           \/ ReadFile \/ AddCall \/ Built \/ ReadFails \/ KeepGraph \/ Locate \/ NotFound
    PROVE  BreadthInv'
<1>1. /\ pc \in {"read", "resolve"} /\ UNCHANGED focus /\ pc' \in {"read", "resolve", "done", "failed"}
      /\ UNCHANGED ask
  BY DEF Rescan, ReadFile, AddCall, Built, ReadFails, KeepGraph, Locate, NotFound, answer
<1> QED
  BY <1>1 DEF BreadthInv

LEMMA BreadthFind == ASSUME IInv, IInv', BreadthInv, Find PROVE BreadthInv'
<1>1. /\ focus' \in Names /\ item = None /\ found' = found /\ side' = side /\ side = "callers"
      /\ found = [l \in Sides \cup {"path"} |-> <<>>] /\ QueryTypeOK /\ QueryTypeOK' /\ UNCHANGED <<ask, item>>
  BY ResolveFacts DEF Find, IInv, Phased, answer
<1>2. found'[side'] = <<>>
  BY <1>1 DEF Sides
<1>3. CASE ask.kind \in Breadths
  <2>1. EnterBreadth(focus') /\ pc' = "bfs"
    BY <1>3 DEF Find, Breadths
  <2>2. Layer(0)'
    BY <1>1, <1>2, <2>1, FirstLayer
  <2>3. 0 \in 0 .. Limit'
    BY <1>1, LimitPositive, LimitKept
  <2> QED
    BY <1>1, <2>1, <2>2, <2>3 DEF BreadthInv
<1>4. CASE ask.kind \notin Breadths
  BY <1>4 DEF Find, Breadths, BreadthInv, answer
<1> QED
  BY <1>3, <1>4

\* Nothing that an exact list is about has changed.
LEMMA SameExact == ASSUME UNCHANGED <<graph, focus, ask, found>>, NEW s PROVE Exact(s) => Exact(s)'
  BY DEF Exact, Limit

LEMMA BreadthDequeue == ASSUME IInv, BreadthInv, Dequeue PROVE BreadthInv'
<1>1. /\ pc = "bfs" /\ pc' = "bfs" /\ item = None /\ queue # <<>> /\ QueryTypeOK /\ focus \in Names
      /\ UNCHANGED <<graph, focus, ask, found, side>>
  BY DEF Dequeue, IInv, Phased, answer, reading
<1>2. PICK k \in 0 .. Limit : Layer(k)
  BY <1>1 DEF BreadthInv
<1>3. Limit \in Nat \ {0} /\ k \in Nat /\ Limit' = Limit
  BY <1>1, LimitPositive, LimitKept
<1>4. \E j \in 0 .. Limit : Layer(j)'
  <2>1. /\ Head(queue) = queue[1] /\ 1 \in DOMAIN queue /\ DOMAIN queue = 1 .. Len(queue) /\ Len(queue) \in Nat
        /\ \A i \in DOMAIN queue : queue[i] \in Entry
    BY <1>1 DEF QueryTypeOK
  <2>2. CASE Head(queue).left = Limit - k
    BY <1>1, <1>2, <2>2, DequeueLayer
  <2>3. CASE Head(queue).left # Limit - k
    <3>1. Head(queue).left = (Limit - k) - 1 /\ Head(queue).left \in Nat
      BY <1>2, <2>1, <2>3 DEF Layer, QueueLayer, Entry
    <3>2. k < Limit /\ k + 1 \in 0 .. Limit /\ (Limit - k) - 1 = Limit - (k + 1)
      BY <1>3, <3>1
    <3>3. \A i \in DOMAIN queue : queue[i].left # Limit - k
      <4> SUFFICES ASSUME NEW i \in DOMAIN queue, queue[i].left = Limit - k PROVE FALSE
        OBVIOUS
      <4>1. i # 1 => queue[i].left <= queue[1].left
        <5>1. i # 1 => 1 < i
          BY <2>1
        <5> QED
          BY <1>1, <2>1, <5>1 DEF IInv, Layered
      <4> QED
        BY <1>3, <2>1, <3>1, <4>1
    <3>4. Layer(k + 1)
      BY <1>1, <1>2, <3>2, <3>3, NextLayer
    <3>5. Layer(k + 1)'
      BY <1>1, <3>1, <3>2, <3>4, DequeueLayer
    <3> QED
      BY <3>2, <3>5
  <2> QED
    BY <2>2, <2>3
<1>5. BreadthInv'
  BY <1>1, <1>3, <1>4, SameExact DEF BreadthInv
<1> QED
  BY <1>5

LEMMA BreadthLook == ASSUME IInv, BreadthInv, LookAt \/ (pc = "bfs" /\ LookedAtAll) PROVE BreadthInv'
<1>1. /\ pc = "bfs" /\ pc' = "bfs" /\ QueryTypeOK /\ focus \in Names /\ item # None
      /\ UNCHANGED <<graph, focus, ask, side>>
  BY DEF LookAt, LookedAtAll, IInv, Phased, answer, reading
<1>2. PICK k \in 0 .. Limit : Layer(k)
  BY <1>1 DEF BreadthInv
<1>3. Limit' = Limit /\ Layer(k)'
  BY <1>1, <1>2, LookAtLayer, LookedAtAllLayer, LimitKept
<1>4. side = "callees" => found'.callers = found.callers
  BY DEF LookAt, LookedAtAll, IInv, QueryTypeOK, Sides
<1>5. side = "callees" /\ Exact("callers") => Exact("callers")'
  BY <1>1, <1>3, <1>4 DEF Exact
<1> QED
  BY <1>1, <1>2, <1>3, <1>5 DEF BreadthInv

LEMMA BreadthEnd == ASSUME IInv, IInv', BreadthInv, EndBreadth PROVE BreadthInv'
<1>1. /\ pc = "bfs" /\ QueryTypeOK /\ QueryTypeOK' /\ focus \in Names /\ item = None /\ queue = <<>> /\ side \in Sides
      /\ UNCHANGED <<graph, focus, ask, found, item>> /\ side' = "callees" /\ AscendingDepth
  BY DEF EndBreadth, IInv, Phased, QueryTypeOK, answer, reading
<1>2. PICK k \in 0 .. Limit : Layer(k)
  BY <1>1 DEF BreadthInv
<1>3. ask.kind \in Breadths => Exact(side)
  BY <1>1, <1>2, LastLayer
<1>4. Limit' = Limit /\ Limit \in Nat
  BY <1>1, LimitKept, LimitPositive
<1>5. CASE side = "callers"
  <2>1. EnterBreadth(focus') /\ found'[side'] = <<>> /\ pc' = "bfs"
    BY <1>1, <1>5 DEF EndBreadth, IInv, Phased
  <2>2. Layer(0)'
    BY <1>1, <2>1, FirstLayer
  <2> QED
    BY <1>1, <1>3, <1>4, <1>5, <2>1, <2>2, SameExact DEF BreadthInv
<1>6. CASE side # "callers"
  <2>1. side = "callees" /\ pc' = "done"
    BY <1>1, <1>6 DEF EndBreadth, Sides
  <2> QED
    BY <1>1, <1>3, <2>1, SameExact DEF BreadthInv
<1> QED
  BY <1>5, <1>6

LEMMA BreadthOthers ==
    ASSUME IInv, BreadthInv,
           \/ FindPath \/ Descend \/ Return \/ EndDepth \/ Expand \/ LookAhead \/ (pc = "path" /\ LookedAtAll)
           \/ Reach \/ NoPath \/ StepBack \/ AtStart
    PROVE  BreadthInv'
<1>1. CASE FindPath
  BY <1>1 DEF FindPath, BreadthInv, IInv, Breadths, answer
<1>2. CASE ~FindPath
  <2>1. /\ pc \in {"dfs", "path", "back"} /\ pc' \in {"dfs", "path", "back", "done"} /\ UNCHANGED <<ask, focus>>
    BY <1>2 DEF Descend, Return, EndDepth, Expand, LookAhead, LookedAtAll, Reach, NoPath, StepBack, AtStart, answer
  <2>2. ask.kind \notin Breadths
    BY <2>1 DEF IInv, Phased
  <2> QED
    BY <2>1, <2>2, BreadthElsewhere
<1> QED
  BY <1>1, <1>2

LEMMA BreadthStep == ASSUME IInv, IInv', BreadthInv, [QueryNext]_queryVars PROVE BreadthInv'
<1>1. CASE UNCHANGED queryVars
  <2>1. UNCHANGED <<pc, ask, focus, graph, found, side, queue, item, at, visited>>
    BY <1>1 DEF queryVars, answer, reading, walk
  <2>2. Limit' = Limit /\ \A k : Reached(k)' = Reached(k)
    BY <2>1, LimitKept DEF Reached
  <2>3. \A n, d : InList(n, d)' <=> InList(n, d)
    BY <2>1 DEF InList
  <2>4. \A k : Layer(k)' <=> Layer(k)
    BY <2>1, <2>2, <2>3 DEF Layer, QueueLayer, VisitedLayer, ListLayer, Seen
  <2>5. \A s : Exact(s) => Exact(s)'
    BY <2>1, SameExact
  <2> QED
    BY <2>1, <2>2, <2>4, <2>5 DEF BreadthInv
<1>2. CASE Stopped
  BY <1>1, <1>2 DEF Stopped
<1>3. CASE \/ \E f \in DOMAIN calls : Rescan(f)
           \/ ReadFile \/ AddCall \/ Built \/ ReadFails \/ KeepGraph \/ Locate \/ NotFound
  BY <1>3, BreadthReading
<1>4. CASE Find
  BY <1>4, BreadthFind
<1>5. CASE Dequeue
  BY <1>5, BreadthDequeue
<1>6. CASE LookAt \/ (pc = "bfs" /\ LookedAtAll)
  BY <1>6, BreadthLook
<1>7. CASE EndBreadth
  BY <1>7, BreadthEnd
<1>8. CASE \/ FindPath \/ Descend \/ Return \/ EndDepth \/ Expand \/ LookAhead \/ (pc = "path" /\ LookedAtAll)
           \/ Reach \/ NoPath \/ StepBack \/ AtStart
  BY <1>8, BreadthOthers
<1>9. LookedAtAll => pc \in {"bfs", "path"}
  BY DEF LookedAtAll
<1> QED
  BY <1>1, <1>2, <1>3, <1>4, <1>5, <1>6, <1>7, <1>8, <1>9 DEF QueryNext

-----------------------------------------------------------------------------
(* The depth-first search stays within the limit and, if that is large     *)
(* enough, leaves nothing out.                                             *)

Depths == {"graph", "affected"}

\* Which search a query uses.
Routed ==
    /\ pc = "bfs" => ask.kind \in Breadths
    /\ pc = "dfs" => ask.kind \in Depths
    /\ pc \in {"path", "back"} => ask.kind = "path"

\* A query whose limit no chain of different methods can use up.
WholeCallers ==
    ask.kind = "affected" /\ ask.recursive /\ RecursiveLimit > Cardinality(Names)

ListedOn(s) == {found[s][i].m : i \in DOMAIN found[s]}

\* Each method entered takes one place of the stack at most, so that no frame
\* runs out of depth; and a caller of a method that was entered was entered
\* too, unless a frame is still to come to it.
Tracked ==
    /\ focus \in visited /\ visited \ {focus} \subseteq ListedOn("callers")
    /\ Len(stack) <= Cardinality(visited)
    /\ \A i \in DOMAIN stack : stack[i].left = Limit - (Len(stack) - i)
    /\ \A p \in visited : \A i \in 1 .. Len(graph["callers"][p]) :
          \/ graph["callers"][p][i] \in visited
          \/ \E j \in DOMAIN stack : stack[j].m = p /\ stack[j].at <= i

\* Each frame has the depth that is left after as many steps as led to it.
FramesWithin ==
    \A i \in DOMAIN stack :
        stack[i].left \in 1 .. Limit /\ stack[i].m \in Reached(Limit - stack[i].left)

ListsWithin ==
    \A s \in Sides : \A i \in DOMAIN found[s] : found[s][i].m \in Within(graph, s, focus, Limit)

NoneLeftOut ==
    Within(graph, "callers", focus, RecursiveLimit) \ {focus} \subseteq ListedOn("callers")

DepthInv ==
    /\ Routed
    /\ ask.kind \in Depths /\ focus # None => ListsWithin
    /\ pc = "dfs" => FramesWithin
    /\ WholeCallers /\ focus # None =>
          IF pc = "dfs" /\ side = "callers" THEN Tracked ELSE NoneLeftOut

-----------------------------------------------------------------------------
\* A stack whose innermost frame is replaced by f, or by f and a new one e.
LEMMA ReplaceFacts ==
    ASSUME NEW T, NEW s \in Seq(T), s # <<>>, NEW e \in T, NEW f \in T
    PROVE  LET r == <<f>> \o Tail(s)
               p == <<e>> \o r
           IN  /\ r \in Seq(T) /\ Len(r) = Len(s) /\ r[1] = f
               /\ \A i \in 2 .. Len(s) : r[i] = s[i]
               /\ p \in Seq(T) /\ Len(p) = Len(s) + 1 /\ p[1] = e /\ p[2] = f
               /\ \A i \in 3 .. Len(s) + 1 : p[i] = s[i - 1]
<1>1. /\ Len(s) \in Nat \ {0} /\ Tail(s) \in Seq(T) /\ Len(Tail(s)) = Len(s) - 1
      /\ \A i \in 1 .. Len(s) - 1 : Tail(s)[i] = s[i + 1]
  OBVIOUS
<1> DEFINE q == Tail(s)
<1>2. q \in Seq(T) /\ Len(q) = Len(s) - 1 /\ \A i \in 1 .. Len(s) - 1 : q[i] = s[i + 1]
  BY <1>1
<1> HIDE DEF q
<1> DEFINE r == <<f>> \o q
<1>3. /\ r \in Seq(T) /\ Len(r) = Len(s) /\ r[1] = f
      /\ \A i \in 2 .. Len(s) : r[i] = q[i - 1]
  <2>1. <<f>> \in Seq(T) /\ Len(<<f>>) = 1 /\ <<f>>[1] = f
    OBVIOUS
  <2>2. Len(q) \in Nat /\ Len(s) = 1 + Len(q)
    BY <1>1, <1>2
  <2> QED
    BY <1>2, <2>1, <2>2
<1>4. \A i \in 2 .. Len(s) : r[i] = s[i]
  <2> TAKE i \in 2 .. Len(s)
  <2>1. i - 1 \in 1 .. Len(s) - 1 /\ (i - 1) + 1 = i
    BY <1>1
  <2> QED
    BY <1>2, <1>3, <2>1
<1> HIDE DEF r
<1> DEFINE p == <<e>> \o r
<1>5. /\ p \in Seq(T) /\ Len(p) = Len(s) + 1 /\ p[1] = e
      /\ \A i \in 2 .. Len(s) + 1 : p[i] = r[i - 1]
  BY <1>1, <1>3
<1>6. p[2] = f /\ \A i \in 3 .. Len(s) + 1 : p[i] = s[i - 1]
  <2>1. p[2] = r[1]
    BY <1>1, <1>5
  <2>2. ASSUME NEW i \in 3 .. Len(s) + 1 PROVE p[i] = s[i - 1]
    <3>1. i - 1 \in 2 .. Len(s) /\ i \in 2 .. Len(s) + 1
      BY <1>1
    <3> QED
      BY <1>4, <1>5, <3>1
  <2> QED
    BY <1>3, <2>1, <2>2
<1> HIDE DEF p
<1> QED
  BY <1>3, <1>4, <1>5, <1>6 DEF p, r, q

\* Where the search is before and after it takes the next neighbour.
Descends(m, f, e) ==
    /\ pc = "dfs" /\ pc' = "dfs" /\ stack # <<>> /\ UNCHANGED <<ask, focus, graph, side>>
    /\ stack[1].at <= Len(graph[side][stack[1].m])
    /\ m = graph[side][stack[1].m][stack[1].at]
    /\ f = [m |-> stack[1].m, left |-> stack[1].left, at |-> stack[1].at + 1]
    /\ e = [m |-> m, left |-> stack[1].left - 1, at |-> 1]
    /\ found' = [found EXCEPT ![side] = Append(@, [m |-> m, depth |-> 0])]
    /\ IF stack[1].left > 1 /\ m \notin visited
       THEN visited' = visited \cup {m} /\ stack' = <<e>> \o (<<f>> \o Tail(stack))
       ELSE visited' = visited /\ stack' = <<f>> \o Tail(stack)

LEMMA DescendFacts ==
    ASSUME QueryTypeOK, Descend
    PROVE  \E m \in Names, f \in Frame : \E e : Descends(m, f, e)
<1>1. /\ stack \in Seq(Frame) /\ stack # <<>> /\ Head(stack) = stack[1] /\ stack[1] \in Frame
      /\ side \in Sides /\ graph \in GraphType
  <2>1. stack \in Seq(Frame) /\ stack # <<>> /\ side \in Sides /\ graph \in GraphType
    BY DEF QueryTypeOK, Frame, Descend
  <2> QED
    BY <2>1
<1>2. stack[1].m \in Names /\ stack[1].at \in Nat \ {0} /\ stack[1].left \in Nat
  BY <1>1 DEF Frame
<1>3. stack[1].at <= Len(graph[side][stack[1].m])
  BY <1>1 DEF Descend
<1> DEFINE m == graph[side][stack[1].m][stack[1].at]
           f == [m |-> stack[1].m, left |-> stack[1].left, at |-> stack[1].at + 1]
           e == [m |-> m, left |-> stack[1].left - 1, at |-> 1]
<1>4. m \in Names
  BY <1>1, <1>2, <1>3, Neighbour
<1>5. f \in Frame /\ [stack[1] EXCEPT !.at = @ + 1] = f
  BY <1>1, <1>2 DEF Frame
<1>6. Descends(m, f, e)
  BY <1>1, <1>3, <1>5 DEF Descends, Descend, answer, reading
<1> QED
  BY <1>4, <1>5, <1>6

\* What the list and the stack become.
LEMMA DescendShape ==
    ASSUME QueryTypeOK, NEW m \in Names, NEW f \in Frame, NEW e, Descends(m, f, e)
    PROVE  /\ \A s \in Sides \ {side} : found'[s] = found[s]
           /\ Len(found'[side]) = Len(found[side]) + 1
           /\ \A i \in 1 .. Len(found[side]) : found'[side][i] = found[side][i]
           /\ found'[side][Len(found[side]) + 1].m = m
           /\ DOMAIN found[side] = 1 .. Len(found[side]) /\ Len(found[side]) \in Nat
           /\ DOMAIN found'[side] = 1 .. (Len(found[side]) + 1)
           /\ Len(stack) \in Nat \ {0} /\ DOMAIN stack = 1 .. Len(stack)
           /\ \A i \in DOMAIN stack : stack[i] \in Frame
           /\ stack[1].left > 1 /\ m \notin visited =>
                 /\ DOMAIN stack' = 1 .. Len(stack) + 1 /\ Len(stack') = Len(stack) + 1
                 /\ stack'[1] = e /\ stack'[2] = f
                 /\ \A i \in 3 .. Len(stack) + 1 : stack'[i] = stack[i - 1]
           /\ ~(stack[1].left > 1 /\ m \notin visited) =>
                 /\ DOMAIN stack' = 1 .. Len(stack) /\ Len(stack') = Len(stack)
                 /\ stack'[1] = f
                 /\ \A i \in 2 .. Len(stack) : stack'[i] = stack[i]
<1>1. /\ stack \in Seq(Frame) /\ stack # <<>> /\ stack[1] \in Frame /\ side \in Sides
      /\ found \in [Sides \cup {"path"} -> Seq(Listed)] /\ found[side] \in Seq(Listed)
  <2>1. /\ stack \in Seq(Frame) /\ stack # <<>> /\ side \in Sides
        /\ found \in [Sides \cup {"path"} -> Seq(Listed)]
    BY DEF QueryTypeOK, Frame, Descends
  <2> QED
    BY <2>1
<1>2. stack[1].left > 1 => e \in Frame
  BY <1>1 DEF Frame, Descends
<1> DEFINE l == [m |-> m, depth |-> 0]
<1>3. l \in Listed /\ l.m = m
  BY DEF Listed
<1>4. found' = [found EXCEPT ![side] = Append(@, l)]
  BY DEF Descends
<1> HIDE DEF l
<1>5. found'[side] = Append(found[side], l) /\ \A s \in Sides \ {side} : found'[s] = found[s]
  BY <1>1, <1>4
<1>6. /\ Len(found[side]) \in Nat /\ DOMAIN found[side] = 1 .. Len(found[side])
      /\ Append(found[side], l) \in Seq(Listed) /\ Len(Append(found[side], l)) = Len(found[side]) + 1
      /\ DOMAIN Append(found[side], l) = 1 .. (Len(found[side]) + 1)
      /\ \A i \in 1 .. Len(found[side]) : Append(found[side], l)[i] = found[side][i]
      /\ Append(found[side], l)[Len(found[side]) + 1] = l
  BY <1>1, <1>3
<1>7. Len(stack) \in Nat \ {0} /\ DOMAIN stack = 1 .. Len(stack) /\ \A i \in DOMAIN stack : stack[i] \in Frame
  BY <1>1
<1>8. CASE stack[1].left > 1 /\ m \notin visited
  <2>1. stack' = <<e>> \o (<<f>> \o Tail(stack)) /\ e \in Frame
    BY <1>2, <1>8 DEF Descends
  <2>2. /\ stack' \in Seq(Frame) /\ Len(stack') = Len(stack) + 1 /\ stack'[1] = e /\ stack'[2] = f
        /\ \A i \in 3 .. Len(stack) + 1 : stack'[i] = stack[i - 1]
    BY <1>1, <2>1, ReplaceFacts
  <2>3. DOMAIN stack' = 1 .. Len(stack) + 1
    BY <2>2
  <2> QED
    BY <1>3, <1>5, <1>6, <1>7, <1>8, <2>2, <2>3
<1>9. CASE ~(stack[1].left > 1 /\ m \notin visited)
  <2>1. stack' = <<f>> \o Tail(stack)
    BY <1>9 DEF Descends
  <2>2. /\ stack' \in Seq(Frame) /\ Len(stack') = Len(stack) /\ stack'[1] = f
        /\ \A i \in 2 .. Len(stack) : stack'[i] = stack[i]
    BY <1>1, <2>1, ReplaceFacts
  <2>3. DOMAIN stack' = 1 .. Len(stack)
    BY <2>2
  <2> QED
    BY <1>3, <1>5, <1>6, <1>7, <1>9, <2>2, <2>3
<1> QED
  BY <1>8, <1>9

LEMMA DescendWithin ==
    ASSUME QueryTypeOK, focus \in Names, FramesWithin, ListsWithin, Descend
    PROVE  FramesWithin' /\ ListsWithin'
<1>0. PICK m \in Names, f \in Frame : \E e : Descends(m, f, e)
  BY DescendFacts
<1>1. PICK e : Descends(m, f, e)
  BY <1>0
<1>2. /\ pc = "dfs" /\ UNCHANGED <<ask, focus, graph, side>> /\ Limit' = Limit /\ Limit \in Nat \ {0}
      /\ graph \in GraphType /\ side \in Sides
  BY <1>1, LimitKept, LimitPositive DEF Descends, QueryTypeOK
<1>3. Len(stack) \in Nat \ {0} /\ DOMAIN stack = 1 .. Len(stack) /\ \A i \in DOMAIN stack : stack[i] \in Frame
  BY <1>1, DescendShape
<1>4. /\ stack[1].left \in 1 .. Limit /\ stack[1].m \in Reached(Limit - stack[1].left)
      /\ stack[1].m \in Names /\ stack[1].at \in Nat \ {0} /\ stack[1].left \in Nat
  BY <1>3 DEF FramesWithin, Frame
<1>5. PICK k \in Nat : k = Limit - stack[1].left
  BY <1>2, <1>4
<1>6. m \in Reached(k + 1)
  <2>1. stack[1].at \in 1 .. Len(graph[side][stack[1].m]) /\ m = graph[side][stack[1].m][stack[1].at]
    BY <1>1, <1>2, <1>4, Neighbour DEF Descends, GraphType
  <2>2. stack[1].m \in Within(graph, side, focus, k)
    BY <1>4, <1>5 DEF Reached
  <2> QED
    BY <1>2, <2>1, <2>2, WithinNext DEF Reached
<1>7. k + 1 <= Limit /\ k + 1 = Limit - (stack[1].left - 1)
  BY <1>2, <1>4, <1>5
<1>8. \A j : Reached(j)' = Reached(j)
  BY <1>2 DEF Reached
<1>9. ListsWithin'
  <2>1. m \in Within(graph, side, focus, Limit)
    BY <1>2, <1>5, <1>6, <1>7, WithinGrows DEF Reached
  <2>2. ASSUME NEW i \in DOMAIN found'[side] PROVE found'[side][i].m \in Within(graph, side, focus, Limit)
    <3>1. i # Len(found[side]) + 1 => i \in 1 .. Len(found[side])
      BY <1>1, DescendShape
    <3> QED
      BY <1>1, <1>2, <2>1, <3>1, DescendShape DEF ListsWithin
  <2>3. ASSUME NEW s \in Sides, s # side, NEW i \in DOMAIN found'[s]
        PROVE  found'[s][i].m \in Within(graph, s, focus, Limit)
    BY <1>1, <2>3, DescendShape DEF ListsWithin
  <2> QED
    BY <1>2, <2>2, <2>3 DEF ListsWithin
<1>10. f.left \in 1 .. Limit /\ f.m \in Reached(Limit - f.left)
  BY <1>1, <1>4 DEF Descends
<1>11. FramesWithin'
  <2> SUFFICES ASSUME NEW i \in DOMAIN stack'
               PROVE  stack'[i].left \in 1 .. Limit /\ stack'[i].m \in Reached(Limit - stack'[i].left)
    BY <1>2, <1>8 DEF FramesWithin
  <2>1. CASE stack[1].left > 1 /\ m \notin visited
    <3>1. e.left \in 1 .. Limit /\ e.m \in Reached(Limit - e.left)
      BY <1>1, <1>2, <1>4, <1>6, <1>7, <2>1 DEF Descends
    <3>2. i > 2 => i - 1 \in DOMAIN stack /\ stack'[i] = stack[i - 1]
      BY <1>1, <1>3, <2>1, DescendShape
    <3>3. i \in Nat \ {0} /\ stack'[1] = e /\ stack'[2] = f
      BY <1>1, <1>3, <2>1, DescendShape
    <3>4. i > 2 => stack[i - 1].left \in 1 .. Limit /\ stack[i - 1].m \in Reached(Limit - stack[i - 1].left)
      BY <3>2 DEF FramesWithin
    <3>5. i = 1 \/ i = 2 \/ i > 2
      BY <3>3
    <3> QED
      BY <1>10, <3>1, <3>2, <3>3, <3>4, <3>5
  <2>2. CASE ~(stack[1].left > 1 /\ m \notin visited)
    <3>1. i # 1 => i \in DOMAIN stack /\ stack'[i] = stack[i]
      BY <1>1, <1>3, <2>2, DescendShape
    <3>2. stack'[1] = f
      BY <1>1, <2>2, DescendShape
    <3>3. i # 1 => stack[i].left \in 1 .. Limit /\ stack[i].m \in Reached(Limit - stack[i].left)
      BY <3>1 DEF FramesWithin
    <3> QED
      BY <1>10, <3>1, <3>2, <3>3
  <2> QED
    BY <2>1, <2>2
<1> QED
  BY <1>9, <1>11

LEMMA DescendTracked ==
    ASSUME QueryTypeOK, FramesWithin, WholeCallers, side = "callers", Tracked, Descend
    PROVE  Tracked'
<1>0. PICK m \in Names, f \in Frame : \E e : Descends(m, f, e)
  BY DescendFacts
<1>1. PICK e : Descends(m, f, e)
  BY <1>0
<1>2. /\ UNCHANGED <<ask, focus, graph, side>> /\ Limit' = Limit /\ Limit = RecursiveLimit /\ side = "callers"
      /\ visited \subseteq Names
  BY <1>1, LimitKept DEF Descends, QueryTypeOK, WholeCallers, Limit
<1>3. /\ Len(stack) \in Nat \ {0} /\ DOMAIN stack = 1 .. Len(stack) /\ \A i \in DOMAIN stack : stack[i] \in Frame
      /\ RecursiveLimit \in Nat
  BY <1>1, DescendShape, Parameters
<1>4. stack[1].m \in Names /\ stack[1].at \in Nat \ {0} /\ stack[1].left \in Nat
  BY <1>3 DEF Frame
<1>5. /\ IsFiniteSet(visited) /\ Cardinality(visited) \in Nat /\ Cardinality(visited) <= Cardinality(Names)
      /\ Cardinality(Names) \in Nat
      /\ m \notin visited => Cardinality(visited \cup {m}) = Cardinality(visited) + 1
  BY <1>2, Parameters, FS_Subset, FS_CardinalityType, FS_AddElement
<1>6. stack[1].left = Limit - (Len(stack) - 1) /\ Len(stack) <= Cardinality(visited)
  BY <1>3 DEF Tracked
<1>7. stack[1].left > 1
  BY <1>2, <1>3, <1>5, <1>6 DEF WholeCallers
<1>8. visited' = visited \cup {m}
  BY <1>1, <1>7 DEF Descends
<1>9. focus' \in visited' /\ visited' \ {focus'} \subseteq ListedOn("callers")'
  <2>1. ASSUME NEW n \in ListedOn("callers") \cup {m} PROVE \E i \in DOMAIN found'["callers"] : found'["callers"][i].m = n
    <3>1. CASE n = m
      BY <1>1, <1>2, <3>1, DescendShape
    <3>2. CASE n # m
      <4>1. PICK i \in DOMAIN found["callers"] : found["callers"][i].m = n
        BY <3>2 DEF ListedOn
      <4>2. i \in DOMAIN found'["callers"] /\ found'["callers"][i] = found["callers"][i]
        BY <1>1, <1>2, <4>1, DescendShape
      <4> QED
        BY <4>1, <4>2
    <3> QED
      BY <3>1, <3>2
  <2>2. ListedOn("callers") \cup {m} \subseteq ListedOn("callers")'
    BY <2>1 DEF ListedOn
  <2> QED
    BY <1>2, <1>8, <2>2 DEF Tracked
<1>10. /\ Len(stack') <= Cardinality(visited')
       /\ \A i \in DOMAIN stack' : stack'[i].left = Limit - (Len(stack') - i)
  <2>1. CASE m \notin visited
    <3>1. /\ DOMAIN stack' = 1 .. Len(stack) + 1 /\ Len(stack') = Len(stack) + 1
          /\ stack'[1] = e /\ stack'[2] = f
          /\ \A i \in 3 .. Len(stack) + 1 : stack'[i] = stack[i - 1]
      BY <1>1, <1>7, <2>1, DescendShape
    <3>2. e.left = stack[1].left - 1 /\ f.left = stack[1].left
      BY <1>1 DEF Descends
    <3>3. ASSUME NEW i \in DOMAIN stack' PROVE stack'[i].left = Limit - (Len(stack') - i)
      <4>1. i = 1 => stack'[i].left = Limit - (Len(stack') - i)
        BY <1>2, <1>3, <1>6, <3>1, <3>2
      <4>2. i = 2 => stack'[i].left = Limit - (Len(stack') - i)
        BY <1>2, <1>3, <1>6, <3>1, <3>2
      <4>3. i > 2 => stack'[i].left = Limit - (Len(stack') - i)
        <5> SUFFICES ASSUME i > 2 PROVE stack'[i].left = Limit - (Len(stack') - i)
          OBVIOUS
        <5>1. i - 1 \in DOMAIN stack /\ stack'[i] = stack[i - 1]
          BY <1>3, <3>1
        <5>2. stack[i - 1].left = Limit - (Len(stack) - (i - 1))
          BY <5>1 DEF Tracked
        <5> QED
          BY <1>2, <1>3, <3>1, <5>1, <5>2
      <4> QED
        BY <1>3, <3>1, <4>1, <4>2, <4>3
    <3> QED
      BY <1>3, <1>5, <1>6, <1>8, <2>1, <3>1, <3>3
  <2>2. CASE m \in visited
    <3>1. /\ DOMAIN stack' = 1 .. Len(stack) /\ Len(stack') = Len(stack) /\ stack'[1] = f
          /\ \A i \in 2 .. Len(stack) : stack'[i] = stack[i]
      BY <1>1, <2>2, DescendShape
    <3>2. f.left = stack[1].left
      BY <1>1 DEF Descends
    <3>3. ASSUME NEW i \in DOMAIN stack' PROVE stack'[i].left = Limit - (Len(stack') - i)
      <4>1. i \in DOMAIN stack /\ stack'[i].left = stack[i].left
        BY <1>3, <3>1, <3>2
      <4> QED
        BY <3>1, <4>1 DEF Tracked
    <3>4. visited' = visited
      BY <1>8, <2>2
    <3> QED
      BY <1>6, <3>1, <3>3, <3>4
  <2> QED
    BY <2>1, <2>2
<1>11. ASSUME NEW p \in visited', NEW i \in 1 .. Len(graph["callers"][p])
       PROVE  graph["callers"][p][i] \in visited' \/ \E j \in DOMAIN stack' : stack'[j].m = p /\ stack'[j].at <= i
  <2>1. e.m = m /\ e.at = 1 /\ f.m = stack[1].m /\ f.at = stack[1].at + 1 /\ m = graph["callers"][stack[1].m][stack[1].at]
    BY <1>1, <1>2 DEF Descends
  <2>2. CASE p \notin visited
    <3>1. p = m /\ m \notin visited
      BY <1>8, <2>2
    <3>2. 1 \in DOMAIN stack' /\ stack'[1] = e
      BY <1>1, <1>3, <1>7, <3>1, DescendShape
    <3>3. 1 <= i
      OBVIOUS
    <3> QED
      BY <2>1, <3>1, <3>2, <3>3
  <2>3. CASE p \in visited /\ graph["callers"][p][i] \notin visited'
    <3>1. PICK j \in DOMAIN stack : stack[j].m = p /\ stack[j].at <= i
      BY <1>8, <2>3 DEF Tracked
    <3>2. j # 1 => \E q \in DOMAIN stack' : stack'[q] = stack[j]
      <4>1. CASE m \notin visited
        <5>1. /\ DOMAIN stack' = 1 .. Len(stack) + 1 /\ \A q \in 3 .. Len(stack) + 1 : stack'[q] = stack[q - 1]
          BY <1>1, <1>7, <4>1, DescendShape
        <5>2. j # 1 => j + 1 \in 3 .. Len(stack) + 1 /\ (j + 1) - 1 = j /\ j + 1 \in DOMAIN stack'
          BY <1>3, <5>1
        <5> QED
          BY <5>1, <5>2
      <4>2. CASE m \in visited
        BY <1>1, <1>3, <4>2, DescendShape
      <4> QED
        BY <4>1, <4>2
    <3>3. j = 1 => \E q \in DOMAIN stack' : stack'[q] = f
      <4>1. CASE m \notin visited
        BY <1>1, <1>3, <1>7, <4>1, DescendShape
      <4>2. CASE m \in visited
        BY <1>1, <1>3, <4>2, DescendShape
      <4> QED
        BY <4>1, <4>2
    <3>4. j = 1 => f.m = p /\ f.at <= i
      <4>1. j = 1 => stack[1].at # i
        BY <1>8, <2>1, <2>3, <3>1
      <4> QED
        BY <1>4, <2>1, <3>1, <4>1
    <3> QED
      BY <3>1, <3>2, <3>3, <3>4
  <2> QED
    BY <2>2, <2>3
<1>12. \A p \in visited' : \A i \in 1 .. Len(graph["callers"][p]) :
          graph["callers"][p][i] \in visited' \/ \E j \in DOMAIN stack' : stack'[j].m = p /\ stack'[j].at <= i
  BY <1>11
<1> QED
  BY <1>2, <1>9, <1>10, <1>12 DEF Tracked

\* A frame without neighbours left goes.
LEMMA ReturnKeeps ==
    ASSUME QueryTypeOK, Return
    PROVE  /\ FramesWithin => FramesWithin'
           /\ Tracked /\ side = "callers" => Tracked'
<1>1. /\ UNCHANGED <<ask, focus, graph, side, visited, found>> /\ Limit' = Limit /\ Limit \in Nat
      /\ stack \in Seq(Frame) /\ stack # <<>> /\ stack' = Tail(stack) /\ graph \in GraphType
      /\ Head(stack).at > Len(graph[side][Head(stack).m]) /\ visited \subseteq Names
  BY LimitKept, LimitPositive DEF Return, QueryTypeOK, Frame, answer, reading
<1>2. /\ Len(stack) \in Nat \ {0} /\ DOMAIN stack = 1 .. Len(stack) /\ Len(stack') = Len(stack) - 1
      /\ DOMAIN stack' = 1 .. Len(stack) - 1 /\ \A i \in 1 .. Len(stack) - 1 : stack'[i] = stack[i + 1]
      /\ Head(stack) = stack[1]
  BY <1>1
<1>3. \A i \in DOMAIN stack' : i + 1 \in DOMAIN stack /\ stack'[i] = stack[i + 1]
  BY <1>2
<1>4. \A j : Reached(j)' = Reached(j)
  BY <1>1 DEF Reached
<1>5. FramesWithin => FramesWithin'
  BY <1>1, <1>3, <1>4 DEF FramesWithin
<1>6. ASSUME Tracked, side = "callers" PROVE Tracked'
  <2>1. Len(stack') <= Cardinality(visited')
    <3>1. Len(stack) <= Cardinality(visited) /\ Cardinality(visited) \in Nat
      BY <1>1, <1>6, Parameters, FS_Subset, FS_CardinalityType DEF Tracked
    <3> QED
      BY <1>1, <1>2, <3>1
  <2>2. ASSUME NEW i \in DOMAIN stack' PROVE stack'[i].left = Limit - (Len(stack') - i)
    <3>1. stack[i + 1].left = Limit - (Len(stack) - (i + 1)) /\ stack'[i] = stack[i + 1]
      BY <1>3, <1>6 DEF Tracked
    <3>2. Len(stack) - (i + 1) = Len(stack') - i
      BY <1>2
    <3> QED
      BY <3>1, <3>2
  <2>3. ASSUME NEW q \in visited, NEW i \in 1 .. Len(graph["callers"][q]), graph["callers"][q][i] \notin visited
        PROVE  \E j \in DOMAIN stack' : stack'[j].m = q /\ stack'[j].at <= i
    <3>1. PICK j \in DOMAIN stack : stack[j].m = q /\ stack[j].at <= i
      BY <1>6, <2>3 DEF Tracked
    <3>2. j # 1
      <4>1. stack[1] \in Frame /\ graph["callers"][q] \in Seq(Names)
        BY <1>1 DEF GraphType, Sides
      <4>2. stack[1].at \in Nat /\ Len(graph["callers"][q]) \in Nat
        BY <4>1 DEF Frame
      <4> QED
        BY <1>1, <1>2, <1>6, <3>1, <4>2
    <3>3. j - 1 \in DOMAIN stack' /\ (j - 1) + 1 = j
      BY <1>2, <3>2
    <3> QED
      BY <1>3, <3>1, <3>3
  <2>4. ListedOn("callers")' = ListedOn("callers")
    BY <1>1 DEF ListedOn
  <2> QED
    BY <1>1, <1>6, <2>1, <2>2, <2>3, <2>4 DEF Tracked
<1> QED
  BY <1>5, <1>6

\* The search for the callers begins, or that for the callees.
LEMMA EnterDepthWithin ==
    ASSUME QueryTypeOK, focus' \in Names, EnterDepth(focus'), UNCHANGED ask
    PROVE  FramesWithin'
<1>1. Limit' = Limit /\ Limit \in Nat \ {0}
  BY LimitKept, LimitPositive
<1>2. DOMAIN stack' = {1} /\ stack'[1].left = Limit /\ stack'[1].m = focus' /\ Limit - Limit = 0
  BY <1>1 DEF EnterDepth
<1>3. \A p : p = focus' => p \in Reached(0)'
  BY WithinSteps DEF Reached
<1> QED
  BY <1>1, <1>2, <1>3 DEF FramesWithin

LEMMA EnterDepthTracked ==
    ASSUME QueryTypeOK, focus' \in Names, EnterDepth(focus'), UNCHANGED ask
    PROVE  Tracked'
<1>1. Limit' = Limit /\ Limit \in Nat \ {0}
  BY LimitKept, LimitPositive
<1>2. /\ stack' = <<[m |-> focus', left |-> Limit, at |-> 1]>> /\ visited' = {focus'}
  BY DEF EnterDepth
<1>3. /\ DOMAIN stack' = {1} /\ Len(stack') = 1 /\ stack'[1].left = Limit /\ stack'[1].m = focus' /\ stack'[1].at = 1
  BY <1>2
<1>4. Cardinality(visited') = 1 /\ visited' \ {focus'} = {}
  BY <1>2, FS_Singleton
<1>5. stack'[1].left = Limit - (Len(stack') - 1)
  BY <1>1, <1>3
<1>6. \A i \in 1 .. Len(graph'["callers"][focus']) : stack'[1].at <= i
  BY <1>3
<1> QED
  BY <1>1, <1>2, <1>3, <1>4, <1>5, <1>6 DEF Tracked

LEMMA EndDepthKeeps ==
    ASSUME QueryTypeOK, EndDepth, focus \in Names, WholeCallers, side = "callers", Tracked
    PROVE  NoneLeftOut
<1>1. stack = <<>> /\ DOMAIN stack = {} /\ RecursiveLimit \in Nat
  BY Parameters DEF EndDepth
<1>2. focus \in visited /\ \A p \in visited \cap Names : \A i \in 1 .. Len(graph["callers"][p]) : graph["callers"][p][i] \in visited
  BY <1>1 DEF Tracked
<1>3. Within(graph, "callers", focus, RecursiveLimit) \subseteq visited
  <2> DEFINE s == "callers"
  <2>1. s \in Sides /\ graph \in GraphType /\ \A p \in visited \cap Names : \A i \in 1 .. Len(graph[s][p]) : graph[s][p][i] \in visited
    BY <1>2 DEF Sides, QueryTypeOK
  <2> HIDE DEF s
  <2>2. Within(graph, s, focus, RecursiveLimit) \subseteq visited
    BY <1>1, <1>2, <2>1, WithinClosed
  <2> QED
    BY <2>2 DEF s
<1> QED
  BY <1>3 DEF Tracked, NoneLeftOut

-----------------------------------------------------------------------------
LEMMA RoutedStep == ASSUME IInv, Routed, [QueryNext]_queryVars PROVE Routed'
<1>1. ask.kind \in Kinds /\ UNCHANGED ask
  <2>1. ask.kind \in Kinds
    BY DEF IInv, QueryTypeOK, AskType
  <2>2. UNCHANGED ask
    BY DEF QueryNext, Rescan, ReadFile, AddCall, Built, ReadFails, KeepGraph, Locate, NotFound, Find, FindPath, Dequeue,
           LookAt, LookedAtAll, EndBreadth, Descend, Return, EndDepth, Expand, LookAhead, Reach, NoPath, StepBack,
           AtStart, Stopped, queryVars, answer
  <2> QED
    BY <2>1, <2>2
<1>2. CASE Find
  BY <1>1, <1>2 DEF Find, Routed, Kinds, Breadths, Depths
<1>3. CASE FindPath
  BY <1>1, <1>3 DEF FindPath, Routed
<1>4. CASE ~Find /\ ~FindPath
  <2>1. \/ pc' \in {"read", "resolve", "done", "failed"} \/ pc' = pc \/ (pc = "path" /\ pc' = "back")
    BY <1>4 DEF QueryNext, Rescan, ReadFile, AddCall, Built, ReadFails, KeepGraph, Locate, NotFound, Dequeue,
           LookAt, LookedAtAll, EndBreadth, Descend, Return, EndDepth, Expand, LookAhead, Reach, NoPath, StepBack,
           AtStart, Stopped, queryVars, NewGraph
  <2> QED
    BY <1>1, <2>1 DEF Routed
<1> QED
  BY <1>2, <1>3, <1>4

LEMMA DepthInit == QueryInit => DepthInv
  BY DEF QueryInit, DepthInv, Routed

LEMMA DepthStep == ASSUME IInv, IInv', BreadthInv, DepthInv, [QueryNext]_queryVars PROVE DepthInv'
<1>1. Routed' /\ QueryTypeOK /\ QueryTypeOK'
  BY RoutedStep DEF DepthInv, IInv
<1>2. CASE pc \in {"read", "resolve"} /\ pc' \in {"read", "resolve", "done", "failed"} /\ UNCHANGED focus
  BY <1>1, <1>2 DEF BreadthInv, DepthInv
<1>3. CASE ask.kind \notin Depths /\ UNCHANGED ask /\ pc' # "dfs"
  BY <1>1, <1>3 DEF DepthInv, WholeCallers, Depths
<1>4. CASE Find
  <2>1. /\ focus' \in Names /\ found' = [l \in Sides \cup {"path"} |-> <<>>] /\ UNCHANGED <<ask, side, graph>> /\ side = "callers"
    BY <1>4, ResolveFacts DEF Find, IInv, Phased, answer, reading
  <2>2. CASE ask.kind \in Depths
    <3>1. EnterDepth(focus') /\ pc' = "dfs"
      BY <1>4, <2>2 DEF Find, Depths
    <3>2. FramesWithin' /\ Tracked'
      BY <1>1, <2>1, <3>1, EnterDepthWithin, EnterDepthTracked
    <3>3. ListsWithin'
      BY <2>1 DEF ListsWithin
    <3> QED
      BY <1>1, <2>1, <3>1, <3>2, <3>3 DEF DepthInv
  <2>3. CASE ask.kind \notin Depths
    <3>1. pc' # "dfs"
      BY <1>1, <2>1, <2>3 DEF Routed
    <3> QED
      BY <1>3, <2>1, <2>3, <3>1
  <2> QED
    BY <2>2, <2>3
<1>5. CASE Descend
  <2>1. /\ pc = "dfs" /\ pc' = "dfs" /\ UNCHANGED <<ask, focus, graph, side>> /\ focus \in Names /\ ask.kind \in Depths
    BY <1>5 DEF Descend, IInv, Phased, DepthInv, Routed, answer, reading
  <2>2. focus # None
    BY <2>1, Parameters
  <2>3. FramesWithin' /\ ListsWithin'
    BY <1>1, <1>5, <2>1, <2>2, DescendWithin DEF DepthInv
  <2>4. WholeCallers' <=> WholeCallers
    BY <2>1 DEF WholeCallers
  <2>5. WholeCallers /\ side = "callers" => Tracked'
    BY <1>1, <1>5, <2>1, <2>2, DescendTracked DEF DepthInv
  <2>6. WholeCallers /\ side # "callers" => NoneLeftOut'
    <3> SUFFICES ASSUME WholeCallers, side # "callers" PROVE NoneLeftOut'
      OBVIOUS
    <3>1. NoneLeftOut
      BY <2>2 DEF DepthInv
    <3>2. found'["callers"] = found["callers"]
      BY <1>1, <1>5, DescendFacts, DescendShape DEF Sides
    <3> QED
      BY <2>1, <3>1, <3>2 DEF NoneLeftOut, ListedOn
  <2> QED
    BY <1>1, <2>1, <2>3, <2>4, <2>5, <2>6 DEF DepthInv
<1>6. CASE Return
  <2>1. /\ pc = "dfs" /\ pc' = "dfs" /\ UNCHANGED <<ask, focus, graph, side, found>> /\ focus \in Names
    BY <1>6 DEF Return, IInv, Phased, answer, reading
  <2>2. focus # None /\ Limit' = Limit /\ WholeCallers' = WholeCallers
    BY <2>1, Parameters, LimitKept DEF WholeCallers
  <2>3. ListsWithin' = ListsWithin /\ NoneLeftOut' = NoneLeftOut
    BY <2>1, <2>2 DEF ListsWithin, NoneLeftOut, ListedOn
  <2>4. FramesWithin'
    BY <1>1, <1>6, <2>1, ReturnKeeps DEF DepthInv
  <2>5. Tracked /\ side = "callers" => Tracked'
    BY <1>1, <1>6, ReturnKeeps
  <2> QED
    BY <1>1, <2>1, <2>2, <2>3, <2>4, <2>5 DEF DepthInv
<1>7. CASE EndDepth
  <2>1. /\ pc = "dfs" /\ UNCHANGED <<ask, focus, graph, found>> /\ focus \in Names /\ side' = "callees"
    BY <1>7 DEF EndDepth, IInv, Phased, answer, reading
  <2>2. focus # None /\ Limit' = Limit /\ WholeCallers' = WholeCallers
    BY <2>1, Parameters, LimitKept DEF WholeCallers
  <2>3. ListsWithin' = ListsWithin /\ NoneLeftOut' = NoneLeftOut
    BY <2>1, <2>2 DEF ListsWithin, NoneLeftOut, ListedOn
  <2>4. WholeCallers => NoneLeftOut
    BY <1>1, <1>7, <2>1, <2>2, EndDepthKeeps DEF DepthInv
  <2>5. pc' = "dfs" => FramesWithin'
    <3>1. pc' = "dfs" => EnterDepth(focus')
      BY <1>7, <2>1 DEF EndDepth
    <3> QED
      BY <1>1, <2>1, <3>1, EnterDepthWithin
  <2> QED
    BY <1>1, <2>1, <2>2, <2>3, <2>4, <2>5 DEF DepthInv
<1>8. CASE UNCHANGED queryVars
  <2>1. UNCHANGED <<pc, ask, focus, graph, found, side, stack, visited>>
    BY <1>8 DEF queryVars, answer, reading, walk
  <2>2. Limit' = Limit /\ \A k : Reached(k)' = Reached(k)
    BY <2>1, LimitKept DEF Reached
  <2>3. FramesWithin' <=> FramesWithin
    BY <2>1, <2>2 DEF FramesWithin
  <2>4. ListsWithin' <=> ListsWithin
    BY <2>1, <2>2 DEF ListsWithin
  <2>5. NoneLeftOut' <=> NoneLeftOut
    BY <2>1 DEF NoneLeftOut, ListedOn
  <2>6. Tracked' <=> Tracked
    BY <2>1, <2>2 DEF Tracked, ListedOn
  <2>7. WholeCallers' <=> WholeCallers
    BY <2>1 DEF WholeCallers
  <2> QED
    BY <1>1, <2>1, <2>3, <2>4, <2>5, <2>6, <2>7 DEF DepthInv
<1>9. CASE \/ \E f \in DOMAIN calls : Rescan(f)
           \/ ReadFile \/ AddCall \/ Built \/ ReadFails \/ KeepGraph \/ Locate \/ NotFound
  <2>1. pc \in {"read", "resolve"} /\ pc' \in {"read", "resolve", "done", "failed"} /\ UNCHANGED focus
    BY <1>9 DEF Rescan, ReadFile, AddCall, Built, ReadFails, KeepGraph, Locate, NotFound
  <2> QED
    BY <1>2, <2>1
<1>10. CASE \/ FindPath \/ Dequeue \/ LookAt \/ LookedAtAll \/ EndBreadth
            \/ Expand \/ LookAhead \/ Reach \/ NoPath \/ StepBack \/ AtStart
  <2>1. UNCHANGED ask /\ (FindPath => ask.kind = "path") /\ (pc \in {"bfs", "path", "back"} \/ FindPath) /\ pc' # "dfs"
    BY <1>10 DEF FindPath, Dequeue, LookAt, LookedAtAll, EndBreadth, Expand, LookAhead, Reach, NoPath, StepBack,
                 AtStart, answer
  <2>2. ask.kind \notin Depths
    BY <2>1 DEF DepthInv, Routed, Breadths, Depths
  <2> QED
    BY <1>3, <2>1, <2>2
<1>11. CASE Stopped
  BY <1>8, <1>11 DEF Stopped
<1> QED
  BY <1>4, <1>5, <1>6, <1>7, <1>8, <1>9, <1>10, <1>11 DEF QueryNext

-----------------------------------------------------------------------------
\* For every set of names, every store and every query, whatever is replaced while
\* its graphs are read: GetImpact lists each method within the limit, first at its
\* distance, and nothing else; GetCallGraph and GetAffected list nothing beyond the
\* limit; and where no chain of methods is as long as RecursiveLimit, a recursive
\* GetAffected misses no transitive caller.
THEOREM AnswersStayExact == QuerySpec => []AnswersExact
<1> DEFINE Inv == IInv /\ BreadthInv /\ DepthInv
<1>1. IInv /\ IInv' /\ BreadthInv /\ DepthInv /\ [QueryNext]_queryVars => BreadthInv' /\ DepthInv'
  BY BreadthStep, DepthStep
<1>2. QueryInit => BreadthInv /\ DepthInv
  BY BreadthInit, DepthInit
<1>3. IInv /\ BreadthInv /\ DepthInv => AnswersExact
  <2> SUFFICES ASSUME IInv, BreadthInv, DepthInv PROVE AnswersExact
    OBVIOUS
  <2>1. NearestListed
    BY DEF NearestListed, Breadth, Answered, BreadthInv, Exact, Breadths, Sides
  <2>2. ListedWithinLimit
    BY DEF ListedWithinLimit, Depth, Answered, DepthInv, ListsWithin, Depths
  <2>3. AllCallersAffected
    BY DEF AllCallersAffected, Depth, Answered, DepthInv, WholeCallers, NoneLeftOut, ListedOn, IInv, QueryTypeOK, Sides
  <2> QED
    BY <2>1, <2>2, <2>3 DEF AnswersExact
<1> QED
  BY Inductive, <1>1, <1>2, <1>3, PTL DEF QuerySpec

-----------------------------------------------------------------------------
(* The shortest path.                                                      *)

Ball(k) == Within(graph, "callees", focus, k)

At(n, d) == IsDistance(graph, "callees", focus, n, d)

\* Where a method was reached from lies one step nearer.
PrevNearer ==
    /\ prev[focus] = None
    /\ \A n \in visited \ {focus} :
          /\ prev[n] \in visited /\ Contains(graph["callees"][prev[n]], n)
          /\ \E d \in Nat : At(prev[n], d) /\ At(n, d + 1)

\* The search goes through what is k steps away and has met some of what is one
\* step further; what it met waits in the queue, the nearer first, or is not the
\* goal and had its neighbours looked at, as far as item goes.
Frontier(k) ==
    /\ Ball(k) \subseteq visited /\ visited \subseteq Ball(k + 1)
    /\ \A i \in DOMAIN queue :
          /\ queue[i].m \in visited /\ (k > 0 => queue[i].m \notin Ball(k - 1))
          /\ \A j \in DOMAIN queue : i < j /\ queue[j].m \in Ball(k) => queue[i].m \in Ball(k)
    /\ item # None => item.m # goal /\ At(item.m, k)
    /\ \A p \in visited :
          \/ \E i \in DOMAIN queue : queue[i].m = p
          \/ /\ p # goal
             /\ \A i \in 1 .. Len(graph["callees"][p]) :
                   (item # None /\ p = item.m => i < at) => graph["callees"][p][i] \in visited

\* A path of calls that ends in the goal.
Leads(p) ==
    /\ p # <<>> /\ p[Len(p)].m = goal
    /\ \A i \in 1 .. Len(p) - 1 : Contains(graph["callees"][p[i].m], p[i + 1].m)

\* The path from cur to the goal, of which cur itself is still to be put in front.
Backtrack ==
    /\ goal \in visited
    /\ found["path"] = <<>> => cursor = goal
    /\ found["path"] # <<>> =>
          /\ Leads(found["path"]) /\ found["path"][1].m \in visited /\ cursor = prev[found["path"][1].m]
          /\ \E d \in Nat : At(found["path"][1].m, d) /\ At(goal, d + (Len(found["path"]) - 1))

NoWay == found["path"] = <<>> /\ \A k \in Nat : goal \notin Ball(k)

Way == /\ Leads(found["path"]) /\ found["path"][1].m = focus /\ At(goal, Len(found["path"]) - 1)

PathInv ==
    /\ pc \in {"read", "resolve"} => prev = [m \in Names |-> None]
    /\ ask.kind = "path" /\ focus # None =>
          /\ goal \in Names
          /\ pc = "path" => side = "callees" /\ found["path"] = <<>> /\ PrevNearer /\ \E k \in Nat : Frontier(k)
          /\ pc = "back" => PrevNearer /\ Backtrack
          /\ pc = "done" => NoWay \/ Way

-----------------------------------------------------------------------------
\* Balls around the start grow by what is next to them.
LEMMA BallFacts ==
    ASSUME QueryTypeOK, focus \in Names
    PROVE  /\ Ball(0) = {focus}
           /\ \A k \in Nat :
                 /\ Ball(k) \subseteq Names
                 /\ \A n : n \in Ball(k + 1) <=>
                       n \in Ball(k) \/ \E p \in Ball(k) : \E i \in 1 .. Len(graph["callees"][p]) : n = graph["callees"][p][i]
           /\ \A j, k \in Nat : j <= k => Ball(j) \subseteq Ball(k)
           /\ \A n : \A d \in Nat : At(n, d) <=> n \in Ball(d) /\ (d > 0 => n \notin Ball(d - 1))
<1>1. graph \in GraphType /\ "callees" \in Sides
  BY DEF QueryTypeOK, Sides
<1>2. Ball(0) = {focus}
  BY WithinSteps DEF Ball
<1>3. ASSUME NEW k \in Nat
      PROVE  /\ Ball(k) \subseteq Names
             /\ \A n : n \in Ball(k + 1) <=>
                   n \in Ball(k) \/ \E p \in Ball(k) : \E i \in 1 .. Len(graph["callees"][p]) : n = graph["callees"][p][i]
  <2> DEFINE s == "callees"
  <2>1. s \in Sides
    BY <1>1
  <2> HIDE DEF s
  <2>2. /\ Within(graph, s, focus, k) \in SUBSET Names
        /\ \A n : n \in Within(graph, s, focus, k + 1) <=>
              \/ n \in Within(graph, s, focus, k)
              \/ \E p \in Within(graph, s, focus, k) : \E i \in 1 .. Len(graph[s][p]) : n = graph[s][p][i]
    BY <1>1, <2>1, WithinNames, WithinNext
  <2> QED
    BY <2>2 DEF Ball, s
<1>4. ASSUME NEW j \in Nat, NEW k \in Nat, j <= k PROVE Ball(j) \subseteq Ball(k)
  BY <1>1, <1>4, WithinGrows DEF Ball
<1>5. \A n : \A d \in Nat : At(n, d) <=> n \in Ball(d) /\ (d > 0 => n \notin Ball(d - 1))
  BY DEF At, Ball, IsDistance
<1> QED
  BY <1>2, <1>3, <1>4, <1>5

\* No distance is larger than the number of methods, for each ball up to it has a
\* member that the one before has not.
LEMMA DistanceBounded ==
    ASSUME QueryTypeOK, focus \in Names, NEW n, NEW d \in Nat, At(n, d)
    PROVE  n \in Ball(Cardinality(Names))
<1>1. IsFiniteSet(Names) /\ Cardinality(Names) \in Nat
  BY Parameters, FS_CardinalityType
<1>2. \A k \in Nat : Ball(k) \in SUBSET Names /\ IsFiniteSet(Ball(k)) /\ Cardinality(Ball(k)) \in Nat
                     /\ Cardinality(Ball(k)) <= Cardinality(Names)
  BY <1>1, BallFacts, FS_Subset, FS_CardinalityType
<1> DEFINE I == {j \in Nat : j <= d => Cardinality(Ball(j)) > j}
<1>3. 0 \in I
  <2>1. Ball(0) = {focus} /\ Cardinality({focus}) = 1
    BY BallFacts, FS_Singleton
  <2> QED
    BY <2>1
<1>4. ASSUME NEW j \in Nat, j \in I PROVE j + 1 \in I
  <2> SUFFICES ASSUME j + 1 <= d PROVE Cardinality(Ball(j + 1)) > j + 1
    OBVIOUS
  <2>1. Cardinality(Ball(j)) > j /\ Ball(j) \subseteq Ball(j + 1)
    BY <1>4, BallFacts
  <2>2. Ball(j) # Ball(j + 1)
    <3> SUFFICES ASSUME Ball(j) = Ball(j + 1) PROVE FALSE
      OBVIOUS
    <3> DEFINE X == Ball(j)
               s == "callees"
    <3>1. \A p \in X \cap Names : \A i \in 1 .. Len(graph[s][p]) : graph[s][p][i] \in X
      BY BallFacts
    <3>2. focus \in X /\ graph \in GraphType /\ s \in Sides
      <4>1. Ball(0) \subseteq Ball(j) /\ focus \in Ball(0)
        BY BallFacts
      <4> QED
        BY <4>1 DEF QueryTypeOK, Sides
    <3>3. Within(graph, s, focus, d) \subseteq X
      <4> HIDE DEF X, s
      <4> QED
        BY <3>1, <3>2, WithinClosed
    <3>4. n \in Ball(j) /\ d - 1 \in Nat /\ j <= d - 1 /\ n \notin Ball(d - 1)
      BY <3>3, BallFacts DEF Ball
    <3> QED
      BY <3>4, BallFacts
  <2>3. Cardinality(Ball(j)) # Cardinality(Ball(j + 1)) /\ Cardinality(Ball(j)) <= Cardinality(Ball(j + 1))
    <3>1. IsFiniteSet(Ball(j + 1)) /\ Ball(j) \in SUBSET Ball(j + 1)
      BY <1>2, <2>1
    <3> QED
      BY <2>2, <3>1, FS_Subset
  <2>4. Cardinality(Ball(j)) \in Nat /\ Cardinality(Ball(j + 1)) \in Nat
    BY <1>2
  <2> QED
    BY <2>1, <2>3, <2>4
<1>5. Nat \subseteq I
  <2> HIDE DEF I
  <2> QED
    BY <1>3, <1>4, SetInduction
<1>6. d <= Cardinality(Names)
  BY <1>1, <1>2, <1>5
<1> QED
  BY <1>1, <1>6, BallFacts

\* The search begins with its start in the queue.
LEMMA FirstFrontier ==
    ASSUME QueryTypeOK, IInv, focus' \in Names, FindPath, prev = [m \in Names |-> None]
    PROVE  PrevNearer' /\ Frontier(0)'
<1>1. /\ queue' = <<[m |-> focus', left |-> 1]>> /\ visited' = {focus'} /\ prev' = prev /\ item' = None
  BY DEF FindPath, IInv, Phased
<1>2. Ball(0)' = {focus'}
  BY WithinSteps DEF Ball
<1>3. DOMAIN queue' = {1} /\ queue'[1].m = focus'
  BY <1>1
<1>4. QueryTypeOK'
  BY FindPathStep DEF IInv
<1>5. visited' \subseteq Ball(1)'
  <2>1. \A g, m : m \in Names /\ g \in GraphType => m \in Within(g, "callees", m, 0 + 1)
    <3> TAKE g, m
    <3> HAVE m \in Names /\ g \in GraphType
    <3> DEFINE s == "callees"
    <3>1. s \in Sides
      BY DEF Sides
    <3> HIDE DEF s
    <3>2. m \in Within(g, s, m, 0) /\ Within(g, s, m, 0) \subseteq Within(g, s, m, 0 + 1)
      BY <3>1, WithinSteps, WithinNext
    <3> QED
      BY <3>2 DEF s
  <2>2. graph' \in GraphType
    BY <1>4 DEF QueryTypeOK
  <2>3. focus' \in Within(graph', "callees", focus', 0 + 1)
    BY <2>1, <2>2
  <2>4. 0 + 1 = 1
    OBVIOUS
  <2> QED
    BY <1>1, <2>3, <2>4 DEF Ball
<1>6. PrevNearer'
  BY <1>1 DEF PrevNearer
<1>7. Frontier(0)'
  <2>1. 0 + 1 = 1
    OBVIOUS
  <2> QED
    BY <1>1, <1>2, <1>3, <1>5, <2>1 DEF Frontier
<1> QED
  BY <1>6, <1>7

\* When what is k steps away has been taken, the round for the rest has begun.
LEMMA NextFrontier ==
    ASSUME QueryTypeOK, focus \in Names, NEW k \in Nat, Frontier(k), item = None,
           queue # <<>>, queue[1].m \notin Ball(k)
    PROVE  Frontier(k + 1)
<1>1. queue \in Seq(Entry) /\ 1 \in DOMAIN queue /\ DOMAIN queue = 1 .. Len(queue)
  BY DEF QueryTypeOK
<1>2. \A i \in DOMAIN queue : queue[i].m \notin Ball(k)
  <2> TAKE i \in DOMAIN queue
  <2>1. i = 1 \/ 1 < i
    BY <1>1
  <2> QED
    BY <1>1, <2>1 DEF Frontier
<1>3. Ball(k + 1) \subseteq visited
  <2> SUFFICES ASSUME NEW n \in Ball(k + 1), n \notin Ball(k) PROVE n \in visited
    BY DEF Frontier
  <2>1. PICK p \in Ball(k) : \E i \in 1 .. Len(graph["callees"][p]) : n = graph["callees"][p][i]
    BY BallFacts
  <2>2. p \in visited /\ ~\E i \in DOMAIN queue : queue[i].m = p
    BY <1>2, <2>1 DEF Frontier
  <2> QED
    BY <2>1, <2>2 DEF Frontier
<1>4. visited \subseteq Ball((k + 1) + 1) /\ (k + 1) - 1 = k /\ visited \subseteq Ball(k + 1)
  <2>1. Ball(k + 1) \subseteq Ball((k + 1) + 1)
    BY BallFacts
  <2> QED
    BY <2>1 DEF Frontier
<1>5. \A i \in DOMAIN queue : queue[i].m \in visited /\ queue[i].m \in Ball(k + 1)
  BY <1>4 DEF Frontier
<1> QED
  BY <1>2, <1>3, <1>4, <1>5 DEF Frontier

\* The nearest method of the queue is expanded.
LEMMA ExpandFrontier ==
    ASSUME QueryTypeOK, focus \in Names, NEW k \in Nat, Frontier(k), Expand, queue[1].m \in Ball(k)
    PROVE  Frontier(k)'
<1>1. /\ queue \in Seq(Entry) /\ queue # <<>> /\ queue' = Tail(queue) /\ Head(queue).m # goal
      /\ item = None /\ item' = [m |-> Head(queue).m, left |-> 1] /\ at' = 1
      /\ UNCHANGED <<focus, goal, graph, visited>>
  BY DEF QueryTypeOK, Expand, reading
<1>2. /\ 1 \in DOMAIN queue /\ DOMAIN queue = 1 .. Len(queue) /\ Len(queue) \in Nat \ {0} /\ Head(queue) = queue[1]
      /\ DOMAIN queue' = 1 .. Len(queue) - 1 /\ \A i \in 1 .. Len(queue) - 1 : queue'[i] = queue[i + 1]
  BY <1>1
<1>3. /\ \A i \in DOMAIN queue' : i + 1 \in DOMAIN queue /\ queue'[i] = queue[i + 1]
      /\ \A i \in DOMAIN queue : i # 1 => i - 1 \in DOMAIN queue' /\ queue'[i - 1] = queue[i]
  BY <1>2
<1>4. \A j : Ball(j)' = Ball(j)
  BY <1>1 DEF Ball
<1>5. \A n, d : At(n, d)' <=> At(n, d)
  BY <1>1 DEF At
<1>6. At(queue[1].m, k)
  BY <1>2, BallFacts DEF Frontier
<1>7. /\ item' # None /\ \A p : p = item'.m <=> p = queue[1].m
      /\ queue[1].m # goal
  <2>1. queue[1] \in Entry
    BY <1>1, <1>2
  <2>2. item' \in Entry
    BY <1>1, <1>2, <2>1 DEF Entry
  <2> QED
    BY <1>1, <1>2, <2>2, EntryNotNone
<1>8. \A i \in DOMAIN queue' :
          /\ queue'[i].m \in visited /\ (k > 0 => queue'[i].m \notin Ball(k - 1))
          /\ \A j \in DOMAIN queue' : i < j /\ queue'[j].m \in Ball(k) => queue'[i].m \in Ball(k)
  <2> TAKE i \in DOMAIN queue'
  <2>1. i + 1 \in DOMAIN queue /\ queue'[i] = queue[i + 1] /\ i \in Nat
    BY <1>2, <1>3
  <2>2. ASSUME NEW j \in DOMAIN queue', i < j, queue'[j].m \in Ball(k) PROVE queue'[i].m \in Ball(k)
    <3>1. j + 1 \in DOMAIN queue /\ queue'[j] = queue[j + 1] /\ i + 1 < j + 1
      BY <1>2, <1>3, <2>1, <2>2
    <3> QED
      BY <2>1, <2>2, <3>1 DEF Frontier
  <2> QED
    BY <2>1, <2>2 DEF Frontier
<1>9. \A p \in visited :
          \/ \E i \in DOMAIN queue' : queue'[i].m = p
          \/ /\ p # goal
             /\ \A i \in 1 .. Len(graph["callees"][p]) : (p = queue[1].m => i < 1) => graph["callees"][p][i] \in visited
  <2> TAKE p \in visited
  <2>1. CASE p = queue[1].m
    <3>1. \A i \in 1 .. Len(graph["callees"][p]) : ~(i < 1)
      OBVIOUS
    <3> QED
      BY <1>7, <2>1, <3>1
  <2>2. CASE p # queue[1].m /\ \E i \in DOMAIN queue : queue[i].m = p
    BY <1>3, <2>2
  <2>3. CASE ~\E i \in DOMAIN queue : queue[i].m = p
    BY <1>1, <2>3 DEF Frontier
  <2> QED
    BY <2>1, <2>2, <2>3
<1>10. item'.m # goal /\ \A p : p = item'.m => At(p, k)
  BY <1>6, <1>7
<1>11. Ball(k) \subseteq visited /\ visited \subseteq Ball(k + 1)
  BY DEF Frontier
<1> QED
  BY <1>1, <1>4, <1>5, <1>7, <1>8, <1>9, <1>10, <1>11 DEF Frontier

\* A neighbour of item is one step further, or was met before.
LEMMA LookAheadFrontier ==
    ASSUME QueryTypeOK, focus \in Names, side = "callees", NEW k \in Nat, Frontier(k), PrevNearer, LookAhead
    PROVE  Frontier(k)' /\ PrevNearer'
<1>1. /\ queue \in Seq(Entry) /\ item # None /\ item \in [m : Names, left : Nat \ {0}] /\ item.m \in Names
      /\ at \in Nat \ {0} /\ at <= Len(graph["callees"][item.m]) /\ at' = at + 1
      /\ UNCHANGED <<focus, goal, graph, item>> /\ visited \subseteq Names
      /\ prev \in [Names -> Names \cup {None}] /\ graph \in GraphType /\ graph["callees"][item.m] \in Seq(Names)
  BY DEF QueryTypeOK, LookAhead, reading, GraphType, Sides
<1>2. PICK m : m = graph["callees"][item.m][at]
  OBVIOUS
<1>3. /\ m \in visited => UNCHANGED <<visited, prev, queue>>
      /\ m \notin visited => visited' = visited \cup {m} /\ prev' = [prev EXCEPT ![m] = item.m]
                             /\ queue' = Append(queue, [m |-> m, left |-> 1])
  BY <1>2 DEF LookAhead
<1>4. at \in 1 .. Len(graph["callees"][item.m]) /\ m \in Names
  BY <1>1, <1>2
<1>5. item.m \in Ball(k) /\ At(item.m, k) /\ m \in Ball(k + 1) /\ item.m # goal
  <2>1. At(item.m, k) /\ item.m # goal
    BY <1>1 DEF Frontier
  <2>2. item.m \in Ball(k)
    BY <2>1, BallFacts
  <2> QED
    BY <1>2, <1>4, <2>1, <2>2, BallFacts
<1>6. \A j : Ball(j)' = Ball(j)
  BY <1>1 DEF Ball
<1>7. \A n, d : At(n, d)' <=> At(n, d)
  BY <1>1 DEF At
<1>8. Ball(k) \subseteq visited /\ visited \subseteq Ball(k + 1) /\ focus \in visited
  <2>1. focus \in Ball(0) /\ Ball(0) \subseteq Ball(k)
    BY BallFacts
  <2> QED
    BY <2>1 DEF Frontier
<1>9. CASE m \in visited
  <2>1. UNCHANGED <<visited, prev, queue>>
    BY <1>3, <1>9
  <2>2. PrevNearer'
    BY <1>1, <1>7, <2>1 DEF PrevNearer
  <2>3. \A p \in visited :
          \/ \E i \in DOMAIN queue : queue[i].m = p
          \/ /\ p # goal
             /\ \A i \in 1 .. Len(graph["callees"][p]) : (p = item.m => i < at + 1) => graph["callees"][p][i] \in visited
    <3> TAKE p \in visited
    <3>1. CASE \E i \in DOMAIN queue : queue[i].m = p
      BY <3>1
    <3>2. CASE ~\E i \in DOMAIN queue : queue[i].m = p
      <4>1. p # goal /\ \A i \in 1 .. Len(graph["callees"][p]) : (p = item.m => i < at) => graph["callees"][p][i] \in visited
        BY <1>1, <3>2 DEF Frontier
      <4>2. \A i \in 1 .. Len(graph["callees"][p]) : i < at + 1 => i < at \/ i = at
        BY <1>1
      <4> QED
        BY <1>2, <1>9, <4>1, <4>2
    <3> QED
      BY <3>1, <3>2
  <2>4. Frontier(k)'
    BY <1>1, <1>6, <1>7, <2>1, <2>3 DEF Frontier
  <2> QED
    BY <2>2, <2>4
<1>10. CASE m \notin visited
  <2> DEFINE e == [m |-> m, left |-> 1]
  <2>1. /\ visited' = visited \cup {m} /\ prev' = [prev EXCEPT ![m] = item.m] /\ queue' = Append(queue, e)
        /\ e.m = m /\ e \in Entry
    BY <1>3, <1>4, <1>10 DEF Entry
  <2> HIDE DEF e
  <2>2. /\ Len(queue) \in Nat /\ DOMAIN queue = 1 .. Len(queue) /\ DOMAIN queue' = 1 .. Len(queue) + 1
        /\ \A i \in 1 .. Len(queue) : queue'[i] = queue[i]
        /\ queue'[Len(queue) + 1] = e
    BY <1>1, <2>1
  <2>3. m \notin Ball(k) /\ m # focus /\ item.m \in visited
    BY <1>5, <1>8, <1>10
  <2>4. PrevNearer'
    <3>1. prev'[focus] = None /\ prev'[m] = item.m /\ \A n \in visited : prev'[n] = prev[n]
      BY <1>1, <1>4, <1>8, <1>10, <2>1, <2>3 DEF PrevNearer
    <3>2. Contains(graph["callees"][item.m], m)
      BY <1>1, <1>2, <1>4 DEF Contains
    <3>3. At(m, k + 1)
      <4>1. (k + 1) - 1 = k
        OBVIOUS
      <4> QED
        BY <1>5, <2>3, <4>1, BallFacts
    <3>4. ASSUME NEW n \in visited' \ {focus}
          PROVE  /\ prev'[n] \in visited' /\ Contains(graph["callees"][prev'[n]], n)
                 /\ \E d \in Nat : At(prev'[n], d) /\ At(n, d + 1)
      <4>1. CASE n = m
        BY <1>5, <2>1, <2>3, <3>1, <3>2, <3>3, <4>1
      <4>2. CASE n # m
        BY <2>1, <3>1, <4>2 DEF PrevNearer
      <4> QED
        BY <4>1, <4>2
    <3>5. \A n \in visited' \ {focus} : \A q : q = prev'[n] =>
             q \in visited' /\ Contains(graph["callees"][q], n) /\ \E d \in Nat : At(q, d)' /\ At(n, d + 1)'
      BY <1>7, <3>4
    <3> QED
      BY <1>1, <3>1, <3>5 DEF PrevNearer
  <2>5. visited' \subseteq Ball(k + 1) /\ Ball(k) \subseteq visited'
    BY <1>5, <1>8, <2>1
  <2>6. ASSUME NEW i \in DOMAIN queue'
        PROVE  /\ queue'[i].m \in visited' /\ (k > 0 => queue'[i].m \notin Ball(k - 1))
               /\ \A j \in DOMAIN queue' : i < j /\ queue'[j].m \in Ball(k) => queue'[i].m \in Ball(k)
    <3>1. k > 0 => m \notin Ball(k - 1)
      BY <2>3, BallFacts
    <3>2. CASE i = Len(queue) + 1
      <4>1. \A j \in DOMAIN queue' : ~(i < j)
        BY <2>2, <3>2
      <4> QED
        BY <2>1, <2>2, <3>1, <3>2, <4>1
    <3>3. CASE i # Len(queue) + 1
      <4>1. i \in DOMAIN queue /\ queue'[i] = queue[i]
        BY <2>2, <3>3
      <4>2. \A j \in DOMAIN queue' : queue'[j].m \in Ball(k) => j \in DOMAIN queue /\ queue'[j] = queue[j]
        BY <2>1, <2>2, <2>3
      <4> QED
        BY <2>1, <4>1, <4>2 DEF Frontier
    <3> QED
      BY <3>2, <3>3
  <2>7. ASSUME NEW p \in visited'
        PROVE  \/ \E i \in DOMAIN queue' : queue'[i].m = p
               \/ /\ p # goal
                  /\ \A i \in 1 .. Len(graph["callees"][p]) :
                        (p = item.m => i < at + 1) => graph["callees"][p][i] \in visited'
    <3>1. CASE p = m
      <4>1. Len(queue) + 1 \in DOMAIN queue'
        BY <2>2
      <4> QED
        BY <2>1, <2>2, <3>1, <4>1
    <3>2. CASE p # m /\ \E i \in DOMAIN queue : queue[i].m = p
      BY <2>2, <3>2
    <3>3. CASE p # m /\ ~\E i \in DOMAIN queue : queue[i].m = p
      <4>1. p # goal /\ \A i \in 1 .. Len(graph["callees"][p]) : (p = item.m => i < at) => graph["callees"][p][i] \in visited
        BY <1>1, <2>1, <3>3 DEF Frontier
      <4>2. \A i \in 1 .. Len(graph["callees"][p]) : i < at + 1 => i < at \/ i = at
        BY <1>1
      <4> QED
        BY <1>2, <2>1, <4>1, <4>2
    <3> QED
      BY <3>1, <3>2, <3>3
  <2>8. Frontier(k)'
    BY <1>1, <1>5, <1>6, <1>7, <2>5, <2>6, <2>7 DEF Frontier
  <2> QED
    BY <2>4, <2>8
<1> QED
  BY <1>9, <1>10

LEMMA LookedAtAllFrontier ==
    ASSUME QueryTypeOK, focus \in Names, side = "callees", NEW k \in Nat, Frontier(k), PrevNearer, LookedAtAll
    PROVE  Frontier(k)' /\ PrevNearer'
<1>1. /\ item # None /\ item' = None /\ at > Len(graph["callees"][item.m]) /\ at \in Nat
      /\ UNCHANGED <<focus, goal, graph, queue, visited, prev>>
  BY DEF LookedAtAll, QueryTypeOK, reading
<1>2. (\A j : Ball(j)' = Ball(j)) /\ (\A n, d : At(n, d)' <=> At(n, d))
  BY <1>1 DEF Ball, At
<1>3. \A i \in 1 .. Len(graph["callees"][item.m]) : i < at
  <2>1. graph["callees"][item.m] \in Seq(Names)
    BY <1>1 DEF QueryTypeOK, GraphType, Sides
  <2>2. Len(graph["callees"][item.m]) \in Nat
    BY <2>1
  <2> QED
    BY <1>1, <2>2
<1>4. PrevNearer'
  BY <1>1, <1>2 DEF PrevNearer
<1>5. \A p \in visited :
          \/ \E i \in DOMAIN queue : queue[i].m = p
          \/ p # goal /\ \A i \in 1 .. Len(graph["callees"][p]) : graph["callees"][p][i] \in visited
  BY <1>1, <1>3 DEF Frontier
<1>6. Frontier(k)'
  BY <1>1, <1>2, <1>5 DEF Frontier
<1> QED
  BY <1>4, <1>6

\* The queue is empty: what was met is all there is, and the goal is not in it.
LEMMA NoPathFacts ==
    ASSUME QueryTypeOK, focus \in Names, NEW k \in Nat, Frontier(k), item = None, queue = <<>>
    PROVE  \A j \in Nat : goal \notin Ball(j)
<1>1. DOMAIN queue = {}
  OBVIOUS
<1>2. \A p \in visited : p # goal /\ \A i \in 1 .. Len(graph["callees"][p]) : graph["callees"][p][i] \in visited
  BY <1>1 DEF Frontier
<1>3. focus \in visited
  <2>1. focus \in Ball(0) /\ Ball(0) \subseteq Ball(k)
    BY BallFacts
  <2> QED
    BY <2>1 DEF Frontier
<1>4. \A j \in Nat : Ball(j) \subseteq visited
  <2> DEFINE s == "callees"
  <2>1. s \in Sides /\ graph \in GraphType /\ \A p \in visited \cap Names : \A i \in 1 .. Len(graph[s][p]) : graph[s][p][i] \in visited
    BY <1>2 DEF Sides, QueryTypeOK
  <2> HIDE DEF s
  <2>2. \A j \in Nat : Within(graph, s, focus, j) \subseteq visited
    BY <1>3, <2>1, WithinClosed
  <2> QED
    BY <2>2 DEF s, Ball
<1> QED
  BY <1>2, <1>4

-----------------------------------------------------------------------------
\* A path with one more method in front.
LEMMA FrontFacts ==
    ASSUME NEW s \in Seq(Listed), NEW e \in Listed
    PROVE  /\ <<e>> \o s # <<>> /\ Len(<<e>> \o s) = Len(s) + 1 /\ (<<e>> \o s)[1] = e
           /\ \A i \in 1 .. Len(s) : (<<e>> \o s)[i + 1] = s[i]
           /\ Len(s) \in Nat /\ (s = <<>> <=> Len(s) = 0)
<1>1. Len(s) \in Nat /\ (s = <<>> <=> Len(s) = 0)
  OBVIOUS
<1>2. <<e>> \in Seq(Listed) /\ Len(<<e>>) = 1 /\ <<e>>[1] = e
  OBVIOUS
<1> DEFINE r == <<e>> \o s
<1>3. Len(r) = Len(s) + 1 /\ r[1] = e /\ \A i \in 1 .. Len(s) : r[i + 1] = s[i]
  BY <1>1, <1>2
<1>4. r # <<>>
  <2> HIDE DEF r
  <2> QED
    BY <1>1, <1>3
<1> QED
  BY <1>1, <1>3, <1>4

\* reconstructPath goes one step back.
LEMMA StepBackKeeps ==
    ASSUME QueryTypeOK, PrevNearer, Backtrack, StepBack, focus \in Names, goal \in Names
    PROVE  PrevNearer' /\ Backtrack'
<1>1. /\ UNCHANGED <<focus, goal, graph, visited, prev>> /\ cursor # None /\ cursor \in Names
      /\ cursor' = prev[cursor] /\ found["path"] \in Seq(Listed) /\ visited \subseteq Names
      /\ found'["path"] = <<[m |-> cursor, depth |-> 0]>> \o found["path"]
  BY DEF StepBack, QueryTypeOK, reading
<1>2. (\A j : Ball(j)' = Ball(j)) /\ (\A n, d : At(n, d)' <=> At(n, d))
  BY <1>1 DEF Ball, At
<1>3. PrevNearer'
  BY <1>1, <1>2 DEF PrevNearer
<1> DEFINE e == [m |-> cursor, depth |-> 0]
<1>4. PICK p : p = found["path"]
  OBVIOUS
<1>5. PICK q : q = found'["path"]
  OBVIOUS
<1>6. e \in Listed /\ e.m = cursor /\ q = <<e>> \o p /\ p \in Seq(Listed)
  BY <1>1, <1>4, <1>5 DEF Listed
<1> HIDE DEF e
<1>7. /\ q # <<>> /\ Len(q) = Len(p) + 1 /\ q[1] = e /\ \A i \in 1 .. Len(p) : q[i + 1] = p[i]
      /\ Len(p) \in Nat /\ (p = <<>> <=> Len(p) = 0)
  BY <1>6, FrontFacts
<1>8. CASE p = <<>>
  <2>1. cursor = goal /\ goal \in visited
    BY <1>4, <1>8 DEF Backtrack
  <2>2. Len(q) = 1 /\ q[Len(q)].m = goal /\ q[1].m = goal
    BY <1>6, <1>7, <1>8, <2>1
  <2>3. \E d \in Nat : At(goal, d)
    <3>1. focus \in Ball(0) /\ At(focus, 0)
      BY BallFacts
    <3>2. goal # focus => \E d \in Nat : At(goal, d + 1)
      BY <2>1 DEF PrevNearer
    <3> QED
      BY <3>1, <3>2
  <2>4. Leads(q)
    <3>1. 1 .. Len(q) - 1 = {}
      BY <2>2
    <3> QED
      BY <1>7, <2>2, <3>1 DEF Leads
  <2>5. \E d \in Nat : At(q[1].m, d) /\ At(goal, d + (Len(q) - 1))
    BY <2>2, <2>3
  <2>6. Leads(q)'
    <3>1. goal' = goal /\ graph' = graph
      BY <1>1
    <3> QED
      BY <2>4, <3>1 DEF Leads
  <2> QED
    BY <1>1, <1>2, <1>3, <1>5, <1>7, <2>1, <2>2, <2>5, <2>6 DEF Backtrack
<1>9. CASE p # <<>>
  <2>1. /\ Leads(p) /\ p[1].m \in visited /\ cursor = prev[p[1].m] /\ goal \in visited
        /\ \E d \in Nat : At(p[1].m, d) /\ At(goal, d + (Len(p) - 1))
    BY <1>4, <1>9 DEF Backtrack
  <2>2. p[1].m # focus
    BY <1>1, <2>1 DEF PrevNearer
  <2>3. /\ cursor \in visited /\ Contains(graph["callees"][cursor], p[1].m)
        /\ \E d \in Nat : At(cursor, d) /\ At(p[1].m, d + 1)
    BY <2>1, <2>2 DEF PrevNearer
  <2>4. Len(p) \in Nat \ {0} /\ q[1].m = cursor /\ q[2] = p[1]
    <3>1. Len(p) \in Nat \ {0} /\ 1 \in 1 .. Len(p) /\ 1 + 1 = 2
      BY <1>7, <1>9
    <3> QED
      BY <1>6, <1>7, <3>1
  <2>5. Leads(q)
    <3>1. q[Len(q)].m = goal
      <4>1. Len(p) \in 1 .. Len(p)
        BY <2>4
      <4> QED
        BY <1>7, <2>1, <4>1 DEF Leads
    <3>2. ASSUME NEW i \in 1 .. Len(q) - 1 PROVE Contains(graph["callees"][q[i].m], q[i + 1].m)
      <4>1. CASE i = 1
        BY <2>3, <2>4, <4>1
      <4>2. CASE i # 1
        <5>1. i - 1 \in 1 .. Len(p) - 1 /\ i - 1 \in 1 .. Len(p) /\ i \in 1 .. Len(p) /\ (i - 1) + 1 = i
          BY <1>7, <2>4, <4>2
        <5>2. Contains(graph["callees"][p[i - 1].m], p[(i - 1) + 1].m)
          BY <2>1, <5>1 DEF Leads
        <5>3. q[i] = p[i - 1] /\ q[i + 1] = p[i]
          BY <1>7, <5>1
        <5> QED
          BY <5>1, <5>2, <5>3
      <4> QED
        BY <4>1, <4>2
    <3> QED
      BY <1>7, <3>1, <3>2 DEF Leads
  <2>6. \E d \in Nat : At(q[1].m, d) /\ At(goal, d + (Len(q) - 1))
    <3>1. PICK d \in Nat : At(cursor, d) /\ At(p[1].m, d + 1)
      BY <2>3
    <3>2. PICK c \in Nat : At(p[1].m, c) /\ At(goal, c + (Len(p) - 1))
      BY <2>1
    <3>3. c = d + 1
      <4>1. graph \in GraphType /\ "callees" \in Sides
        BY DEF QueryTypeOK, Sides
      <4>2. \A n : \A a, b \in Nat : At(n, a) /\ At(n, b) => a <= b
        <5> SUFFICES ASSUME NEW n, NEW a \in Nat, NEW b \in Nat, At(n, a), At(n, b), b < a PROVE FALSE
          OBVIOUS
        <5>1. b <= a - 1 /\ a - 1 \in Nat /\ n \in Ball(b) /\ n \notin Ball(a - 1)
          BY BallFacts
        <5> QED
          BY <5>1, BallFacts
      <4>3. c <= d + 1 /\ d + 1 <= c
        BY <3>1, <3>2, <4>2
      <4> QED
        BY <4>3
    <3>4. d + (Len(q) - 1) = c + (Len(p) - 1)
      BY <1>7, <3>3
    <3> QED
      BY <2>4, <3>1, <3>2, <3>4
  <2>7. Leads(q)'
    <3>1. goal' = goal /\ graph' = graph
      BY <1>1
    <3> QED
      BY <2>5, <3>1 DEF Leads
  <2> QED
    BY <1>1, <1>2, <1>3, <1>5, <1>7, <2>1, <2>3, <2>4, <2>6, <2>7 DEF Backtrack
<1> QED
  BY <1>8, <1>9

\* The whole path is there.
LEMMA BackAtStart ==
    ASSUME QueryTypeOK, PrevNearer, Backtrack, AtStart, focus \in Names, goal \in Names
    PROVE  Way'
<1>1. /\ UNCHANGED <<focus, goal, graph>> /\ cursor = None /\ found["path"] \in Seq(Listed) /\ visited \subseteq Names
      /\ found' = IF Head(found["path"]).m = focus THEN found ELSE [found EXCEPT !.path = <<>>]
  BY DEF AtStart, QueryTypeOK, reading
<1>2. PICK p : p = found["path"]
  OBVIOUS
<1>3. p # <<>> /\ p \in Seq(Listed)
  BY <1>1, <1>2, Parameters DEF Backtrack
<1>4. /\ Leads(p) /\ p[1].m \in visited /\ prev[p[1].m] = None
      /\ \E d \in Nat : At(p[1].m, d) /\ At(goal, d + (Len(p) - 1))
  BY <1>1, <1>2, <1>3 DEF Backtrack
<1>5. p[1].m = focus
  <2>1. p[1].m # focus => prev[p[1].m] \in visited
    BY <1>4 DEF PrevNearer
  <2> QED
    BY <1>1, <1>4, <2>1, Parameters
<1>6. found' = found
  <2>1. Head(p) = p[1]
    BY <1>3
  <2> QED
    BY <1>1, <1>2, <1>5, <2>1
<1>7. At(goal, Len(p) - 1)
  <2>1. PICK d \in Nat : At(p[1].m, d) /\ At(goal, d + (Len(p) - 1))
    BY <1>4
  <2>2. d = 0
    <3>1. focus \in Ball(0) /\ (d > 0 => Ball(0) \subseteq Ball(d - 1) /\ focus \notin Ball(d - 1))
      <4>1. At(focus, d) /\ (d > 0 => d - 1 \in Nat /\ 0 <= d - 1)
        BY <1>5, <2>1
      <4>2. focus \in Ball(0) /\ (d > 0 => focus \notin Ball(d - 1))
        BY <4>1, BallFacts
      <4>3. d > 0 => Ball(0) \subseteq Ball(d - 1)
        BY <4>1, BallFacts
      <4> QED
        BY <4>2, <4>3
    <3> QED
      BY <3>1
  <2>3. 0 + (Len(p) - 1) = Len(p) - 1
    BY <1>3
  <2> QED
    BY <2>1, <2>2, <2>3
<1>8. Way
  BY <1>2, <1>4, <1>5, <1>7 DEF Way
<1> QED
  BY <1>1, <1>6, <1>8 DEF Way, Leads, At

LEMMA PathInit == QueryInit => PathInv
  BY DEF QueryInit, PathInv

LEMMA PathStep == ASSUME IInv, IInv', BreadthInv, DepthInv, PathInv, [QueryNext]_queryVars PROVE PathInv'
<1>1. QueryTypeOK /\ QueryTypeOK' /\ Routed
  BY DEF DepthInv, IInv
<1>2. CASE ask.kind # "path" /\ UNCHANGED ask /\ pc' \notin {"read", "resolve"}
  BY <1>2 DEF PathInv
<1>3. CASE UNCHANGED queryVars
  <2>1. UNCHANGED <<pc, ask, focus, goal, graph, found, side, queue, item, at, visited, prev, cursor>>
    BY <1>3 DEF queryVars, answer, reading, walk
  <2>2. (\A k : Ball(k)' = Ball(k)) /\ (\A n, d : At(n, d)' <=> At(n, d))
    BY <2>1 DEF Ball, At
  <2>3. \A k : Frontier(k)' <=> Frontier(k)
    BY <2>1, <2>2 DEF Frontier
  <2>4. PrevNearer' <=> PrevNearer
    BY <2>1, <2>2 DEF PrevNearer
  <2>5. (Backtrack' <=> Backtrack) /\ (Way' <=> Way) /\ (NoWay' <=> NoWay)
    BY <2>1, <2>2 DEF Backtrack, Way, NoWay, Leads
  <2> QED
    BY <2>1, <2>3, <2>4, <2>5 DEF PathInv
<1>4. CASE Stopped
  BY <1>3, <1>4 DEF Stopped
<1>5. CASE \/ \E f \in DOMAIN calls : Rescan(f)
           \/ ReadFile \/ AddCall \/ Built \/ ReadFails \/ KeepGraph \/ Locate \/ NotFound
  <2>1. pc \in {"read", "resolve"} /\ UNCHANGED <<focus, prev>>
    BY <1>5 DEF Rescan, ReadFile, AddCall, Built, ReadFails, KeepGraph, Locate, NotFound, walk
  <2> QED
    BY <2>1 DEF PathInv, BreadthInv
<1>6. CASE Find
  BY <1>2, <1>6, RoutedStep DEF Find, answer
<1>7. CASE \/ Dequeue \/ LookAt \/ EndBreadth \/ Descend \/ Return \/ EndDepth \/ (pc = "bfs" /\ LookedAtAll)
  <2>1. UNCHANGED ask /\ pc \in {"bfs", "dfs"} /\ pc' \notin {"read", "resolve"}
    BY <1>7 DEF Dequeue, LookAt, EndBreadth, Descend, Return, EndDepth, LookedAtAll, answer
  <2> QED
    BY <1>1, <1>2, <2>1 DEF Routed, Breadths, Depths
<1>8. CASE FindPath
  <2>1. /\ focus' \in Names /\ goal' \in Names /\ pc' = "path" /\ side' = "callees" /\ found' = found
        /\ found["path"] = <<>> /\ prev = [m \in Names |-> None] /\ pc = "resolve"
    BY <1>8, ResolveFacts DEF FindPath, PathInv, IInv, Phased
  <2>2. PrevNearer' /\ Frontier(0)'
    BY <1>1, <1>8, <2>1, FirstFrontier
  <2>3. \E k \in Nat : Frontier(k)'
    BY <2>2
  <2> QED
    BY <2>1, <2>2, <2>3 DEF PathInv
<1>9. ASSUME pc \in {"path", "back"}
      PROVE  /\ focus \in Names /\ focus # None /\ goal \in Names
             /\ pc = "path" => side = "callees" /\ found["path"] = <<>> /\ PrevNearer /\ \E k \in Nat : Frontier(k)
             /\ pc = "back" => PrevNearer /\ Backtrack
  <2>1. focus \in Names /\ focus # None /\ ask.kind = "path"
    BY <1>1, <1>9, Parameters DEF IInv, Phased, Routed
  <2> QED
    BY <2>1 DEF PathInv
<1>10. CASE Expand
  <2>1. /\ pc = "path" /\ pc' = "path" /\ UNCHANGED <<focus, goal, graph, side, found, visited, prev>>
        /\ item = None /\ queue # <<>>
    BY <1>10 DEF Expand, reading
  <2>2. PICK k \in Nat : Frontier(k)
    BY <1>9, <2>1
  <2>3. \E j \in Nat : Frontier(j)'
    <3>1. CASE queue[1].m \in Ball(k)
      BY <1>1, <1>9, <1>10, <2>1, <2>2, <3>1, ExpandFrontier
    <3>2. CASE queue[1].m \notin Ball(k)
      <4>1. Frontier(k + 1)
        BY <1>1, <1>9, <2>1, <2>2, <3>2, NextFrontier
      <4>2. queue[1].m \in Ball(k + 1)
        <5>1. 1 \in DOMAIN queue
          <6>1. queue \in Seq(Entry)
            BY <1>1 DEF QueryTypeOK
          <6> QED
            BY <2>1, <6>1
        <5> QED
          BY <2>2, <5>1 DEF Frontier
      <4>3. Frontier(k + 1)' /\ k + 1 \in Nat
        BY <1>1, <1>9, <1>10, <2>1, <4>1, <4>2, ExpandFrontier
      <4> QED
        BY <4>3
    <3> QED
      BY <3>1, <3>2
  <2>4. PrevNearer'
    <3>1. PrevNearer
      BY <1>9, <2>1
    <3>2. \A n, d : At(n, d)' <=> At(n, d)
      BY <2>1 DEF At
    <3> QED
      BY <2>1, <3>1, <3>2 DEF PrevNearer
  <2> QED
    BY <1>9, <2>1, <2>3, <2>4 DEF PathInv
<1>11. CASE LookAhead \/ (pc = "path" /\ LookedAtAll)
  <2>1. pc = "path" /\ pc' = "path" /\ UNCHANGED <<focus, goal, side, found>>
    BY <1>11 DEF LookAhead, LookedAtAll
  <2>2. PICK k \in Nat : Frontier(k)
    BY <1>9, <2>1
  <2>3. Frontier(k)' /\ PrevNearer'
    BY <1>1, <1>9, <1>11, <2>1, <2>2, LookAheadFrontier, LookedAtAllFrontier
  <2> QED
    BY <1>9, <2>1, <2>3 DEF PathInv
<1>12. CASE Reach
  <2>1. /\ pc = "path" /\ pc' = "back" /\ UNCHANGED <<focus, goal, graph, found, visited, prev>> /\ cursor' = goal
        /\ queue # <<>> /\ Head(queue).m = goal
    BY <1>12 DEF Reach, reading
  <2>2. goal \in visited
    <3>1. queue \in Seq(Entry)
      BY <1>1 DEF QueryTypeOK
    <3>2. 1 \in DOMAIN queue /\ queue[1].m = goal
      BY <2>1, <3>1
    <3> QED
      BY <1>9, <2>1, <3>2 DEF Frontier
  <2>3. PrevNearer'
    <3>1. PrevNearer
      BY <1>9, <2>1
    <3>2. \A n, d : At(n, d)' <=> At(n, d)
      BY <2>1 DEF At
    <3> QED
      BY <2>1, <3>1, <3>2 DEF PrevNearer
  <2>4. Backtrack'
    BY <1>9, <2>1, <2>2 DEF Backtrack
  <2> QED
    BY <1>9, <2>1, <2>3, <2>4 DEF PathInv
<1>13. CASE NoPath
  <2>1. pc = "path" /\ pc' = "done" /\ UNCHANGED <<focus, goal, graph, found>> /\ item = None /\ queue = <<>>
    BY <1>13 DEF NoPath, reading
  <2>2. NoWay
    BY <1>1, <1>9, <2>1, NoPathFacts DEF NoWay
  <2>3. NoWay'
    BY <2>1, <2>2 DEF NoWay, Ball
  <2> QED
    BY <1>9, <2>1, <2>3 DEF PathInv
<1>14. CASE StepBack
  <2>1. pc = "back" /\ pc' = "back" /\ UNCHANGED <<focus, goal>>
    BY <1>14 DEF StepBack
  <2>2. PrevNearer' /\ Backtrack'
    BY <1>1, <1>9, <1>14, <2>1, StepBackKeeps
  <2> QED
    BY <1>9, <2>1, <2>2 DEF PathInv
<1>15. CASE AtStart
  <2>1. pc = "back" /\ pc' = "done" /\ UNCHANGED <<focus, goal>>
    BY <1>15 DEF AtStart
  <2>2. Way'
    BY <1>1, <1>9, <1>15, <2>1, BackAtStart
  <2> QED
    BY <1>9, <2>1, <2>2 DEF PathInv
<1>16. LookedAtAll => pc \in {"bfs", "path"}
  BY DEF LookedAtAll
<1> QED
  BY <1>3, <1>4, <1>5, <1>6, <1>7, <1>8, <1>10, <1>11, <1>12, <1>13, <1>14, <1>15, <1>16 DEF QueryNext

\* For every set of names, every store and every pair of methods: ShortestPath
\* returns a path of calls from one to the other of which none is shorter, and
\* nothing only where there is none, however long the way.
THEOREM PathStaysShortest == QuerySpec => []PathIsShortest
<1>1. IInv /\ IInv' /\ BreadthInv /\ DepthInv /\ PathInv /\ [QueryNext]_queryVars => BreadthInv' /\ DepthInv' /\ PathInv'
  BY BreadthStep, DepthStep, PathStep
<1>2. QueryInit => BreadthInv /\ DepthInv /\ PathInv
  BY BreadthInit, DepthInit, PathInit
<1>3. IInv /\ PathInv => PathIsShortest
  <2> SUFFICES ASSUME IInv, PathInv, Answered, ask.kind = "path" PROVE PathIsShortest
    BY DEF PathIsShortest
  <2>1. /\ QueryTypeOK /\ focus \in Names /\ goal \in Names /\ (NoWay \/ Way)
        /\ Cardinality(Names) \in Nat
    BY Parameters, FS_CardinalityType DEF IInv, QueryTypeOK, PathInv, Answered
  <2>2. CASE NoWay
    BY <2>1, <2>2 DEF NoWay, Ball, PathIsShortest
  <2>3. CASE Way
    <3>1. found["path"] \in Seq(Listed) /\ found["path"] # <<>> /\ At(goal, Len(found["path"]) - 1)
      BY <2>1, <2>3 DEF QueryTypeOK, Way, Leads
    <3>2. Len(found["path"]) - 1 \in Nat
      BY <3>1
    <3>3. goal \in Ball(Cardinality(Names))
      BY <2>1, <3>1, <3>2, DistanceBounded
    <3> QED
      BY <2>3, <3>1, <3>3 DEF Way, Leads, At, Ball, PathIsShortest
  <2> QED
    BY <2>1, <2>2, <2>3
<1> QED
  BY Inductive, <1>1, <1>2, <1>3, PTL DEF QuerySpec

-----------------------------------------------------------------------------
(* The node a query reports.                                               *)

Named == {"impact", "deps", "graph"}

\* The methods that some calls mention.
Mentioned(s) == {s[i][1] : i \in DOMAIN s} \cup {s[i][2] : i \in DOMAIN s}

MentionedBefore(n) == UNION {Mentioned(calls[i]) : i \in {j \in DOMAIN calls : j < n}}

AllNodes == UNION {Mentioned(calls[i]) : i \in DOMAIN calls}

\* Resolve, of a graph whose nodes are N.
Match(N, name) ==
    LET inner == {m \in N : IsSuffix(m, name)}
    IN  IF inner # {} THEN Longest(inner) ELSE {m \in N : IsSuffix(name, m)}

\* As long as nothing is replaced and no read fails, each graph gets the same
\* nodes; the name to report is one of them as soon as one matches.
QuietInv ==
    /\ stage \in {"keep", "locate"} => resolved = ask.symbol
    /\ quiet /\ pc = "read" => Nodes(graph) \cup Mentioned(batch) = MentionedBefore(next)
    /\ quiet /\ pc = "resolve" => Nodes(graph) = AllNodes
    /\ quiet /\ ask.kind \in Named /\ stage = "find" /\ pc \in {"read", "resolve"} =>
          resolved \in AllNodes \/ Match(AllNodes, resolved) = {}
    /\ quiet /\ ask.kind \in Named /\ focus # None => resolved = focus

-----------------------------------------------------------------------------
\* A suffix of a name that is as long as the name is the name.
LEMMA SuffixFacts ==
    ASSUME NEW T, NEW s \in Seq(T), NEW t \in Seq(T)
    PROVE  IsSuffix(s, s) /\ (IsSuffix(s, t) /\ Len(s) = Len(t) => s = t) /\ (IsSuffix(s, t) => Len(s) <= Len(t))
<1>1. ASSUME NEW r \in Seq(T)
      PROVE  /\ Reverse(r) \in Seq(T) /\ Len(Reverse(r)) = Len(r)
             /\ \A i \in 1 .. Len(r) : Reverse(r)[i] = r[(Len(r) - i) + 1] /\ (Len(r) - i) + 1 \in 1 .. Len(r)
             /\ \A i \in 1 .. Len(r) : (Len(r) - ((Len(r) - i) + 1)) + 1 = i
             /\ Len(r) \in Nat
  <2>1. Len(r) \in Nat /\ \A i \in 1 .. Len(r) : r[i] \in T /\ (Len(r) - i) + 1 \in 1 .. Len(r)
    OBVIOUS
  <2>2. Reverse(r) = [i \in 1 .. Len(r) |-> r[(Len(r) - i) + 1]]
    BY DEF Reverse
  <2>3. Reverse(r) \in Seq(T) /\ Len(Reverse(r)) = Len(r)
    BY <2>1, <2>2
  <2> QED
    BY <2>1, <2>2, <2>3
<1>2. IsSuffix(s, s) /\ (IsSuffix(s, t) => Len(s) <= Len(t))
  BY <1>1 DEF IsSuffix, IsPrefix
<1>3. ASSUME IsSuffix(s, t), Len(s) = Len(t) PROVE s = t
  <2>1. PICK a \in Seq(T), b \in Seq(T) : a = Reverse(s) /\ b = Reverse(t)
    BY <1>1
  <2>2. /\ Len(a) = Len(s) /\ Len(b) = Len(s) /\ SubSeq(a, 1, Len(a)) = SubSeq(b, 1, Len(a)) /\ Len(a) \in Nat
    BY <1>1, <1>3, <2>1 DEF IsSuffix, IsPrefix
  <2>3. ASSUME NEW i \in 1 .. Len(a) PROVE a[i] = b[i]
    <3>1. SubSeq(a, 1, Len(a))[i] = a[i] /\ SubSeq(b, 1, Len(a))[i] = b[i]
      BY <2>2
    <3> QED
      BY <2>2, <3>1
  <2>4. ASSUME NEW i \in 1 .. Len(s) PROVE s[i] = t[i]
    <3>1. PICK j \in 1 .. Len(s) : j = (Len(s) - i) + 1
      BY <1>1
    <3>2. a[j] = s[i] /\ b[j] = t[i]
      <4>1. (Len(s) - j) + 1 = i
        BY <1>1, <3>1
      <4>2. a[j] = s[(Len(s) - j) + 1] /\ b[j] = t[(Len(t) - j) + 1]
        BY <1>1, <1>3, <2>1
      <4> QED
        BY <1>3, <4>1, <4>2
    <3> QED
      BY <2>2, <2>3, <3>2
  <2>5. s = [i \in 1 .. Len(s) |-> s[i]] /\ t = [i \in 1 .. Len(t) |-> t[i]]
    OBVIOUS
  <2> QED
    BY <1>3, <2>4, <2>5
<1> QED
  BY <1>2, <1>3

\* A name that is a node stands for itself alone.
LEMMA NodeMatchesItself ==
    ASSUME NEW N \in SUBSET Names, NEW name \in N PROVE Match(N, name) = {name}
<1>1. \A m \in N : m \in Seq(STRING) /\ Len(m) \in Nat
  BY NamesAreSegments
<1>2. /\ IsSuffix(name, name)
      /\ \A m \in N : IsSuffix(m, name) => Len(m) <= Len(name)
      /\ \A m \in N : IsSuffix(m, name) /\ Len(m) = Len(name) => m = name
  <2>1. \A m \in N : IsSuffix(m, name) => Len(m) <= Len(name) /\ (Len(m) = Len(name) => m = name)
    BY <1>1, SuffixFacts
  <2>2. IsSuffix(name, name)
    BY <1>1, SuffixFacts
  <2> QED
    BY <2>1, <2>2
<1> DEFINE inner == {m \in N : IsSuffix(m, name)}
<1>3. name \in inner /\ \A m \in inner : Len(m) <= Len(name) /\ (Len(m) = Len(name) => m = name) /\ Len(m) \in Nat
  BY <1>1, <1>2
<1>4. Longest(inner) = {name}
  <2> HIDE DEF inner
  <2>1. name \in Longest(inner)
    BY <1>3 DEF Longest
  <2>2. ASSUME NEW m \in Longest(inner) PROVE m = name
    <3>1. m \in inner /\ Len(name) <= Len(m)
      BY <1>3, <2>2 DEF Longest
    <3> QED
      BY <1>3, <3>1
  <2> QED
    BY <2>1, <2>2
<1> QED
  BY <1>3, <1>4 DEF Match

LEMMA ResolveMatches == \A g, name : Resolve(g, name) = Match(Nodes(g), name)
  BY DEF Resolve, Match

LEMMA MatchFacts == \A N, name : Match(N, name) \subseteq N
  BY DEF Match, Longest

\* A list that gets a member has one.
LEMMA AdjoinNotEmpty ==
    ASSUME NEW s \in Seq(Names), NEW m \in Names
    PROVE  Adjoin(s, m) # <<>>
<1>1. Contains(Adjoin(s, m), m) /\ Adjoin(s, m) \in Seq(Names)
  BY AdjoinFacts
<1>2. ~Contains(<<>>, m)
  BY DEF Contains
<1> QED
  BY <1>1, <1>2

\* An edge brings its two ends, and nothing else, into the graph.
LEMMA AddEdgeNodes ==
    ASSUME NEW g \in GraphType, NEW a \in Names, NEW b \in Names
    PROVE  Nodes(AddEdge(g, a, b)) = Nodes(g) \cup {a, b}
<1> DEFINE h == AddEdge(g, a, b)
<1>1. /\ g["callees"] \in [Names -> Seq(Names)] /\ g["callers"] \in [Names -> Seq(Names)]
  BY DEF GraphType, Sides
<1>2. /\ h["callees"] = [g["callees"] EXCEPT ![a] = Adjoin(@, b)]
      /\ h["callers"] = [g["callers"] EXCEPT ![b] = Adjoin(@, a)]
  BY DEF AddEdge, GraphType, Sides
<1>3. Adjoin(g["callees"][a], b) # <<>> /\ Adjoin(g["callers"][b], a) # <<>>
  BY <1>1, AdjoinNotEmpty
<1> HIDE DEF h
<1>4. \A m \in Names :
         /\ h["callees"][m] # <<>> <=> g["callees"][m] # <<>> \/ m = a
         /\ h["callers"][m] # <<>> <=> g["callers"][m] # <<>> \/ m = b
  BY <1>1, <1>2, <1>3
<1>5. \A m \in Names :
         (\E s \in Sides : h[s][m] # <<>>) <=> (\E s \in Sides : g[s][m] # <<>>) \/ m \in {a, b}
  BY <1>4 DEF Sides
<1>6. Nodes(h) = Nodes(g) \cup {a, b}
  BY <1>5 DEF Nodes
<1> QED
  BY <1>6 DEF h

LEMMA EmptyNodes == Nodes(EmptyGraph) = {}
  BY DEF Nodes, EmptyGraph, Sides

\* The first call of a batch, and the rest.
LEMMA MentionedFirst ==
    ASSUME NEW s \in CallLists, s # <<>>
    PROVE  /\ Mentioned(s) = {Head(s)[1], Head(s)[2]} \cup Mentioned(Tail(s))
           /\ Head(s)[1] \in Names /\ Head(s)[2] \in Names
<1>1. s \in Seq(Names \X Names)
  BY DEF CallLists
<1>2. /\ Len(s) \in Nat \ {0} /\ DOMAIN s = 1 .. Len(s) /\ Head(s) = s[1] /\ s[1] \in Names \X Names
      /\ DOMAIN Tail(s) = 1 .. Len(s) - 1 /\ \A i \in 1 .. Len(s) - 1 : Tail(s)[i] = s[i + 1]
  BY <1>1
<1>3. ASSUME NEW x \in Mentioned(s) PROVE x \in {Head(s)[1], Head(s)[2]} \cup Mentioned(Tail(s))
  <2>1. PICK i \in DOMAIN s : x = s[i][1] \/ x = s[i][2]
    BY DEF Mentioned
  <2>2. i # 1 => i - 1 \in DOMAIN Tail(s) /\ Tail(s)[i - 1] = s[i]
    BY <1>2
  <2> QED
    BY <1>2, <2>1, <2>2 DEF Mentioned
<1>4. ASSUME NEW x \in Mentioned(Tail(s)) PROVE x \in Mentioned(s)
  <2>1. PICK i \in DOMAIN Tail(s) : x = Tail(s)[i][1] \/ x = Tail(s)[i][2]
    BY DEF Mentioned
  <2>2. i + 1 \in DOMAIN s /\ Tail(s)[i] = s[i + 1]
    BY <1>2
  <2> QED
    BY <2>1, <2>2 DEF Mentioned
<1>5. 1 \in DOMAIN s
  BY <1>2
<1>6. Head(s)[1] \in Mentioned(s) /\ Head(s)[2] \in Mentioned(s)
  BY <1>2, <1>5 DEF Mentioned
<1> QED
  BY <1>2, <1>3, <1>4, <1>6

LEMMA NothingMentioned == Mentioned(<<>>) = {}
  BY DEF Mentioned

-----------------------------------------------------------------------------
LEMMA QuietInit == QueryInit => QuietInv
<1> SUFFICES ASSUME QueryInit PROVE QuietInv
  OBVIOUS
<1>1. /\ resolved = ask.symbol /\ pc = "read" /\ next = 1 /\ batch = <<>> /\ graph = EmptyGraph /\ focus = None
      /\ stage = FirstStage(ask.kind)
  BY DEF QueryInit
<1>2. MentionedBefore(1) = {}
  <2>1. calls \in Seq(CallLists)
    BY InitStep DEF IInv, QueryTypeOK
  <2>2. \A j \in DOMAIN calls : ~(j < 1)
    BY <2>1
  <2> QED
    BY <2>2 DEF MentionedBefore
<1>3. ask.kind \in Named => stage # "find"
  BY <1>1 DEF FirstStage, Named
<1> QED
  BY <1>1, <1>2, <1>3, EmptyNodes, NothingMentioned DEF QuietInv

\* Steps that only build the graph.
LEMMA QuietBuilding ==
    ASSUME IInv, QuietInv, ReadFile \/ AddCall \/ Built PROVE QuietInv'
<1>1. /\ pc = "read" /\ UNCHANGED <<calls, quiet, ask, resolved, stage, focus>> /\ QueryTypeOK
      /\ pc' \in {"read", "resolve"}
  BY DEF ReadFile, AddCall, Built, queryStore, answer, reading, IInv
<1>2. AllNodes' = AllNodes /\ \A n : MentionedBefore(n)' = MentionedBefore(n)
  BY <1>1 DEF AllNodes, MentionedBefore
<1>3. calls \in Seq(CallLists) /\ next \in Nat \ {0} /\ batch \in CallLists /\ DOMAIN calls = 1 .. Len(calls) /\ Len(calls) \in Nat
  BY <1>1 DEF QueryTypeOK
<1>4. CASE ReadFile
  <2>1. batch = <<>> /\ next \in DOMAIN calls /\ batch' = calls[next] /\ next' = next + 1 /\ UNCHANGED <<pc, graph>>
    BY <1>3, <1>4 DEF ReadFile
  <2>2. MentionedBefore(next + 1) = MentionedBefore(next) \cup Mentioned(calls[next])
    <3>1. {j \in DOMAIN calls : j < next + 1} = {j \in DOMAIN calls : j < next} \cup {next}
      BY <1>3, <2>1
    <3> QED
      BY <3>1 DEF MentionedBefore
  <2>3. quiet => Nodes(graph) = MentionedBefore(next)
    BY <1>1, <2>1, NothingMentioned DEF QuietInv
  <2>4. Mentioned(batch)' = Mentioned(calls[next])
    BY <2>1 DEF Mentioned
  <2>5. Nodes(graph)' = Nodes(graph)
    BY <2>1 DEF Nodes
  <2> QED
    BY <1>1, <1>2, <2>1, <2>2, <2>3, <2>4, <2>5 DEF QuietInv
<1>5. CASE AddCall
  <2>1. batch # <<>> /\ graph' = AddEdge(graph, Head(batch)[1], Head(batch)[2]) /\ batch' = Tail(batch) /\ UNCHANGED <<pc, next>>
    BY <1>5 DEF AddCall
  <2>2. PICK a \in Names, b \in Names : a = Head(batch)[1] /\ b = Head(batch)[2]
    BY <1>3, <2>1, MentionedFirst
  <2>3. Mentioned(batch) = {a, b} \cup Mentioned(Tail(batch))
    BY <1>3, <2>1, <2>2, MentionedFirst
  <2>4. graph \in GraphType
    BY <1>1 DEF QueryTypeOK
  <2>5. Nodes(AddEdge(graph, a, b)) = Nodes(graph) \cup {a, b}
    BY <2>2, <2>4, AddEdgeNodes
  <2>6. Nodes(graph)' = Nodes(AddEdge(graph, a, b)) /\ Mentioned(batch)' = Mentioned(Tail(batch))
    BY <2>1, <2>2 DEF Nodes, Mentioned
  <2> QED
    BY <1>1, <1>2, <2>1, <2>3, <2>5, <2>6 DEF QuietInv
<1>6. CASE Built
  <2>1. batch = <<>> /\ next > Len(calls) /\ pc' = "resolve" /\ UNCHANGED graph
    BY <1>6 DEF Built, reading
  <2>2. {j \in DOMAIN calls : j < next} = DOMAIN calls
    BY <1>3, <2>1
  <2>3. MentionedBefore(next) = AllNodes
    BY <2>2 DEF MentionedBefore, AllNodes
  <2>4. quiet => Nodes(graph) = AllNodes
    BY <1>1, <2>1, <2>3, NothingMentioned DEF QuietInv
  <2>5. Nodes(graph)' = Nodes(graph)
    BY <2>1 DEF Nodes
  <2> QED
    BY <1>1, <1>2, <2>1, <2>4, <2>5 DEF QuietInv
<1> QED
  BY <1>4, <1>5, <1>6

\* A new graph has the nodes of no file.
LEMMA FreshNodes ==
    ASSUME QueryTypeOK', NEW s, NewGraph(s)
    PROVE  (Nodes(graph) \cup Mentioned(batch) = MentionedBefore(next))'
<1>1. next' = 1 /\ batch' = <<>> /\ graph' = EmptyGraph
  BY DEF NewGraph
<1>2. \A j \in DOMAIN calls' : ~(j < 1)
  BY DEF QueryTypeOK
<1>3. \A n : n = next' => MentionedBefore(n)' = {}
  BY <1>1, <1>2 DEF MentionedBefore
<1>4. Nodes(graph)' = {}
  BY <1>1, EmptyNodes DEF Nodes
<1>5. Mentioned(batch)' = {}
  BY <1>1, NothingMentioned DEF Mentioned
<1>6. MentionedBefore(next)' = {}
  BY <1>1, <1>2 DEF MentionedBefore
<1> QED
  BY <1>4, <1>5, <1>6

\* The name the query will report.
LEMMA QuietResolving == ASSUME IInv, IInv', BreadthInv, QuietInv, KeepGraph \/ Locate \/ Find PROVE QuietInv'
<1>1. /\ pc = "resolve" /\ UNCHANGED <<calls, quiet, ask>> /\ QueryTypeOK /\ QueryTypeOK' /\ focus = None
  BY DEF KeepGraph, Locate, Find, queryStore, answer, IInv, BreadthInv
<1>2. AllNodes' = AllNodes /\ AllNodes \subseteq Names
  <2>1. \A i \in DOMAIN calls : Mentioned(calls[i]) \subseteq Names
    <3> TAKE i \in DOMAIN calls
    <3>1. PICK s \in Seq(Names \X Names) : s = calls[i]
      BY <1>1 DEF QueryTypeOK, CallLists
    <3>2. \A j \in DOMAIN s : s[j] \in Names \X Names
      BY <3>1
    <3>3. \A j \in DOMAIN s : s[j][1] \in Names /\ s[j][2] \in Names
      BY <3>2
    <3> QED
      BY <3>1, <3>3 DEF Mentioned
  <2> QED
    BY <1>1, <2>1 DEF AllNodes
<1>3. quiet => Nodes(graph) = AllNodes
  BY <1>1 DEF QuietInv
<1>4. CASE KeepGraph
  <2>1. NewGraph("locate") /\ pc' = "read" /\ stage = "keep" /\ stage' = "locate" /\ UNCHANGED <<resolved, focus>>
    BY <1>4 DEF KeepGraph, NewGraph
  <2>2. (Nodes(graph) \cup Mentioned(batch) = MentionedBefore(next))'
    BY <1>1, <2>1, FreshNodes
  <2> QED
    BY <1>1, <2>1, <2>2 DEF QuietInv
<1>5. CASE Locate
  <2>1. /\ NewGraph("find") /\ pc' = "read" /\ stage = "locate" /\ stage' = "find" /\ UNCHANGED focus
        /\ resolved = ask.symbol
        /\ \/ resolved' \in Resolve(graph, ask.symbol)
           \/ Resolve(graph, ask.symbol) = {} /\ UNCHANGED resolved
    BY <1>5 DEF Locate, NewGraph, QuietInv
  <2>2. (Nodes(graph) \cup Mentioned(batch) = MentionedBefore(next))'
    BY <1>1, <2>1, FreshNodes
  <2>3. quiet => resolved' \in AllNodes \/ Match(AllNodes, resolved') = {}
    <3> SUFFICES ASSUME quiet PROVE resolved' \in AllNodes \/ Match(AllNodes, resolved') = {}
      OBVIOUS
    <3>1. Resolve(graph, ask.symbol) = Match(AllNodes, ask.symbol)
      BY <1>3, ResolveMatches
    <3> QED
      BY <2>1, <3>1, MatchFacts
  <2> QED
    BY <1>1, <1>2, <2>1, <2>2, <2>3 DEF QuietInv
<1>6. CASE Find
  <2>1. focus' \in Resolve(graph, resolved) /\ UNCHANGED <<resolved, stage>> /\ pc' \in {"bfs", "dfs"} /\ stage = "find"
    BY <1>6 DEF Find, answer, reading
  <2>2. quiet /\ ask.kind \in Named => focus' = resolved
    <3> SUFFICES ASSUME quiet, ask.kind \in Named PROVE focus' = resolved
      OBVIOUS
    <3>1. focus' \in Match(AllNodes, resolved)
      BY <1>3, <2>1, ResolveMatches
    <3>2. resolved \in AllNodes
      BY <1>1, <2>1, <3>1 DEF QuietInv
    <3> QED
      BY <1>2, <3>1, <3>2, NodeMatchesItself
  <2> QED
    BY <1>1, <2>1, <2>2 DEF QuietInv
<1> QED
  BY <1>4, <1>5, <1>6

LEMMA QuietStep == ASSUME IInv, IInv', BreadthInv, QuietInv, [QueryNext]_queryVars PROVE QuietInv'
<1>1. CASE \E f \in DOMAIN calls : Rescan(f)
  BY <1>1 DEF Rescan, QuietInv, answer, reading
<1>2. CASE ReadFails
  <2>1. ~quiet' /\ UNCHANGED <<ask, resolved>> /\ (stage' = stage \/ stage' = "find")
    BY <1>2 DEF ReadFails, NewGraph, answer, reading
  <2> QED
    BY <2>1 DEF QuietInv
<1>3. CASE ReadFile \/ AddCall \/ Built
  BY <1>3, QuietBuilding
<1>4. CASE KeepGraph \/ Locate \/ Find
  BY <1>4, QuietResolving
<1>5. ASSUME UNCHANGED <<quiet, ask, resolved, stage>>, pc' \notin {"read", "resolve"},
             focus' = focus \/ ask.kind \notin Named
      PROVE  QuietInv'
  BY <1>5 DEF QuietInv
<1>6. CASE FindPath
  <2>1. ask.kind \notin Named
    BY <1>6 DEF FindPath, Named
  <2> QED
    BY <1>5, <1>6, <2>1 DEF FindPath, queryStore, answer, reading
<1>7. CASE \/ NotFound \/ Dequeue \/ LookAt \/ LookedAtAll \/ EndBreadth \/ Descend \/ Return \/ EndDepth \/ Expand
           \/ LookAhead \/ Reach \/ NoPath \/ StepBack \/ AtStart
  BY <1>5, <1>7 DEF NotFound, Dequeue, LookAt, LookedAtAll, EndBreadth, Descend, Return, EndDepth, Expand, LookAhead,
                    Reach, NoPath, StepBack, AtStart, queryStore, answer, reading
<1>8. CASE UNCHANGED queryVars
  <2>1. UNCHANGED <<calls, quiet, ask, resolved, stage, pc, focus, graph, batch, next>>
    BY <1>8 DEF queryVars, queryStore, answer, reading
  <2>2. /\ Nodes(graph)' = Nodes(graph) /\ Mentioned(batch)' = Mentioned(batch) /\ AllNodes' = AllNodes
        /\ MentionedBefore(next)' = MentionedBefore(next)
    BY <2>1 DEF Nodes, Mentioned, AllNodes, MentionedBefore
  <2>3. Match(AllNodes, resolved)' = Match(AllNodes, resolved)
    BY <2>1, <2>2 DEF Match
  <2> QED
    BY <2>1, <2>2, <2>3 DEF QuietInv
<1>9. CASE Stopped
  BY <1>8, <1>9 DEF Stopped
<1> QED
  BY <1>1, <1>2, <1>3, <1>4, <1>6, <1>7, <1>8, <1>9 DEF QueryNext

\* For every set of names and every store: a query that nothing disturbs walks from
\* the very node it reports, in each of the two or three graphs it builds.
THEOREM QuietQueriesNameTheirNode == QuerySpec => []QuietQueryNamesItsNode
<1>1. IInv /\ IInv' /\ BreadthInv /\ QuietInv /\ [QueryNext]_queryVars => BreadthInv' /\ QuietInv'
  BY BreadthStep, QuietStep
<1>2. QueryInit => BreadthInv /\ QuietInv
  BY BreadthInit, QuietInit
<1>3. QuietInv => QuietQueryNamesItsNode
  BY DEF QuietInv, QuietQueryNamesItsNode, Named, Answered
<1> QED
  BY Inductive, <1>1, <1>2, <1>3, PTL DEF QuerySpec
=============================================================================
