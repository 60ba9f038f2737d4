---------------------------- MODULE ImportGraphs ----------------------------
(***************************************************************************)
(* From the imports of the files to the graph of files, and the summary of *)
(* all graphs: buildImportIndex, the resolvers of imports, BuildAll and    *)
(* Analyze of internal/analyzer.                                           *)
(*                                                                         *)
(* A file has a directory (a sequence of segments), a name and the stem of *)
(* its name; code tells whether its extension is one that the index drops. *)
(* An import has a style ("path", "dotted" or "gradle"), its segments and, *)
(* for all of a package, wild.                                             *)
(***************************************************************************)
EXTENDS Naturals, Sequences, SequencesExt, FiniteSets, Sublists

CONSTANTS
    Module,         \* the module of the project, as segments, or <<>>
    SourceRoots,    \* directories that sources may lie in, in order
    StdPrefixes,    \* packages of the standard library and of frameworks
    GradleModules   \* the modules that may be imported, or {} for all

\* A path, as segments.
IsPath(s) == IsList(s) /\ s # <<>>

ASSUME ImportsAssumption == IsList(Module) /\ IsList(SourceRoots) /\ \A i \in DOMAIN SourceRoots : IsList(SourceRoots[i])

\* What the lists of imports hold: a path cannot be wild, as it has no dots.
IsImport(imp) == IsPath(imp.segs) /\ imp.style \in {"path", "dotted", "gradle"} /\ (imp.style = "path" => ~imp.wild)

-----------------------------------------------------------------------------
(* The index of imports                                                    *)

\* buildImportIndex: every end of the file's path, and its stem.
Keys(f) ==
    LET path == Append(f.dir, IF f.code THEN f.stem ELSE f.name)
    IN  {SubSeq(path, i, Len(path)) : i \in 1 .. Len(path)} \cup (IF f.stem # f.name THEN {<<f.stem>>} ELSE {})

Found(files, key) == {f \in files : key \in Keys(f)}

\* Mutant: the last of the keys that are known, not the first.
FirstFoundLast(files, keys) ==
    LET hits == {i \in DOMAIN keys : Found(files, keys[i]) # {}}
    IN  IF hits = {} THEN {} ELSE Found(files, keys[CHOOSE i \in hits : \A j \in hits : j <= i])

\* The files under the first of the keys that the index knows.
FirstFound(files, keys) ==
    LET hits == {i \in DOMAIN keys : Found(files, keys[i]) # {}}
    IN  IF hits = {} THEN {} ELSE Found(files, keys[CHOOSE i \in hits : \A j \in hits : i <= j])

Below(files, dir) == {f \in files : \E key \in Keys(f) : IsStrictPrefix(dir, key)}

\* matchWildcard: the files below the first of the directories with any.
FirstBelow(files, dirs) ==
    LET hits == {i \in DOMAIN dirs : Below(files, dirs[i]) # {}}
    IN  IF hits = {} THEN {} ELSE Below(files, dirs[CHOOSE i \in hits : \A j \in hits : i <= j])

-----------------------------------------------------------------------------
(* The resolvers                                                           *)

\* isJavaStdlib, isStdlib
Standard(imp) == imp.style # "path" /\ \E p \in StdPrefixes : IsStrictPrefix(p, imp.segs)

Roots == ToSet(SourceRoots)

\* The same place below each of the roots, one after the other.
UnderRoots(places) == FlattenSeq([i \in DOMAIN SourceRoots |-> places[SourceRoots[i]]])

GoTargets(imp, files) ==
    IF Module = <<>> \/ imp.style # "path" \/ ~IsStrictPrefix(Module, imp.segs) THEN {}
    ELSE FirstFound(files, <<SubSeq(imp.segs, Len(Module) + 1, Len(imp.segs)), <<Last(imp.segs)>>>>)

JavaTargets(imp, files) ==
    LET places == [root \in Roots |-> <<root \o imp.segs, Append(root, Last(imp.segs))>>]
        packages == [root \in Roots |-> <<root \o imp.segs>>]
    IN  IF imp.style = "gradle" \/ Standard(imp) THEN {}
        ELSE IF imp.wild THEN FirstBelow(files, <<imp.segs>> \o UnderRoots(packages))
        ELSE FirstFound(files, <<imp.segs>> \o UnderRoots(places))

\* A module, and what is imported of it, which may be nothing.
GradleTargets(imp, files) ==
    LET module == <<Head(imp.segs)>>
        within == Tail(imp.segs)
        inModule == [root \in Roots |-> IF within = <<>> THEN <<>> ELSE <<module \o root \o within>>]
        besides == [root \in Roots |-> <<root \o imp.segs>>]
        byName == [root \in Roots |-> <<Append(root, Last(imp.segs)), Append(module \o root, Last(imp.segs))>>]
    IN  IF imp.style # "gradle" \/ Standard(imp) \/ ~(GradleModules = {} \/ Head(imp.segs) \in GradleModules) THEN {}
        ELSE IF imp.wild THEN FirstBelow(files, <<imp.segs>> \o UnderRoots(inModule) \o UnderRoots(besides))
        ELSE FirstFound(files, <<imp.segs>> \o UnderRoots(inModule) \o UnderRoots(besides)
                                 \o <<<<Last(imp.segs)>>>> \o UnderRoots(byName))

\* heuristicResolver, which knows no standard library.
HeuristicTargets(imp, files) ==
    IF imp.style = "gradle" \/ imp.wild THEN {} ELSE FirstFound(files, <<imp.segs, <<Last(imp.segs)>>>>)

\* CompositeResolver: the first that finds anything.
ResolveImport(imp, files) ==
    LET found == <<GoTargets(imp, files), JavaTargets(imp, files), GradleTargets(imp, files), HeuristicTargets(imp, files)>>
        hits == {i \in DOMAIN found : found[i] # {}}
    IN  IF hits = {} THEN {} ELSE found[CHOOSE i \in hits : \A j \in hits : i <= j]

-----------------------------------------------------------------------------
(* The graphs                                                              *)

\* FileGraph: its nodes are the files, its edges what their imports resolve to.
FileEdges(files) == UNION {{<<f, g>> : g \in UNION {ResolveImport(imp, files) : imp \in f.imports}} : f \in files}

\* ReverseIndex: the references of a file come from the same imports.
References(files, g) == {f \in files : <<f, g>> \in FileEdges(files)}

\* What GetClassesByFileID gives, file after file, and the nodes of the call graph.
AreClasses(classes) == IsList(classes) /\ \A i \in DOMAIN classes : classes[i].name # ""
AreNodes(nodes) ==
    /\ IsList(nodes) /\ \A i \in DOMAIN nodes : nodes[i].callers \in Nat
    /\ \A i, j \in DOMAIN nodes : nodes[i].name = nodes[j].name => i = j

\* AddNode
Node(h, n) == IF n \in DOMAIN h THEN h[n] ELSE [parents |-> {}, children |-> {}]

\* buildClassHierarchyNode, with AddParent for each of the parents that has a
\* name: they become nodes also where no class of that name is stored.
AddClass(h, c) ==
    LET named == ToSet(c.parents) \ {""}
    IN  [n \in DOMAIN h \cup {c.name} \cup named |->
            [parents |-> Node(h, n).parents \cup (IF n = c.name THEN named ELSE {}),
             children |-> Node(h, n).children \cup (IF n \in named THEN {c.name} ELSE {})]]

\* BuildClassHierarchy
Hierarchy(classes) ==
    LET after[i \in 0 .. Len(classes)] == IF i = 0 THEN <<>> ELSE AddClass(after[i - 1], classes[i])
    IN  after[Len(classes)]

\* One round of sortByCallers: the first of the items from i on that has most
\* callers changes places with item i.
MostCallers(s, i) ==
    CHOOSE j \in i .. Len(s) : (\A k \in i .. Len(s) : s[j].callers >= s[k].callers) /\ \A k \in i .. j - 1 : s[k].callers < s[j].callers
Selected(s, i) == [k \in DOMAIN s |-> IF k = i THEN s[MostCallers(s, i)] ELSE IF k = MostCallers(s, i) THEN s[i] ELSE s[k]]

\* sortByCallers, by selection
SortByCallers(items) ==
    LET after[i \in 0 .. Len(items)] == IF i = 0 THEN items ELSE Selected(after[i - 1], i)
    IN  after[Len(items)]

\* Analyze, of the call graph's nodes in any order: the first so many are hot.
Summary(files, nodes, limit) ==
    LET sorted == SortByCallers(nodes)
    IN  [files |-> Cardinality(files),
         imports |-> Cardinality(FileEdges(files)),
         orphans |-> {n.name : n \in {m \in ToSet(nodes) : m.callers = 0}},
         hot |-> SubSeq(sorted, 1, IF Len(sorted) < limit THEN Len(sorted) ELSE limit)]

-----------------------------------------------------------------------------
(* What is promised of them                                                *)

\* An import that spells the end of a file's path resolves to the files of that
\* path and to no other, whichever resolver it goes through.
SpelledOut(imp, files) ==
    /\ ~imp.wild /\ imp.style # "gradle" /\ ~(Module # <<>> /\ IsStrictPrefix(Module, imp.segs))
    /\ Found(files, imp.segs) # {}
    => ResolveImport(imp, files) = Found(files, imp.segs)

\* What an import resolves to bears the name it ends with, or lies below the
\* package it takes all of.
TargetsNamed(imp, files) ==
    \A f \in ResolveImport(imp, files) :
        IF imp.wild THEN Last(imp.segs) \in ToSet(f.dir)
        ELSE Last(imp.segs) \in {f.stem, f.name}

\* The methods listed as hot are different ones, and none that is not listed has
\* more callers.
HottestListed(nodes, limit) ==
    LET hot == Summary({}, nodes, limit).hot
    IN  /\ Len(hot) = (IF Len(nodes) < limit THEN Len(nodes) ELSE limit)
        /\ Cardinality(ToSet(hot)) = Len(hot)
        /\ \A n \in ToSet(nodes) : n \in ToSet(hot) \/ \A h \in ToSet(hot) : h.callers >= n.callers

\* Every class is a node, and a child of exactly the classes it names, whatever
\* order they are stored in; parents and children are nodes, and each the other
\* way round.
KinMatches(classes) ==
    LET h == Hierarchy(classes)
    IN  /\ \A i \in DOMAIN classes : classes[i].name \in DOMAIN h
        /\ \A b \in DOMAIN h : h[b].parents \cup h[b].children \subseteq DOMAIN h
        /\ \A a, b \in DOMAIN h :
              /\ a \in h[b].children <=> \E i \in DOMAIN classes : classes[i].name = a /\ b \in ToSet(classes[i].parents)
              /\ b \in h[a].parents <=> a \in h[b].children
=============================================================================
