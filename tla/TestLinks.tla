----------------------------- MODULE TestLinks -----------------------------
(***************************************************************************)
(* Which tests belong to a method: service.FindTestLinks, its five ways to *)
(* link them, and the coverage that ParseGoCoverProfile loads.             *)
(***************************************************************************)
EXTENDS StoredSymbols, Integers

CONSTANTS
    TestNames,    \* the names that look like a test class
    SourceName,   \* name of a test class -> name of the class it tests
    Mentions,     \* <<name of a test, name of a method>> that match
    Many, Few     \* 20 and 10 in the code

ASSUME NamesAssumption == DOMAIN SourceName \subseteq TestNames

\* s.coverage before anything is loaded
NoCoverage == [tests |-> {}, of |-> <<>>]

\* isTestClass
IsTest(c, f) == Last(c.name) \in TestNames \/ f.test

\* matchTestClass: the first segment that is the class name is replaced.
SourceOf(c) ==
    LET base == Last(c.name)
        at == CHOOSE i \in DOMAIN c.name : c.name[i] = base /\ \A j \in 1 .. i - 1 : c.name[j] # base
    IN  IF base \in DOMAIN SourceName THEN [c.name EXCEPT ![at] = SourceName[base]] ELSE <<>>

Link(test, strategy, confidence) == [test |-> test, strategy |-> strategy, confidence |-> confidence]

TestMethods(st) == {m \in ToSet(StoredMethods(st)) : IsTest(m.class, m.file)}

-----------------------------------------------------------------------------
(* The strategies, each for all files.                                     *)

\* resolveExplicitClass: the class itself, or any whose name ends in the token.
Explicit(st) ==
    LET names == {c.class.name : c \in ToSet(StoredClasses(st))}
        targets(m) == ToSet(IF m.method.targets # <<>> THEN m.method.targets ELSE m.class.targets)
        hit(tok) == IF tok \in names THEN {tok} ELSE {n \in names : IsSuffix(tok, n)}
    IN  {Link(m.full, "explicit", 100) :
            m \in {t \in TestMethods(st) : \E tok \in targets(t), n \in names :
                        n \in hit(tok) /\ \E p \in ToSet(StoredMethods(st)) : p.class.name = n}}

ByCoverage(cov, name) ==
    {Link(t, "coverage", 90) : t \in {u \in cov.tests : name \in cov.of[u]}}

\* discoverTestClasses, which keeps the last of them
TestClassesOf(st, class) == SelectSeq(StoredClasses(st), LAMBDA c : SourceOf(c.class) = class)

ByNaming(st, name) ==
    LET tests == TestClassesOf(st, Front(name))
        target == MethodsNamed(st, name)
    IN  IF tests = <<>> \/ target = <<>> THEN {}
        ELSE {Link(m.full, "naming", 70) :
                m \in {t \in ToSet(StoredMethods(st)) :
                        /\ t.class.name = Last(tests).class.name
                        /\ <<t.method.name, Last(name)>> \in Mentions}}

BySameTag(st, name) ==
    LET target == MethodsNamed(st, name)
        of == Last(target).class
    IN  IF target = <<>> THEN {}
        ELSE {Link(m.full, "same_tag", 60) :
                m \in {t \in TestMethods(st) : t.class.id # of.id /\ t.class.tags \cap of.tags # {}}}

\* Test classes in the same directory, or in a file whose imports name it.
ByDependency(st, name) ==
    LET target == MethodsNamed(st, name)
        f == Head(target).file
    IN  IF target = <<>> THEN {}
        ELSE {Link(m.full, "dependency", 80) :
                m \in {t \in TestMethods(st) :
                        t.file.path # f.path /\ (t.file.dir = f.dir \/ f.dir \in t.file.imports)}}

\* The weaker strategies are asked while the stronger found few.
OrElse(found, few, weaker) == found \cup (IF Cardinality(found) < few THEN weaker ELSE {})

Links(st, cov, name) ==
    LET others(links) == {l \in links : l.test # name}
        strong == Explicit(st) \cup ByCoverage(cov, name) \cup ByNaming(st, name)
    IN  OrElse(OrElse(others(strong), Many, others(BySameTag(st, name))), Few, others(ByDependency(st, name)))

\* What the strategies are worth, the best first
Confidences == <<100, 90, 80, 70, 60>>

\* FindTestLinks: the best first, down to the threshold.
FindTestLinks(st, cov, name, min) ==
    LET floor == IF min = 0 THEN 60 ELSE min
        kept == {l \in Links(st, cov, name) : l.confidence >= floor}
    IN  FlattenSeq([i \in DOMAIN Confidences |-> SetToSeq({l \in kept : l.confidence = Confidences[i]})])

-----------------------------------------------------------------------------
(* ParseGoCoverProfile                                                     *)

\* What go test writes: no block ends before it begins.
IsProfile(lines) == IsList(lines) /\ \A l \in ToSet(lines) : l.from \in Nat /\ l.to \in Nat /\ (l.to = 0 \/ l.from <= l.to)

\* parseCoverProfile passes over what it cannot parse; a block without an end
\* is one line.
BlocksOf(lines) ==
    LET good == Kept(lines, {l \in ToSet(lines) : l.count >= 0})
        block(l) == [file |-> l.file, from |-> l.from, to |-> IF l.to = 0 THEN l.from ELSE l.to, count |-> l.count]
    IN  [i \in DOMAIN good |-> block(good[i])]

\* Mutant: a block that ends where a method starts does not count.
OverlapsInside(b, span) == b.from < span[2] /\ b.to > span[1]

Overlaps(b, span) == b.from <= span[2] /\ b.to >= span[1]

\* loadEntitiesByFile: by the path, and by the path from internal/ or pkg/ on.
MethodsUnder(st, key) == {m \in ToSet(StoredMethods(st)) : key \in m.file.keys}

\* The methods of a profile's file; without any, those of the files whose path
\* ends in its path, or its path in theirs.
MethodsIn(st, file) ==
    LET exact == MethodsUnder(st, file)
        alike == {m \in ToSet(StoredMethods(st)) : \E k \in m.file.keys : IsSuffix(k, file) \/ IsSuffix(file, k)}
    IN  IF exact # {} THEN exact ELSE alike

Covered(st, blocks) ==
    UNION {{m \in MethodsIn(st, b.file) : Overlaps(b, m.method.span)} : b \in {c \in ToSet(blocks) : c.count > 0}}

\* A test class that covers its source class covers all its methods hit.
Report(st, blocks) ==
    LET hit == {m.full : m \in Covered(st, blocks)}
        sources(m) == IF Last(m.class.name) \in DOMAIN SourceName
                      THEN {n \in hit : Front(n) = SourceOf(m.class)} ELSE {}
        tests == {m \in ToSet(StoredMethods(st)) : sources(m) # {}}
    IN  [tests |-> {m.full : m \in tests},
         of |-> [n \in {m.full : m \in tests} |-> UNION {sources(m) : m \in {t \in tests : t.full = n}}]]

MergeCoverage(cov, report) ==
    [tests |-> cov.tests \cup report.tests,
     of |-> [t \in cov.tests \cup report.tests |->
                (IF t \in cov.tests THEN cov.of[t] ELSE {}) \cup (IF t \in report.tests THEN report.of[t] ELSE {})]]

\* A profile without blocks, or that hits no method, changes nothing.
LoadProfile(st, cov, lines) ==
    LET blocks == BlocksOf(lines)
    IN  IF Covered(st, blocks) = {} THEN cov ELSE MergeCoverage(cov, Report(st, blocks))

-----------------------------------------------------------------------------
(* What is promised of them                                                *)

\* A test found by its name is listed whatever else was found: the strategies
\* that are asked only while few were found come after it.
NamedListed(st, cov, name) ==
    \A l \in ByNaming(st, name) : l.test # name =>
        \E i \in DOMAIN FindTestLinks(st, cov, name, 70) : FindTestLinks(st, cov, name, 70)[i] = l

\* A second profile adds to the first, and one loaded twice adds nothing.
ProfilesAddUp(st, p, q) ==
    LET once == LoadProfile(st, NoCoverage, p)
        both == LoadProfile(st, once, q)
    IN  /\ once.tests \subseteq both.tests
        /\ \A t \in once.tests : once.of[t] \subseteq both.of[t]
        /\ LoadProfile(st, both, q) = both

\* The methods taken as covered are those that share a line with a block that
\* was run.
CoveredWereRun(st, blocks) ==
    \A m \in ToSet(StoredMethods(st)) :
        m \in Covered(st, blocks) <=>
            \E b \in ToSet(blocks) : b.count > 0 /\ m \in MethodsIn(st, b.file)
                                        /\ (b.from .. b.to) \cap (m.method.span[1] .. m.method.span[2]) # {}
=============================================================================
