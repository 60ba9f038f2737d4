--------------------------- MODULE ServiceQueries ---------------------------
(***************************************************************************)
(* The queries of service.Service that read symbols, tags and source, each *)
(* as a function of what the store holds (st), what the optional cache     *)
(* reader holds (cache: names -> location) and what is on the disk (disk:  *)
(* path -> number of lines, or Gone).  Queries on the call graph are in    *)
(* ImpactQuery.                                                            *)
(***************************************************************************)
EXTENDS TestLinks

CONSTANTS Gone, Nothing

Error(code) == [error |-> code]
Failed(answer) == "error" \in DOMAIN answer

-----------------------------------------------------------------------------
(* Where a symbol is                                                       *)

Location(kind, path, span, st) ==
    [kind |-> kind, path |-> path, span |-> span,
     lines |-> LET fs == Kept(st, {f \in ToSet(st) : f.path = path}) IN IF fs = <<>> THEN 0 ELSE Head(fs).lines]

\* Where nothing was found.
Nowhere == [kind |-> "nowhere"]

\* The files that are known have been there; they may be gone, or have fewer lines.
IsDisk(disk, st, cache) ==
    /\ \A path \in DOMAIN disk : disk[path] = Gone \/ disk[path] \in Nat
    /\ \A f \in ToSet(st) : f.path \in DOMAIN disk
    /\ \A name \in DOMAIN cache : cache[name].path \in DOMAIN disk /\ IsSpan(cache[name].span)

\* The files are searched for a class of that name, then for a method.
Scanned(st, name) ==
    LET cs == ClassesNamed(st, name)
        ms == MethodsNamed(st, name)
    IN  IF cs # <<>> THEN Location("class", Head(cs).file.path, Head(cs).class.span, st)
        ELSE IF ms # <<>> THEN Location("method", Head(ms).file.path, Head(ms).method.span, st)
        ELSE Nowhere

\* resolveSymbolLocation: a cache that knows method or class goes first.
LocateSymbol(st, cache, name) ==
    IF name \in DOMAIN cache
    THEN Location(cache[name].kind, cache[name].path, cache[name].span, st)
    ELSE Scanned(st, name)

Clamp(v, lo, hi) == IF v < lo THEN lo ELSE IF v > hi THEN hi ELSE v

\* The lines of the symbol, in a file that may have changed since it was indexed.
Block(span, n) ==
    LET from == Clamp(span[1], 1, n)
        to == Clamp(span[2], 1, n)
    IN  [from |-> from, to |-> IF to < from THEN from ELSE to]

\* trim.Window, a library's: so many lines around the block as the file has,
\* and the whole block always.
Window(block, n, around) ==
    [from |-> Clamp(block.from - around, 1, block.from), to |-> Clamp(n, block.to, block.to + around)]

\* What is shown of a location.  An empty file has no line 0: what the trimming
\* library does then is not known.
Show(loc, links, disk, mode, around) ==
    IF loc = Nowhere THEN Error("ERR_SYMBOL_NOT_FOUND")
    ELSE IF mode = "minimal" THEN [shown |-> "summary", at |-> loc]
    ELSE IF disk[loc.path] = Gone THEN [shown |-> "unreadable", at |-> loc]
    ELSE [shown |-> "source", at |-> loc,
          lines |-> Window(Block(loc.span, disk[loc.path]), disk[loc.path], around),
          tests |-> [i \in DOMAIN links |-> links[i].test]]

\* getContextModeUncached, without a budget
GetContext(st, cov, cache, disk, name, mode, around) ==
    IF name = <<>> THEN Error("ERR_INVALID_PARAMETER")
    ELSE Show(LocateSymbol(st, cache, name), FindTestLinks(st, cov, name, 60), disk, mode, around)

-----------------------------------------------------------------------------
(* Batches: one answer for each symbol, in order                           *)

\* GetContextBatchDetailed, GetImpactBatch, GetTestsBatch; newBatchError
BatchAnswer(names, answer) ==
    LET code(n) == IF n = <<>> THEN "ERR_INVALID_PARAMETER" ELSE IF Failed(answer[n]) THEN answer[n].error ELSE ""
        bad == {n \in ToSet(names) : code(n) # ""}
        good == Kept(names, ToSet(names) \ bad)
        failed == Kept(names, bad)
    IN  [results |-> [i \in DOMAIN good |-> answer[good[i]]],
         errors |-> [i \in DOMAIN failed |-> [symbol |-> failed[i], code |-> code(failed[i])]]]

GetTests(st, cov, name, min) ==
    IF name = <<>> THEN Error("ERR_INVALID_PARAMETER")
    ELSE [tests |-> FindTestLinks(st, cov, name, min)]

-----------------------------------------------------------------------------
(* Tags                                                                    *)

\* The symbol is the first of that name, class before the methods in it.
GetTags(st, name) ==
    LET symbols == FlattenSeq([i \in DOMAIN StoredClasses(st) |->
                       LET c == StoredClasses(st)[i].class
                       IN  <<[full |-> c.name, tags |-> c.tags, kind |-> "class"]>>
                           \o [j \in DOMAIN c.methods |-> [full |-> Full(c, c.methods[j]), tags |-> c.methods[j].tags, kind |-> "method"]]])
        found == Kept(symbols, {s \in ToSet(symbols) : s.full = name})
    IN  IF name = <<>> THEN Error("ERR_INVALID_PARAMETER")
        ELSE IF found = <<>> THEN Error("ERR_SYMBOL_NOT_FOUND")
        ELSE [kind |-> Head(found).kind, tags |-> Head(found).tags]

\* containsAll
HasAll(have, tags) == tags \subseteq have

\* SearchByTags of the store, by its tag tables, and the names of what it found.
SearchByTags(st, tags) ==
    LET rows == [c \in ToSet(FlattenSeq([i \in DOMAIN st |-> st[i].classes])) |-> c.tags]
    IN  IF tags = {} \/ "" \in tags THEN Error("ERR_INVALID_PARAMETER")
        ELSE [classIDs |-> {c.id : c \in {d \in DOMAIN rows : HasAll(rows[d], tags)}},
              methodIDs |-> {m.id : m \in UNION {{n \in ToSet(c.methods) : HasAll(n.tags, tags)} : c \in DOMAIN rows}},
              classes |-> {c.class.name : c \in {d \in ToSet(StoredClasses(st)) : HasAll(d.class.tags, tags)}},
              methods |-> {m.full : m \in {n \in ToSet(StoredMethods(st)) : HasAll(n.method.tags, tags)}}]

\* GetAllTags: how many tags each category has.
GetAllTags(categoryOf) ==
    [tags |-> categoryOf,
     categories |-> [c \in {categoryOf[t] : t \in DOMAIN categoryOf} |-> Cardinality({t \in DOMAIN categoryOf : categoryOf[t] = c})]]

\* SearchConfig: the names of what carries the pattern in any of its fields.
SearchConfig(st, pattern) ==
    IF pattern = "" THEN Error("ERR_INVALID_PARAMETER")
    ELSE [names |-> {c.class.name : c \in {d \in ToSet(StoredClasses(st)) : pattern \in d.class.words}}
                    \cup {m.full : m \in {n \in ToSet(StoredMethods(st)) : pattern \in n.method.words}}]

-----------------------------------------------------------------------------
(* Search results                                                          *)

\* resolveSymbol: a document of the index is a file or names an identifier.
\* A method's name is made of its class and its own, as the store makes it.
SymbolOfDoc(doc, cs, ms) ==
    CASE doc.kind = "file" -> [kind |-> "file", path |-> doc.path, name |-> <<>>]
      [] doc.kind = "class" /\ cs # <<>> -> [kind |-> "class", path |-> Head(cs).file.path, name |-> Head(cs).class.name]
      [] doc.kind = "method" /\ ms # <<>> -> [kind |-> "method", path |-> Head(ms).file.path, name |-> Head(ms).full]
      [] OTHER -> [kind |-> "", path |-> "", name |-> <<>>]
ClassesByID(cs, id) == Kept(cs, {c \in ToSet(cs) : c.class.id = id})
MethodsByID(ms, id) == Kept(ms, {m \in ToSet(ms) : m.method.id = id})
Resolved(st, doc) == SymbolOfDoc(doc, ClassesByID(StoredClasses(st), doc.id), MethodsByID(StoredMethods(st), doc.id))

\* Mutant: the group is what has the same kind.
SameGroupByKind(st, a, b) == a.kind = "method" /\ b.kind = "method"

\* disambiguateMethodResults groups the methods the store knows by their name.
SameName(m, n) == m # <<>> /\ n # <<>> /\ Last(m) = Last(n)
SameGroup(st, a, b) == a.kind = "method" /\ b.kind = "method" /\ SameName(Resolved(st, a).name, Resolved(st, b).name)

\* The model picks one of each group (best), or fails and all stay.
Disambiguated(st, docs, best) ==
    LET group(i) == {j \in DOMAIN docs : SameGroup(st, docs[i], docs[j])}
        drop == {i \in DOMAIN docs : Cardinality(group(i)) > 1 /\ best[i] # 0 /\ i # best[i]}
        left == Kept([i \in DOMAIN docs |-> i], DOMAIN docs \ drop)
    IN  [i \in DOMAIN left |-> docs[left[i]]]

\* What the model may answer: for each group one member, or nothing.
Verdicts(st, docs) ==
    {best \in [DOMAIN docs -> 0 .. Len(docs)] :
        \A i, j \in DOMAIN docs :
            /\ best[i] # 0 => SameGroup(st, docs[i], docs[best[i]])
            /\ SameGroup(st, docs[i], docs[j]) => best[i] = best[j]}

\* enrichResults
Result(st, d) == LET r == Resolved(st, d) IN [doc |-> d, kind |-> r.kind, name |-> r.name, path |-> r.path]
Enriched(st, docs) == [i \in DOMAIN docs |-> Result(st, docs[i])]

\* SearchWithOptions, from what the searcher found
Search(st, docs, best) == Enriched(st, Disambiguated(st, docs, best))

-----------------------------------------------------------------------------
(* What is promised of them                                                *)

\* The lines shown lie within the file as it is now, and hold what is left of
\* the symbol, however the file has shrunk since it was indexed.
ShownWithinFile(answer, n) ==
    answer.shown = "source" /\ n > 0 =>
        /\ 1 <= answer.lines.from /\ answer.lines.from <= answer.lines.to /\ answer.lines.to <= n
        /\ (answer.at.span[1] .. answer.at.span[2]) \cap (1 .. n) \subseteq answer.lines.from .. answer.lines.to

\* A batch answers every symbol, with a result or an error, as a query of its own.
BatchAnswersAll(names, batch, answer) ==
    /\ Len(batch.results) + Len(batch.errors) = Len(names)
    /\ \A i \in DOMAIN names : IF names[i] = <<>> \/ Failed(answer[names[i]])
                               THEN \E j \in DOMAIN batch.errors : batch.errors[j].symbol = names[i]
                               ELSE \E j \in DOMAIN batch.results : batch.results[j] = answer[names[i]]

\* A symbol is found by some tags when its own tags, as GetTags tells them,
\* contain these: the two queries read different tables.  (GetTags knows the
\* first symbol of a name only.)
TagsFindTheirSymbols(st, tags) ==
    LET found == SearchByTags(st, tags)
        names == {c.class.name : c \in ToSet(StoredClasses(st))} \cup {m.full : m \in ToSet(StoredMethods(st))}
        symbols == {s \in names : Len(ClassesNamed(st, s)) + Len(MethodsNamed(st, s)) = 1}
    IN  ~Failed(found) => \A s \in symbols : (s \in found.classes \cup found.methods) <=> tags \subseteq GetTags(st, s).tags

\* Of every name that was given a method is left, and every result that is not
\* a method; and what is named, a context query finds.
NamesKept(st, docs, found) ==
    /\ \A i \in DOMAIN docs :
          \E j \in DOMAIN found : \/ found[j].doc = docs[i]
                                  \/ SameGroup(st, docs[i], docs[i]) /\ found[j].kind = "method"
                                        /\ Last(found[j].name) = Last(Resolved(st, docs[i]).name)
    /\ \A j \in DOMAIN found : found[j].name # <<>> => Scanned(st, found[j].name) # Nowhere

\* Disambiguation and enrichment keep the names of what was found.
SearchKeepsNames(st, docs, best) == NamesKept(st, docs, Search(st, docs, best))
=============================================================================
