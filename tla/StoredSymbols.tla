--------------------------- MODULE StoredSymbols ---------------------------
(***************************************************************************)
(* What a store holds, as the queries of internal/service read it: a       *)
(* sequence of files (GetAllFiles promises no order: a model checks        *)
(* several), each with its classes and their methods.  A full name is a    *)
(* sequence of segments; a method is named by its class and its own name.  *)
(***************************************************************************)
EXTENDS Naturals, Sequences, SequencesExt, FiniteSets, Sublists

\* What the parsers store: a class has a name, and everything a range of lines.
IsSpan(s) == s[1] \in Nat /\ s[2] \in Nat /\ s[1] <= s[2]
IsClass(c) == /\ IsList(c.name) /\ c.name # <<>> /\ IsSpan(c.span)
              /\ IsList(c.methods) /\ \A m \in ToSet(c.methods) : IsSpan(m.span)
IsStore(st) == IsList(st) /\ \A f \in ToSet(st) : IsList(f.classes) /\ \A c \in ToSet(f.classes) : IsClass(c)

\* GetClassesByFileID fails for some files; every query passes over those.
Readable(st) == Kept(st, {f \in ToSet(st) : ~f.unreadable})
ClassesInside(fs) ==
    FlattenSeq([i \in DOMAIN fs |-> [j \in DOMAIN fs[i].classes |-> [file |-> fs[i], class |-> fs[i].classes[j]]]])
StoredClasses(st) == ClassesInside(Readable(st))

Full(c, m) == Append(c.name, m.name)

MethodsInside(cs) ==
    FlattenSeq([i \in DOMAIN cs |->
        [j \in DOMAIN cs[i].class.methods |->
            [file |-> cs[i].file, class |-> cs[i].class, method |-> cs[i].class.methods[j],
             full |-> Full(cs[i].class, cs[i].class.methods[j])]]])
StoredMethods(st) == MethodsInside(StoredClasses(st))

ClassesCalled(cs, name) == Kept(cs, {c \in ToSet(cs) : c.class.name = name})
MethodsCalled(ms, name) == Kept(ms, {m \in ToSet(ms) : m.full = name})
ClassesNamed(st, name) == ClassesCalled(StoredClasses(st), name)
MethodsNamed(st, name) == MethodsCalled(StoredMethods(st), name)
=============================================================================
