---------------------------- MODULE IRDocuments ----------------------------
(***************************************************************************)
(* The unified intermediate representation a parser adapter hands to a     *)
(* store (internal/parser/ir.go), reduced to what the stores keep apart:   *)
(* names are model values, positions, signatures and doc texts are left    *)
(* out.  Shared by every module that stores or indexes documents.          *)
(***************************************************************************)
EXTENDS Integers, FiniteSets, Sequences

CONSTANTS
    Paths,       \* absolute paths of source files
    Hashes,      \* SHA-256 values of file contents
    ClassNames,  \* fully qualified class names
    MethodNames, \* method names
    Calls,       \* (caller, callee) pairs
    Imports,     \* imported packages
    Docs,        \* the documents the parsers can produce
    NoHash       \* the empty content_hash of a skipped file

IRDocument ==
    [path : Paths, hash : Hashes, classes : SUBSET ClassNames,
     methods : SUBSET [class : ClassNames, name : MethodNames],
     calls : SUBSET Calls, imports : SUBSET Imports]

ASSUME IRAssumption ==
    /\ Docs \subseteq IRDocument
    /\ \A d \in Docs : IsFiniteSet(d.classes) /\ IsFiniteSet(d.methods)
    /\ NoHash \notin Hashes

\* Methods whose class is not in the document are file-level functions: no
\* store keeps them.
ClassMethods(d) == {m \in d.methods : m.class \in d.classes}

-----------------------------------------------------------------------------
(* What a store shows of a path *)

Absent == [state |-> "absent"]

Stored(h, c, m, k, i) ==
    [state |-> "stored", hash |-> h, classes |-> c, methods |-> m, calls |-> k, imports |-> i]

\* An update in progress: only its document is determined, and the imports
\* that survive when the document lists none.
Updating(d, old) == [state |-> "updating", doc |-> d, imports |-> old]

KeepImports(d, old) == IF d.imports = {} THEN old ELSE d.imports

DocContent(d, old) ==
    Stored(d.hash, d.classes, ClassMethods(d), d.calls, KeepImports(d, old))
=============================================================================
