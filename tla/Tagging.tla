------------------------------ MODULE Tagging ------------------------------
(***************************************************************************)
(* TagAll of internal/analyzer: every class and method gets the tags that  *)
(* the rules of internal/ai derive for it, which replace those it had;     *)
(* then, while the budget of the scan lasts, a language model adds to them *)
(* and writes missing documentation.                                       *)
(*                                                                         *)
(* Names and documentation are sets of the words the rules look for.       *)
(***************************************************************************)
EXTENDS Integers, Sequences, FiniteSets, Sublists

CONSTANTS
    LayerOf,      \* word of a path -> layer
    SuffixLayer,  \* end of a class name -> layer
    NoBusiness,   \* parts of a path that name no business, as one with a dot
    TechOf,       \* <<word of a name, tag>>, in order
    RiskOf        \* <<word of a name, tag>>, in order

\* No rule makes an empty tag.
ASSUME TaggingAssumption ==
    /\ \A w \in DOMAIN LayerOf : LayerOf[w] # ""
    /\ \A w \in DOMAIN SuffixLayer : SuffixLayer[w] # ""
    /\ "" \in NoBusiness
    /\ \A table \in {TechOf, RiskOf} : \A i \in DOMAIN table : i \in Nat /\ table[i][2] # ""

\* A class or a method, its path and the tags of its file's language.
IsEntity(e) == IsList(e.path) /\ "" \notin e.language

\* What a scan finds: entities with the tags they had, and what the model will say.
IsScan(entities, tags, limit, reply, keeps) ==
    /\ IsList(entities)
    /\ \A e \in DOMAIN entities : IsEntity(entities[e])
    /\ DOMAIN tags = DOMAIN entities /\ \A e \in DOMAIN tags : "" \notin tags[e]
    /\ limit \in Int /\ keeps \in BOOLEAN
    /\ \A e \in DOMAIN entities : reply[e].fails \in BOOLEAN

\* The tag of the first word that occurs, if any.
FirstTag(table, words) ==
    LET hits == {i \in DOMAIN table : table[i][1] \in words}
    IN  IF hits = {} THEN {} ELSE {table[CHOOSE i \in hits : \A j \in hits : i <= j][2]}

Todo == <<<<"todo", "todo">>, <<"deprecated", "deprecated">>>>

-----------------------------------------------------------------------------
(* The rules                                                               *)

\* deriveLayerTag: the first part of the path that names a layer, else the class.
LayerTag(c) ==
    LET parts == {i \in DOMAIN c.path : c.path[i] \in DOMAIN LayerOf}
    IN  IF parts # {} THEN {LayerOf[c.path[CHOOSE i \in parts : \A j \in parts : i <= j]]}
        ELSE {SuffixLayer[w] : w \in c.words \cap DOMAIN SuffixLayer}

\* deriveBizTag: the innermost part that is none of the usual names.
BizTag(c) ==
    LET parts == {i \in DOMAIN c.path : c.path[i] \notin NoBusiness \cup DOMAIN LayerOf}
    IN  IF parts = {} THEN {} ELSE {c.path[CHOOSE i \in parts : \A j \in parts : i >= j]}

TechTag(e) == FirstTag(TechOf, e.words)

\* deriveClassRiskTag: the name, else the documentation
RiskTag(c) ==
    LET named == FirstTag(RiskOf, c.words)
    IN  IF named # {} THEN named ELSE FirstTag(Todo, c.doc)

\* deriveTestTag
TestTag(c) == IF c.place # "" THEN {c.place} ELSE {"mock"} \cap c.words

\* DeriveClassTags
ClassTags(c) == LayerTag(c) \cup BizTag(c) \cup TechTag(c) \cup RiskTag(c) \cup TestTag(c) \cup c.language

\* DeriveMethodTags: of a method the name and, for risks, the documentation.
MethodTags(m) == TechTag(m) \cup FirstTag(Todo, m.doc) \cup ({"mock"} \cap m.words)

RuleTags(e) == IF e.kind = "class" THEN ClassTags(e) ELSE MethodTags(e)

\* DeriveAllTags; without a tag the store is not called.
Derived(entities, tags) ==
    [e \in DOMAIN tags |-> IF RuleTags(entities[e]) = {} THEN tags[e] ELSE RuleTags(entities[e])]

-----------------------------------------------------------------------------
(* The model's share.  s: tags and doc of each entity, and the calls made; *)
(* reply: what the model says to each entity, or Fail.                     *)

Remaining(s, limit) == IF limit < 0 THEN -1 ELSE limit - s.calls

\* Mutant: a call that fails is not counted.
ConsumeAnswered(s, limit, failed) ==
    [s EXCEPT !.calls = IF limit < 0 \/ failed THEN @ ELSE @ + 1, !.asked = @ + 1]

\* tryConsumeScan, before the call
Consume(s, limit, failed) ==
    [s EXCEPT !.calls = IF limit < 0 THEN @ ELSE @ + 1, !.asked = @ + 1]

\* mergeUnique
MergeTags(existing, added) == (existing \cup added) \ {""}

\* EnhanceTag and UpsertTags
EnhanceTag(s, e, limit, reply) ==
    IF Remaining(s, limit) <= 0 THEN s
    ELSE LET t == Consume(s, limit, reply[e].fails)
         IN  IF reply[e].fails \/ reply[e].tags = {} THEN t ELSE [t EXCEPT !.tags[e] = MergeTags(@, reply[e].tags)]

\* EnhanceDoc, where the store can keep it: the documentation read before; an answer
\* that tells nothing is not written.
EnhanceDoc(s, e, limit, reply, entities, keeps) ==
    IF entities[e].doc # {} \/ ~keeps \/ Remaining(s, limit) <= 0 THEN s
    ELSE LET t == Consume(s, limit, reply[e].fails)
         IN  IF reply[e].fails \/ ~reply[e].tells THEN t ELSE [t EXCEPT !.docs[e] = {"written"}]

\* enhanceTagsWithAI: each entity, its tags before its documentation.
Enhanced(s, limit, reply, entities, keeps) ==
    LET after[n \in 0 .. Len(entities)] ==
            IF n = 0 THEN s ELSE EnhanceDoc(EnhanceTag(after[n - 1], n, limit, reply), n, limit, reply, entities, keeps)
    IN  after[Len(entities)]

\* TagAll, from the tags of before, with or without a model
TagAll(entities, tags, model, limit, reply, keeps) ==
    LET s == [tags |-> Derived(entities, tags), docs |-> [e \in DOMAIN entities |-> entities[e].doc], calls |-> 0, asked |-> 0]
    IN  IF model THEN Enhanced(s, limit, reply, entities, keeps) ELSE s

-----------------------------------------------------------------------------
(* What is promised of them                                                *)

\* The model is called as often as the budget allows and no more, whether it
\* answers or fails, for tags and for documentation together.
WithinBudget(entities, tags, limit, reply, keeps) ==
    LET s == TagAll(entities, tags, TRUE, limit, reply, keeps)
        undocumented == IF keeps THEN {e \in DOMAIN entities : entities[e].doc = {}} ELSE {}
        wanted == Len(entities) + Cardinality(undocumented)
    IN  limit >= 0 => s.asked = (IF wanted < limit THEN wanted ELSE limit)

\* The model only adds to what the rules say and to what is written, and what it
\* adds is there: failing or out of budget it changes nothing.
ModelOnlyAdds(entities, tags, limit, reply, keeps) ==
    LET without == TagAll(entities, tags, FALSE, limit, reply, keeps)
        with == TagAll(entities, tags, TRUE, limit, reply, keeps)
    IN  \A e \in DOMAIN entities :
            /\ without.tags[e] \subseteq with.tags[e]
            /\ entities[e].doc # {} => with.docs[e] = entities[e].doc
            /\ with.tags[e] \ without.tags[e] \subseteq (IF reply[e].fails THEN {} ELSE reply[e].tags)
=============================================================================
