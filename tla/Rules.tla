------------------------------- MODULE Rules -------------------------------
(***************************************************************************)
(* The rules of the program that are functions of what they are given:     *)
(* requests and queries (ServerRequests), imports and graphs of files      *)
(* (ImportGraphs), tags (Tagging) and settings (Configuration).  A state   *)
(* is one rule with one input, and the step looks at it.                   *)
(***************************************************************************)
EXTENDS ServerRequests, ImportGraphs, Tagging, Configuration

CONSTANT Inputs  \* rule -> what it may be given

\* The arguments of a request.
Arguments == {"ask", "verb", "header", "tenant", "names", "name", "tags", "pattern", "dots", "mode", "number", "recursive"}
IsRequest(q) == q = [a \in DOMAIN q |-> q[a]] /\ Arguments \subseteq DOMAIN q /\ IsList(q.names)

\* What each rule is given has the types that the program gives it.
Fits(r, x) ==
    /\ r = "request" => IsRequest(x.q)
    /\ r = "frames" => IsList(x.frames)
    /\ r = "links" => IsStore(x.st) /\ IsFiniteSet(x.cov.tests)
    /\ r = "profile" => IsStore(x.st) /\ IsProfile(x.p) /\ IsProfile(x.q)
    /\ r = "context" => IsStore(x.st) /\ IsDisk(x.disk, x.st, x.cache) /\ x.around \in Nat
    /\ r = "tags" => IsStore(x.st)
    /\ r = "search" => IsStore(x.st) /\ IsList(x.docs) /\ x.best \in Verdicts(x.st, x.docs)
    /\ r = "import" => IsImport(x.imp) /\ \A f \in x.files : IsList(f.dir)
    /\ r = "hot" => AreNodes(x.nodes) /\ x.limit \in Nat
    /\ r = "kin" => AreClasses(x)
    /\ r = "label" => IsScan(x.entities, x.tags, x.limit, x.reply, x.keeps)
    /\ r = "file" => AreSettings(x)
    /\ r = "start" => AreSettings(x.file.given) /\ AreSettings(x.env)
    /\ r = "tenant" => IsConfig(x.base) /\ IsConfig(x.over)

ASSUME RulesAssumption == \A r \in DOMAIN Inputs : \A x \in Inputs[r] : Fits(r, x)

VARIABLES rule, input, seen

RulesInit == rule \in DOMAIN Inputs /\ input \in Inputs[rule] /\ seen = FALSE
Look == ~seen /\ seen' = TRUE /\ UNCHANGED <<rule, input>>
RulesNext == Look
RulesSpec == RulesInit /\ [][RulesNext]_<<rule, input, seen>>

-----------------------------------------------------------------------------
(* What each rule promises                                                 *)

NamedTestsListed == rule = "links" => NamedListed(input.st, input.cov, input.name)
ProfilesMerge == rule = "profile" => ProfilesAddUp(input.st, input.p, input.q)
CoverageWasRun == rule = "profile" => CoveredWereRun(input.st, BlocksOf(input.p))

\* FindTestLinks lists the tests that are found by name whatever else it found.
\* ParseGoCoverProfile: profiles add up, a profile loaded twice adds nothing, and
\* the methods taken as covered are those that share a line with a block that
\* was run.
TestsTold == NamedTestsListed /\ ProfilesMerge /\ CoverageWasRun

ContextWithinFile ==
    rule = "context" =>
        LET answer == GetContext(input.st, NoCoverage, input.cache, input.disk, input.name, input.mode, input.around)
        IN  ~Failed(answer) => ShownWithinFile(answer, input.disk[answer.at.path])
TagsAgree == rule = "tags" => TagsFindTheirSymbols(input.st, input.tags)
SearchKeeps == rule = "search" => SearchKeepsNames(input.st, input.docs, input.best)

\* getContextModeUncached shows lines of the file as it is now, with what is
\* left of the symbol, also when the indexed lines are beyond its end.
\* SearchByTags and GetTags tell the same of a symbol.  SearchWithOptions:
\* disambiguation loses no name, and a result names a symbol that a context
\* query finds.
QueriesAgree == ContextWithinFile /\ TagsAgree /\ SearchKeeps

ToolsAsRoutes == rule = "request" => ToolsAnswerAsRoutes(input.worlds, input.q, input.defaults)
OwnTenant == rule = "request" => AnsweredByOwnTenant(input.worlds, input.q, input.defaults)
NamesAnswered == rule = "request" => EveryNameAnswered(input.worlds[Default], input.q, input.defaults)
EveryFrame == rule = "frames" => FramesAnswered(input.worlds, input.frames, input.defaults)

\* handleToolCall and the HTTP handlers answer the same arguments alike, unless they
\* are written as only one of them reads them (WrittenAsMeant);
\* serviceForRequest gives nobody the store of another tenant; querySymbols and
\* the batch queries answer each name once; serveStdio answers every frame, in
\* order.
RequestsAnswered == ToolsAsRoutes /\ OwnTenant /\ NamesAnswered /\ EveryFrame

ImportsSpelledOut == rule = "import" => SpelledOut(input.imp, input.files)
ImportsNamed == rule = "import" => TargetsNamed(input.imp, input.files)
HotListed == rule = "hot" => HottestListed(input.nodes, input.limit)
HierarchyMatches == rule = "kin" => KinMatches(input)

\* buildImportIndex and CompositeResolver: what an import spells is what it
\* resolves to, whichever resolver answers, and a guess bears the name it was
\* made from.  sortByCallers and Analyze: no method drops out of the list for
\* another with fewer callers.  BuildClassHierarchy: both directions agree, in
\* whatever order classes come.
ProjectGraphsExact == ImportsSpelledOut /\ ImportsNamed /\ HotListed /\ HierarchyMatches

BudgetKept == rule = "label" => WithinBudget(input.entities, input.tags, input.limit, input.reply, input.keeps)
EnhancementAdds == rule = "label" => ModelOnlyAdds(input.entities, input.tags, input.limit, input.reply, input.keeps)

\* enhanceTagsWithAI spends the budget of a scan and no more, whatever fails;
\* EnhanceTag and EnhanceDoc add to the rules' tags and to what is written.
TaggingSound == BudgetKept /\ EnhancementAdds

FileFormsAgree == rule = "file" => FormsAgree(input)
EnvironmentHolds == rule = "start" => EnvironmentWins(input.file, input.env)
OverlaysValid == rule = "tenant" => StaysValid(input.base, input.over)
TenantsTake == rule = "tenant" => TenantTakes(input.over, input.base)

\* applyToConfig reads what the YAML form reads; LoadFromEnv has the last word,
\* but for what a preset manages; ToConfig and Merge of sound settings are sound;
\* cloneConfig and ToConfig lose no setting but the five NotCloned names.
SettingsHold == FileFormsAgree /\ EnvironmentHolds /\ OverlaysValid /\ TenantsTake
=============================================================================
