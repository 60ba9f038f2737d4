------------------------------ MODULE MCIndex ------------------------------
(***************************************************************************)
(* The search index, and what is computed at once: a behaviour is one of   *)
(* either, the other rests.  Small inputs for Rules: requests and queries  *)
(* (MCRequests), imports and graphs of files, tags, and settings.          *)
(***************************************************************************)
EXTENDS SearchIndex, Rules, MCRequests

-----------------------------------------------------------------------------
(* Imports                                                                 *)

ProjectModule == <<"mod">>
SourceDirs == <<<<"src">>, <<>>>>
Libraries == {<<"java">>}

SourceFile(dir, name, stem) == [dir |-> dir, name |-> name, stem |-> stem, code |-> name # "A.txt", imports |-> {}]
SourceFiles == {SourceFile(<<"p", "q">>, "A.java", "A"), SourceFile(<<"src", "p">>, "A.java", "A"), SourceFile(<<"d">>, "p.go", "p"),
                SourceFile(<<"core", "src", "p">>, "A.java", "A"), SourceFile(<<"p">>, "A.txt", "A"), SourceFile(<<"java", "util">>, "List.java", "List"),
                SourceFile(<<"p">>, "Makefile", "Makefile")}
Import(style, segs, wild) == [style |-> style, segs |-> segs, wild |-> wild]
ImportLines == {Import("path", s, FALSE) : s \in {<<"mod", "d", "p">>, <<"mod", "p">>, <<"d", "p">>, <<"p", "A">>, <<"mod">>, <<"p", "Makefile">>}}
             \cup {Import("dotted", s, w) : s \in {<<"p", "A">>, <<"java", "util", "List">>, <<"src", "p", "A">>, <<"p">>, <<"p", "q">>, <<"A">>}, w \in BOOLEAN}
             \cup {Import("gradle", s, w) : s \in {<<"core", "p", "A">>, <<"core">>, <<"core", "p">>, <<"other", "p", "A">>, <<"java", "A">>}, w \in BOOLEAN}

HotNodes == {[name |-> n, callers |-> c] : n \in {"f", "g", "h", "i"}, c \in 0 .. 2}
NodeLists == {<<>>} \cup {s \in [1 .. 3 -> HotNodes] \cup [1 .. 4 -> {n \in HotNodes : n.callers > 0}] : \A i, j \in DOMAIN s : i # j => s[i].name # s[j].name}

ParentLists == {<<>>, <<"">>, <<"P">>, <<"Q", "P">>, <<"R">>}
ClassLists == UNION {[1 .. n -> [name : {"P", "Q", "R"}, parents : ParentLists]] : n \in 0 .. 3}

-----------------------------------------------------------------------------
(* Tags                                                                    *)

Layers == [service |-> "service", models |-> "domain"]
ClassSuffixes == [Dao |-> "dao"]
Techs == <<<<"cache", "cache">>, <<"queue", "mq">>>>
Risks == <<<<"legacy", "deprecated">>>>

Entity(kind, path, words, doc, place) ==
    [kind |-> kind, path |-> path, words |-> words, doc |-> doc, place |-> place, language |-> {"go"}]
Entities == {Entity("class", <<"src", "pay", "service", "a.go">>, {"cache", "queue"}, {"todo"}, ""),
             Entity("class", <<"src", "core", "a.go">>, {"Dao", "legacy"}, {}, "unit"),
             Entity("method", <<"src", "pay", "a.go">>, {"queue", "mock"}, {}, ""), Entity("method", <<"src", "a.go">>, {}, {"text"}, "")}
Replies == [fails : BOOLEAN, tells : BOOLEAN, tags : {{}, {"new", ""}, {"mq"}}]

-----------------------------------------------------------------------------
(* Settings                                                                *)

Initial ==
    [f \in {"preset", "project.name", "storage.kv", "vector.driver", "vector.dsn", "vector.model_dir", "vector.model_download_url",
            "vector.model_sha256", "ai.api_key", "server.auth_token"} |-> ""]
    @@ [f \in {"server.rate_limit", "context.lines", "context.max_bytes", "context.max_tokens", "context.max_line_chars",
               "context.chars_per_token", "query_cache.ttl_ms", "query_cache.max_entries"} |-> 0]
    @@ [f \in {"search.fts", "search.semantic", "watcher.enabled"} |-> TRUE]
    @@ [f \in {"lsp.enabled", "watcher.use_fsnotify", "query_cache.enabled"} |-> FALSE]
    @@ [f \in {"jcodeindexer.env"} |-> {}]
    @@ [f \in {"project.languages", "parser.adapters", "watcher.ignore_dirs"} |-> {"default"}]
    @@ [f \in {"storage.driver"} |-> "file"]
    @@ [f \in {"project.root", "storage.dsn", "vector.embedding_model", "search.fts_dir", "search.vector_dir", "search.idf_dir", "scip.index_dir",
               "codegraph.db", "jcodeindexer.db", "jcodeindexer.config_file", "ai.provider", "ai.model", "ai.base_url", "server.mcp_addr",
               "server.http_addr", "context.path_style"} |-> "default"]
    @@ [f \in {"search.vector_dim", "ai.budget_per_scan", "ai.budget_per_query", "watcher.debounce_ms", "watcher.batch_size", "scanner.workers",
               "scanner.file_size_limit_mb", "scanner.line_count_limit"} |-> 4]

Values(f) ==
    CASE f = "preset" -> {"", "minimal", "semantic", "multitenant", "other"}
      [] f = "storage.driver" -> {"", "pg", "other"}
      [] f \in TextFields \ {"preset", "storage.driver"} -> {"", "set"}
      [] f \in Numbers -> {-1, 0, 7}
      [] f \in Flags -> BOOLEAN
      [] f \in Lists -> {{}, {"set"}}

Setting(fields) == UNION {{[g \in {f} |-> v] : v \in Values(f)} : f \in fields}
Telling == {"search.semantic", "vector.driver", "ai.budget_per_scan", "watcher.enabled", "storage.driver", "server.rate_limit", "lsp.enabled"}
Settings == Setting(Fields) \cup {p @@ q : p \in Setting(Telling), q \in Setting({"preset"})}
NoneSet == [f \in Fields |-> Zero(f)]

ProjectInputs ==
    [import |-> [imp : ImportLines, files : SUBSET SourceFiles],
     hot    |-> [nodes : NodeLists, limit : 0 .. 3],
     kin    |-> ClassLists,
     label  |-> [entities : Entities \X Entities, tags : {<<{}, {}>>, <<{"old"}, {}>>, <<{"old"}, {"mq"}>>}, limit : -1 .. 4,
                 reply : Replies \X Replies, keeps : BOOLEAN],
     file   |-> Settings \cup {p @@ q : p, q \in Setting(Telling)},
     start  |-> [file : [form : {"yaml", "json"}, given : {g \in Settings : DOMAIN g \subseteq Telling \cup {"preset"}}],
                 env : Setting(Telling) \cup {p @@ q : p \in Setting({"search.semantic", "vector.driver"}), q \in Setting({"preset"})}],
     tenant |-> [base : {b @@ Initial : b \in Setting(Fields)}, over : {t @@ NoneSet : t \in Setting(Fields)}]]

SmallInputs == RequestInputs @@ ProjectInputs

-----------------------------------------------------------------------------
VARIABLE which

ruleVars == <<rule, input, seen>>
RuleAtRest == rule = "none" /\ input = <<>> /\ seen = TRUE

MCInit == which \in {"index", "rule"} /\ IndexInit /\ (IF which = "rule" THEN RulesInit ELSE RuleAtRest)

MCNext ==
    \/ which = "index" /\ IndexNext /\ UNCHANGED <<which, ruleVars>>
    \/ which = "rule" /\ RulesNext /\ UNCHANGED <<which, indexVars>>

MCSpec == MCInit /\ [][MCNext]_<<which, indexVars, ruleVars>>

\* Nothing tells one file of the index from another.
AnyOrder == Permutations(Paths)
=============================================================================
