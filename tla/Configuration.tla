--------------------------- MODULE Configuration ---------------------------
(***************************************************************************)
(* Where a setting comes from: the defaults, a file in YAML or JSON, the   *)
(* preset, the environment and the tenant, as internal/config puts them    *)
(* together.  A configuration is a function from fields to values; a file, *)
(* an environment and a tenant give values to some of the fields.          *)
(***************************************************************************)
EXTENDS Integers, FiniteSets

CONSTANTS DefaultConfig    \* without the tenants

TextFields == {"preset", "project.name", "project.root", "storage.driver", "storage.dsn", "storage.kv",
          "vector.driver", "vector.dsn", "vector.embedding_model", "vector.model_dir", "vector.model_download_url", "vector.model_sha256",
          "search.fts_dir", "search.vector_dir", "search.idf_dir", "scip.index_dir", "codegraph.db", "jcodeindexer.db", "jcodeindexer.config_file",
          "ai.provider", "ai.model", "ai.base_url", "ai.api_key", "server.mcp_addr", "server.http_addr", "server.auth_token",
          "context.path_style"}
Numbers == {"search.vector_dim", "ai.budget_per_scan", "ai.budget_per_query", "server.rate_limit", "watcher.debounce_ms", "watcher.batch_size",
            "scanner.workers", "scanner.file_size_limit_mb", "scanner.line_count_limit",
            "context.lines", "context.max_bytes", "context.max_tokens", "context.max_line_chars", "context.chars_per_token",
            "query_cache.ttl_ms", "query_cache.max_entries"}
Flags == {"search.fts", "search.semantic", "lsp.enabled", "watcher.enabled", "watcher.use_fsnotify", "query_cache.enabled"}
Lists == {"project.languages", "parser.adapters", "jcodeindexer.env", "watcher.ignore_dirs"}
Fields == TextFields \cup Numbers \cup Flags \cup Lists

Zero(f) == IF f \in TextFields THEN "" ELSE IF f \in Numbers THEN 0 ELSE IF f \in Flags THEN FALSE ELSE {}

ContextFields == {f \in Fields : f \in {"context.path_style", "context.lines", "context.max_bytes", "context.max_tokens", "context.max_line_chars",
                                        "context.chars_per_token", "query_cache.enabled", "query_cache.ttl_ms", "query_cache.max_entries"}}

Kind(f) == IF f \in TextFields THEN STRING ELSE IF f \in Numbers THEN Int ELSE IF f \in Flags THEN BOOLEAN ELSE SUBSET STRING

\* Some fields and what they are set to; a configuration sets all of them.
AreSettings(s) ==
    /\ s = [f \in DOMAIN s |-> s[f]] /\ DOMAIN s \subseteq Fields
    /\ \A f \in DOMAIN s : s[f] \in Kind(f)
IsConfig(c) == AreSettings(c) /\ DOMAIN c = Fields

ASSUME ConfigurationAssumption == IsConfig(DefaultConfig) /\ DefaultConfig.preset = ""

-----------------------------------------------------------------------------
(* Presets                                                                 *)

Presets == {"", "minimal", "semantic", "multitenant"}

\* ApplyPreset
Managed(preset) ==
    CASE preset = "minimal"     -> [f \in {"search.semantic", "search.fts", "vector.driver", "ai.budget_per_scan", "ai.budget_per_query"} |->
                                       IF f = "search.fts" THEN TRUE ELSE Zero(f)]
      [] preset = "semantic"    -> [f \in {"search.fts", "search.semantic"} |-> TRUE]
      [] preset = "multitenant" -> [f \in {"search.fts", "search.semantic", "watcher.enabled"} |-> TRUE]
      [] OTHER -> [f \in {} |-> Zero(f)]

Over(values, c) == [f \in Fields |-> IF f \in DOMAIN values THEN values[f] ELSE c[f]]

ApplyPreset(c) == Over(Managed(c.preset), c)

-----------------------------------------------------------------------------
(* Files and the environment                                               *)

\* What applyToConfig reads of a JSON file, and what it reads even when empty.
JsonFields == (Fields \ ContextFields)
    \ {"vector.model_dir", "vector.model_download_url", "vector.model_sha256", "search.fts_dir", "search.vector_dir", "search.idf_dir",
       "search.vector_dim", "lsp.enabled", "ai.base_url", "ai.api_key", "watcher.use_fsnotify"}
JsonEmptyToo == Numbers \cup Flags \cup {"storage.kv", "server.auth_token", "jcodeindexer.env"}

JsonTakes(f, v) ==
    /\ f \in JsonFields
    /\ v # Zero(f) \/ f \in JsonEmptyToo
    /\ f = "server.rate_limit" => v >= 0
    /\ f = "preset" => v \in Presets

FromJson(given) == Over([f \in {g \in DOMAIN given : JsonTakes(g, given[g])} |-> given[f]], DefaultConfig)
FromYaml(given) == Over(given, DefaultConfig)

\* Load; a file that cannot be read or has another form is an error.
Load(file) ==
    LET read == CASE file.form = "none" -> DefaultConfig
                  [] file.form = "yaml" -> FromYaml(file.given)
                  [] file.form = "json" -> FromJson(file.given)
        known == IF read.preset \in Presets THEN read ELSE [read EXCEPT !.preset = ""]
    IN  IF file.form = "none" THEN known ELSE ApplyPreset(known)

\* Mutant: the environment's preset comes last.
LoadFromEnvPresetLast(c, env) ==
    LET set == Over([f \in {g \in DOMAIN env : g # "preset" /\ env[g] # Zero(g)} |-> env[f]], c)
    IN  IF "preset" \in DOMAIN env /\ env.preset \in Presets \ {""} THEN ApplyPreset([set EXCEPT !.preset = env.preset]) ELSE set

\* LoadFromEnv; of ApplyEnv, a library's, what its comment says: no empty text
\* and no negative number is taken.
LoadFromEnv(c, env) ==
    LET preset == IF "preset" \in DOMAIN env /\ env.preset \in Presets \ {""} THEN ApplyPreset([c EXCEPT !.preset = env.preset]) ELSE c
        takes(f) == /\ f # "preset"
                    /\ f \in TextFields => env[f] # ""
                    /\ f \in Numbers => env[f] >= 0
    IN  Over([f \in {g \in DOMAIN env : takes(g)} |-> env[f]], preset)

\* What a command starts with, and what every reload of the watcher gives.
Effective(file, env) == LoadFromEnv(Load(file), env)

-----------------------------------------------------------------------------
(* Tenants and overlays                                                    *)

\* cloneConfig leaves these out.
NotCloned == {"ai.base_url", "ai.api_key", "vector.model_dir", "vector.model_download_url", "vector.model_sha256"}

Clone(c) == [f \in Fields |-> IF f \in NotCloned THEN Zero(f) ELSE c[f]]

\* Whether an overlay gives a value: zero values do not count.
Given(f, v) == IF f \in Numbers THEN v > 0 ELSE v # Zero(f)

Overlaid(c, over, fields) == [f \in Fields |-> IF f \in fields /\ Given(f, over[f]) THEN over[f] ELSE c[f]]

\* TenantConfig.ToConfig
TenantFields == (Fields \ ContextFields) \ {"preset", "server.mcp_addr", "server.http_addr", "server.auth_token", "server.rate_limit"}
ToConfig(tenant, base) == Overlaid(Clone(base), tenant, TenantFields)

\* Merge, which does not know the fields of Context
Merge(base, over) ==
    LET merged == Overlaid(Clone(base), over, Fields \ (ContextFields \cup {"preset"}))
    IN  IF over.preset \in Presets \ {""} THEN ApplyPreset([merged EXCEPT !.preset = over.preset]) ELSE merged

-----------------------------------------------------------------------------
(* Validate: the fields it complains about                                 *)

Drivers == {"file", "sqlite", "pg", "postgres"}
Positive == {"scanner.workers", "scanner.file_size_limit_mb", "scanner.line_count_limit", "watcher.debounce_ms", "watcher.batch_size"}

Validate(c) ==
    {f \in {"project.root", "storage.dsn"} : c[f] = ""}
    \cup {f \in {"preset"} : c[f] \notin Presets}
    \cup {f \in {"storage.driver"} : c[f] \notin Drivers}
    \cup {f \in {"server.mcp_addr"} : c[f] = "" /\ c["server.http_addr"] = ""}
    \cup {f \in Positive : c[f] <= 0}
    \cup {f \in {"ai.budget_per_scan", "ai.budget_per_query"} : c[f] < 0}

-----------------------------------------------------------------------------
(* What is promised of them                                                *)

\* What both forms of a file can say, they say alike: a field that JSON knows,
\* with a value that is not empty.
FormsAgree(given) ==
    (\A f \in DOMAIN given : f \in JsonFields /\ (f \in Flags \/ Given(f, given[f])))
    => Load([form |-> "json", given |-> given]) = Load([form |-> "yaml", given |-> given])

\* What the environment sets is in force, whatever file and presets say; what
\* only the file sets is, unless a preset manages it.
EnvironmentWins(file, env) ==
    LET c == Effective(file, env)
    IN  /\ \A f \in DOMAIN env : f # "preset" /\ (f \in Flags \/ Given(f, env[f])) => c[f] = env[f]
        /\ file.form = "yaml" => \A f \in DOMAIN file.given \ (DOMAIN env \cup {"preset"}) :
              c[f] = file.given[f] \/ f \in DOMAIN Managed(c.preset) \/ f \in DOMAIN Managed(Load(file).preset)

\* An overlay on a sound configuration leaves it sound, as does a tenant's, when
\* the driver they name exists.
StaysValid(base, over) ==
    Validate(base) = {} /\ over["storage.driver"] \in Drivers \cup {""} =>
        /\ Validate(ToConfig(over, base)) = {}
        /\ Validate(Merge(base, over)) = {}

\* A tenant has what it sets itself, and of the rest what the base has, but for
\* what is not cloned; laying it over once more changes nothing.
TenantTakes(tenant, base) ==
    LET c == ToConfig(tenant, base)
    IN  /\ \A f \in Fields \ NotCloned :
              c[f] = (IF f \in TenantFields /\ Given(f, tenant[f]) THEN tenant[f] ELSE base[f])
        /\ ToConfig(tenant, c) = c
        /\ Merge(Merge(base, tenant), tenant) = Merge(base, tenant)

\* Claimed at config.go:75: what a tenant does not set it takes from the base.
TenantInherits(tenant, base) ==
    \A f \in TenantFields : ~Given(f, tenant[f]) => ToConfig(tenant, base)[f] = base[f]
=============================================================================
