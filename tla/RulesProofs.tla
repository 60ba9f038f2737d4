----------------------------- MODULE RulesProofs -----------------------------
(***************************************************************************)
(* What the rules of Rules promise, for every set of inputs of the types   *)
(* that the program's inputs have.                                         *)
(***************************************************************************)
EXTENDS Rules, SublistProofs, FiniteSetTheorems, TLAPS

(* Settings *)

\* The fields that the code treats by name, and how.
LEMMA FieldFacts ==
    /\ TextFields \cap Numbers = {} /\ TextFields \cap Flags = {} /\ Numbers \cap Flags = {}
    /\ "preset" \in TextFields \ (ContextFields \cup NotCloned \cup TenantFields)
    /\ "server.rate_limit" \in Numbers
    /\ NotCloned \subseteq TenantFields
    /\ TenantFields \subseteq Fields
    /\ {"project.root", "storage.dsn", "storage.driver"} \subseteq TextFields \cap TenantFields
    /\ Positive \cup {"ai.budget_per_scan", "ai.budget_per_query"} \subseteq Numbers \cap TenantFields
    /\ {"server.mcp_addr", "server.http_addr"} \subseteq TextFields \ (ContextFields \cup NotCloned \cup TenantFields)
    /\ "search.fts" \in Flags /\ "" \notin Drivers
    /\ {"preset", "project.root", "storage.dsn", "storage.driver", "server.mcp_addr", "server.http_addr"} \cap NotCloned = {}
    /\ (Positive \cup {"ai.budget_per_scan", "ai.budget_per_query"}) \cap NotCloned = {}
<1>1. /\ TextFields \cap Numbers = {} /\ TextFields \cap Flags = {} /\ Numbers \cap Flags = {}
  BY DEF TextFields, Numbers, Flags
<1>2. "" \notin Drivers
  BY DEF Drivers
<1>3. "preset" \in TextFields \ (ContextFields \cup NotCloned \cup TenantFields) /\ "server.rate_limit" \in Numbers
  BY DEF TextFields, Numbers, ContextFields, NotCloned, TenantFields
<1>4. NotCloned \subseteq Fields /\ \A f \in NotCloned : f \notin ContextFields
  BY DEF NotCloned, Fields, TextFields, ContextFields
<1>5. NotCloned \subseteq TenantFields /\ TenantFields \subseteq Fields
  BY <1>4 DEF TenantFields, NotCloned
<1>6. {"project.root", "storage.dsn", "storage.driver"} \subseteq TextFields \cap TenantFields
  BY DEF TextFields, TenantFields, ContextFields, Fields
<1>7. Positive \cup {"ai.budget_per_scan", "ai.budget_per_query"} \subseteq Numbers \cap TenantFields
  BY DEF Positive, Numbers, TenantFields, ContextFields, Fields
<1>8. {"server.mcp_addr", "server.http_addr"} \subseteq TextFields \ (ContextFields \cup NotCloned \cup TenantFields)
  BY DEF TextFields, TenantFields, ContextFields, Fields, NotCloned
<1>9. /\ {"preset", "project.root", "storage.dsn", "storage.driver", "server.mcp_addr", "server.http_addr"} \cap NotCloned = {}
      /\ (Positive \cup {"ai.budget_per_scan", "ai.budget_per_query"}) \cap NotCloned = {}
  BY DEF NotCloned, Positive
<1>10. "search.fts" \in Flags
  BY DEF Flags
<1> QED
  BY <1>1, <1>2, <1>3, <1>4, <1>5, <1>6, <1>7, <1>8, <1>9, <1>10

\* A value of a field is of its kind, and its zero value is.
LEMMA KindFacts ==
    ASSUME NEW f \in Fields, NEW v \in Kind(f)
    PROVE  /\ f \in TextFields => v \in STRING /\ Zero(f) = ""
           /\ f \in Numbers => v \in Int /\ Zero(f) = 0
           /\ f \in Flags => v \in BOOLEAN /\ Zero(f) = FALSE
           /\ f \notin TextFields \cup Numbers \cup Flags => Zero(f) = {}
  BY FieldFacts DEF Kind, Zero

\* What a preset sets: no text but vector.driver, and no number to less than zero.
LEMMA ManagedFacts ==
    ASSUME NEW p
    PROVE  /\ DOMAIN Managed(p) \subseteq Fields \ (NotCloned \cup ContextFields \cup Positive)
           /\ {"preset", "project.root", "storage.dsn", "storage.driver", "server.mcp_addr", "server.http_addr"} \cap DOMAIN Managed(p) = {}
           /\ p \notin Presets \ {""} => DOMAIN Managed(p) = {}
           /\ \A f \in DOMAIN Managed(p) \cap {"ai.budget_per_scan", "ai.budget_per_query"} : Managed(p)[f] = 0
<1>1. CASE p = "minimal"
  <2>1. Managed(p) = [f \in {"search.semantic", "search.fts", "vector.driver", "ai.budget_per_scan", "ai.budget_per_query"} |->
                         IF f = "search.fts" THEN TRUE ELSE Zero(f)]
    BY <1>1 DEF Managed
  <2>2. DOMAIN Managed(p) = {"search.semantic", "search.fts", "vector.driver", "ai.budget_per_scan", "ai.budget_per_query"}
    BY <2>1
  <2>3. DOMAIN Managed(p) \subseteq Fields \ (NotCloned \cup ContextFields \cup Positive)
    BY <2>2 DEF Fields, TextFields, Numbers, Flags, NotCloned, ContextFields, Positive
  <2>4. Zero("ai.budget_per_scan") = 0 /\ Zero("ai.budget_per_query") = 0
    BY DEF Zero, TextFields, Numbers
  <2> QED
    BY <1>1, <2>1, <2>2, <2>3, <2>4 DEF Presets
<1>2. CASE p = "semantic"
  <2>1. Managed(p) = [f \in {"search.fts", "search.semantic"} |-> TRUE]
    BY <1>2 DEF Managed
  <2> QED
    BY <1>2, <2>1 DEF Fields, Flags, NotCloned, ContextFields, Positive, Presets
<1>3. CASE p = "multitenant"
  <2>1. Managed(p) = [f \in {"search.fts", "search.semantic", "watcher.enabled"} |-> TRUE]
    BY <1>3 DEF Managed
  <2> QED
    BY <1>3, <2>1 DEF Fields, Flags, NotCloned, ContextFields, Positive, Presets
<1>4. CASE p \notin {"minimal", "semantic", "multitenant"}
  <2>1. Managed(p) = [f \in {} |-> Zero(f)]
    BY <1>4 DEF Managed
  <2>2. DOMAIN Managed(p) = {}
    BY <2>1
  <2> QED
    BY <2>2
<1> QED
  BY <1>1, <1>2, <1>3, <1>4

\* Over gives a field its new value, or leaves it.
LEMMA OverFacts ==
    ASSUME NEW v, NEW c
    PROVE  /\ DOMAIN Over(v, c) = Fields /\ Over(v, c) = [f \in Fields |-> Over(v, c)[f]]
           /\ \A f \in Fields : Over(v, c)[f] = IF f \in DOMAIN v THEN v[f] ELSE c[f]
  BY DEF Over

\* A preset is no field that it sets.
LEMMA PresetStays ==
    ASSUME NEW c
    PROVE  /\ DOMAIN ApplyPreset(c) = Fields
           /\ ApplyPreset(c).preset = c.preset
           /\ \A f \in Fields : ApplyPreset(c)[f] = IF f \in DOMAIN Managed(c.preset) THEN Managed(c.preset)[f] ELSE c[f]
<1>1. "preset" \in Fields /\ "preset" \notin DOMAIN Managed(c.preset)
  BY ManagedFacts, FieldFacts DEF Fields
<1> QED
  BY <1>1, OverFacts DEF ApplyPreset

\* What JSON can say and is not empty is taken from either form.
LEMMA FormsAlike == ASSUME NEW given, AreSettings(given) PROVE FormsAgree(given)
<1> SUFFICES ASSUME \A f \in DOMAIN given : f \in JsonFields /\ (f \in Flags \/ Given(f, given[f]))
             PROVE  Load([form |-> "json", given |-> given]) = Load([form |-> "yaml", given |-> given])
  BY DEF FormsAgree
<1>1. \A f \in DOMAIN given : f \in Fields /\ given[f] \in Kind(f)
  BY DEF AreSettings
<1>2. DefaultConfig.preset = ""
  BY ConfigurationAssumption
<1>3. ASSUME NEW f \in DOMAIN given, f # "preset" PROVE JsonTakes(f, given[f])
  <2>1. f \in JsonFields /\ (f \in Flags \/ Given(f, given[f])) /\ f \in Fields /\ given[f] \in Kind(f)
    BY <1>1
  <2>2. given[f] # Zero(f) \/ f \in JsonEmptyToo
    BY <2>1, KindFacts DEF Given, JsonEmptyToo
  <2>3. f = "server.rate_limit" => given[f] >= 0
    <3> SUFFICES ASSUME f = "server.rate_limit" PROVE given[f] >= 0
      OBVIOUS
    <3>1. f \in Numbers /\ f \notin Flags
      BY FieldFacts
    <3>2. given[f] \in Int /\ given[f] > 0
      BY <2>1, <3>1, KindFacts DEF Given
    <3> QED
      BY <3>2
  <2> QED
    BY <1>3, <2>1, <2>2, <2>3 DEF JsonTakes
<1>4. "preset" \in DOMAIN given /\ given.preset \in Presets => JsonTakes("preset", given.preset)
  <2> SUFFICES ASSUME "preset" \in DOMAIN given, given.preset \in Presets PROVE JsonTakes("preset", given.preset)
    OBVIOUS
  <2>1. "preset" \in JsonFields /\ Given("preset", given.preset)
    BY FieldFacts
  <2>2. given.preset # Zero("preset")
    BY <2>1, FieldFacts DEF Given
  <2> QED
    BY <2>1, <2>2 DEF JsonTakes
<1>5. "preset" \in DOMAIN given /\ given.preset \notin Presets => ~JsonTakes("preset", given.preset)
  BY DEF JsonTakes
<1> DEFINE taken == {g \in DOMAIN given : JsonTakes(g, given[g])}
           json == FromJson(given)
           yaml == FromYaml(given)
<1>6. \A f \in Fields : json[f] = IF f \in taken THEN given[f] ELSE DefaultConfig[f]
  BY OverFacts DEF FromJson
<1>7. \A f \in Fields : yaml[f] = IF f \in DOMAIN given THEN given[f] ELSE DefaultConfig[f]
  BY OverFacts DEF FromYaml
<1>8. json = [f \in Fields |-> json[f]] /\ yaml = [f \in Fields |-> yaml[f]]
  BY OverFacts DEF FromJson, FromYaml
<1>9. \A f \in Fields : f # "preset" => json[f] = yaml[f]
  BY <1>3, <1>6, <1>7
<1>10. "preset" \in Fields
  BY FieldFacts DEF Fields
<1>11. "preset" \in DOMAIN given => ("preset" \in taken <=> given.preset \in Presets)
  BY <1>4, <1>5
<1>12. "" \in Presets
  BY DEF Presets
<1> DEFINE known(read) == IF read.preset \in Presets THEN read ELSE [read EXCEPT !.preset = ""]
<1>13. known(json) = known(yaml)
  <2> HIDE DEF json, yaml, taken
  <2>1. CASE "preset" \in DOMAIN given /\ given.preset \notin Presets
    <3>1. json.preset = "" /\ yaml.preset = given.preset
      BY <1>2, <1>6, <1>7, <1>10, <1>11, <2>1
    <3>2. known(json) = json /\ known(yaml) = [yaml EXCEPT !.preset = ""]
      BY <1>12, <2>1, <3>1
    <3>3. [yaml EXCEPT !.preset = ""] = [f \in Fields |-> IF f = "preset" THEN "" ELSE yaml[f]]
      BY <1>8
    <3>4. \A f \in Fields : json[f] = IF f = "preset" THEN "" ELSE yaml[f]
      BY <1>9, <3>1
    <3> QED
      BY <1>8, <3>2, <3>3, <3>4
  <2>2. CASE ~("preset" \in DOMAIN given /\ given.preset \notin Presets)
    <3>1. json.preset = yaml.preset
      BY <1>6, <1>7, <1>10, <1>11, <2>2
         DEF taken
    <3>2. json = yaml
      BY <1>8, <1>9, <3>1
    <3> QED
      BY <3>2
  <2> QED
    BY <2>1, <2>2
<1>14. /\ Load([form |-> "json", given |-> given]) = ApplyPreset(known(json))
       /\ Load([form |-> "yaml", given |-> given]) = ApplyPreset(known(yaml))
  BY DEF Load
<1> HIDE DEF json, yaml, known
<1> QED
  BY <1>13, <1>14

\* What the environment sets is taken last, and so is what the file sets when no
\* preset of either manages it.
LEMMA EnvironmentLast ==
    ASSUME NEW file, NEW env, AreSettings(env), file.form = "yaml" => AreSettings(file.given)
    PROVE  EnvironmentWins(file, env)
<1> DEFINE L == Load(file)
           takes(f) == f # "preset" /\ (f \in TextFields => env[f] # "") /\ (f \in Numbers => env[f] >= 0)
           taken == [f \in {g \in DOMAIN env : takes(g)} |-> env[f]]
           set == "preset" \in DOMAIN env /\ env.preset \in Presets \ {""}
           P == IF set THEN ApplyPreset([L EXCEPT !.preset = env.preset]) ELSE L
           c == Effective(file, env)
<1>1. c = Over(taken, P)
  BY DEF Effective, LoadFromEnv
<1>2. DOMAIN taken = {g \in DOMAIN env : takes(g)}
  OBVIOUS
<1>9. \A f \in DOMAIN taken : taken[f] = env[f]
  OBVIOUS
<1>3. \A f \in Fields : c[f] = IF f \in DOMAIN taken THEN env[f] ELSE P[f]
  <2> HIDE DEF taken, P, c
  <2> QED
    BY <1>1, <1>9, OverFacts
<1>4. "preset" \in Fields
  BY FieldFacts DEF Fields
<1>5. \A f \in DOMAIN env : f \in Fields /\ env[f] \in Kind(f)
  BY DEF AreSettings
<1>6. ASSUME NEW f \in DOMAIN env, f # "preset", f \in Flags \/ Given(f, env[f]) PROVE c[f] = env[f]
  <2>1. f \in TextFields => f \notin Numbers /\ f \notin Flags /\ Zero(f) = ""
    BY <1>5, KindFacts, FieldFacts
  <2>2. f \in Numbers => f \notin Flags /\ env[f] \in Int
    BY <1>5, KindFacts, FieldFacts
  <2>3. f \in TextFields => env[f] # ""
    BY <1>6, <2>1 DEF Given
  <2>4. f \in Numbers => env[f] >= 0
    BY <1>6, <2>2 DEF Given
  <2>5. takes(f)
    BY <1>6, <2>3, <2>4
  <2> QED
    BY <1>2, <1>3, <1>5, <2>5
<1>7. c.preset = P.preset
  BY <1>2, <1>3, <1>4
<1>8. ASSUME file.form = "yaml", NEW f \in DOMAIN file.given \ (DOMAIN env \cup {"preset"})
      PROVE  c[f] = file.given[f] \/ f \in DOMAIN Managed(c.preset) \/ f \in DOMAIN Managed(L.preset)
  <2> DEFINE yaml == FromYaml(file.given)
             known == IF yaml.preset \in Presets THEN yaml ELSE [yaml EXCEPT !.preset = ""]
  <2>1. f \in Fields
    BY <1>8 DEF AreSettings
  <2>2. L = ApplyPreset(known)
    BY <1>8 DEF Load
  <2>3. yaml[f] = file.given[f] /\ yaml = [g \in Fields |-> yaml[g]]
    BY <2>1, OverFacts DEF FromYaml
  <2>4. known[f] = file.given[f]
    <3> HIDE DEF yaml
    <3> QED
      BY <1>8, <2>1, <2>3
  <2>5. L.preset = known.preset /\ DOMAIN L = Fields
        /\ L[f] = IF f \in DOMAIN Managed(known.preset) THEN Managed(known.preset)[f] ELSE known[f]
    <3> HIDE DEF known
    <3> QED
      BY <2>1, <2>2, PresetStays
  <2>6. L[f] = file.given[f] \/ f \in DOMAIN Managed(L.preset)
    BY <2>4, <2>5
  <2>7. c[f] = P[f]
    <3> HIDE DEF P
    <3> QED
      BY <1>2, <1>3, <1>8, <2>1
  <2> HIDE DEF L, c
  <2>8. CASE set
    <3> DEFINE M == [L EXCEPT !.preset = env.preset]
    <3>1. M[f] = L[f]
      BY <1>8, <2>1, <2>5
    <3>2. P = ApplyPreset(M)
      BY <2>8
    <3> HIDE DEF P, M
    <3>3. P.preset = M.preset /\ P[f] = IF f \in DOMAIN Managed(M.preset) THEN Managed(M.preset)[f] ELSE M[f]
      BY <2>1, <3>2, PresetStays
    <3> QED
      BY <1>7, <2>6, <2>7, <3>1, <3>3
  <2>9. CASE ~set
    <3>1. P = L
      BY <2>9
    <3> QED
      BY <2>6, <2>7, <3>1
  <2> QED
    BY <2>8, <2>9
<1> QED
  BY <1>6, <1>8 DEF EnvironmentWins

\* Clone keeps what it knows.
LEMMA OverlaidFacts ==
    ASSUME NEW c, NEW o, NEW fields
    PROVE  /\ DOMAIN Overlaid(c, o, fields) = Fields /\ Overlaid(c, o, fields) = [f \in Fields |-> Overlaid(c, o, fields)[f]]
           /\ \A f \in Fields : Overlaid(c, o, fields)[f] = IF f \in fields /\ Given(f, o[f]) THEN o[f] ELSE c[f]
           /\ DOMAIN Clone(c) = Fields
           /\ \A f \in Fields : Clone(c)[f] = IF f \in NotCloned THEN Zero(f) ELSE c[f]
  BY DEF Overlaid, Clone

\* A tenant's configuration, field by field.
LEMMA TenantFacts ==
    ASSUME NEW tenant, NEW base
    PROVE  /\ ToConfig(tenant, base) = [f \in Fields |-> ToConfig(tenant, base)[f]]
           /\ \A f \in Fields : ToConfig(tenant, base)[f] =
                IF f \in TenantFields /\ Given(f, tenant[f]) THEN tenant[f] ELSE IF f \in NotCloned THEN Zero(f) ELSE base[f]
<1>1. \A f \in Fields : Clone(base)[f] = IF f \in NotCloned THEN Zero(f) ELSE base[f]
  BY OverlaidFacts
<1> QED
  BY <1>1, OverlaidFacts DEF ToConfig

\* An overlay's: as a tenant's, and the preset's fields last.
MergeFields == Fields \ (ContextFields \cup {"preset"})

LEMMA MergeFacts ==
    ASSUME NEW base, NEW over
    PROVE  /\ Merge(base, over) = [f \in Fields |-> Merge(base, over)[f]]
           /\ \A f \in Fields : Merge(base, over)[f] =
                IF over.preset \in Presets \ {""} /\ f = "preset" THEN over.preset
                ELSE IF over.preset \in Presets \ {""} /\ f \in DOMAIN Managed(over.preset) THEN Managed(over.preset)[f]
                ELSE IF f \in MergeFields /\ Given(f, over[f]) THEN over[f]
                ELSE IF f \in NotCloned THEN Zero(f) ELSE base[f]
<1> DEFINE merged == Overlaid(Clone(base), over, MergeFields)
           M == [merged EXCEPT !.preset = over.preset]
           valid == over.preset \in Presets \ {""}
<1>1. \A f \in Fields : Clone(base)[f] = IF f \in NotCloned THEN Zero(f) ELSE base[f]
  BY OverlaidFacts
<1>2. /\ merged = [f \in Fields |-> merged[f]]
      /\ \A f \in Fields : merged[f] = IF f \in MergeFields /\ Given(f, over[f]) THEN over[f]
                                       ELSE IF f \in NotCloned THEN Zero(f) ELSE base[f]
  BY <1>1, OverlaidFacts
<1>3. Merge(base, over) = IF valid THEN ApplyPreset(M) ELSE merged
  BY DEF Merge, MergeFields
<1> HIDE DEF merged
<1>4. "preset" \in Fields /\ "preset" \notin DOMAIN Managed(over.preset)
  BY FieldFacts, ManagedFacts DEF Fields
<1>5. M.preset = over.preset /\ \A f \in Fields : f # "preset" => M[f] = merged[f]
  BY <1>2, <1>4
<1> HIDE DEF M
<1>6. CASE valid
  <2>1. /\ DOMAIN ApplyPreset(M) = Fields /\ ApplyPreset(M) = [f \in Fields |-> ApplyPreset(M)[f]]
        /\ ApplyPreset(M).preset = M.preset
        /\ \A f \in Fields : ApplyPreset(M)[f] = IF f \in DOMAIN Managed(M.preset) THEN Managed(M.preset)[f] ELSE M[f]
    BY PresetStays, OverFacts DEF ApplyPreset
  <2>2. Merge(base, over) = ApplyPreset(M)
    BY <1>3, <1>6
  <2>3. Merge(base, over) = [f \in Fields |-> Merge(base, over)[f]]
    BY <2>1, <2>2
  <2>4. ASSUME NEW f \in Fields, f # "preset"
        PROVE  Merge(base, over)[f] = IF f \in DOMAIN Managed(over.preset) THEN Managed(over.preset)[f] ELSE merged[f]
    BY <1>5, <2>1, <2>2, <2>4
  <2>5. Merge(base, over)["preset"] = over.preset
    BY <1>5, <2>1, <2>2
  <2> QED
    BY <1>2, <1>6, <2>3, <2>4, <2>5
<1>7. CASE ~valid
  BY <1>2, <1>3, <1>7
<1> QED
  BY <1>6, <1>7

\* Nothing to complain about.
IsValid(c) ==
    /\ c["project.root"] # "" /\ c["storage.dsn"] # ""
    /\ c["preset"] \in Presets /\ c["storage.driver"] \in Drivers
    /\ ~(c["server.mcp_addr"] = "" /\ c["server.http_addr"] = "")
    /\ \A f \in Positive : ~(c[f] <= 0)
    /\ ~(c["ai.budget_per_scan"] < 0) /\ ~(c["ai.budget_per_query"] < 0)

LEMMA ValidateFacts == ASSUME NEW c PROVE Validate(c) = {} <=> IsValid(c)
<1> DEFINE A == {f \in {"project.root", "storage.dsn"} : c[f] = ""}
           B == {f \in {"preset"} : c[f] \notin Presets}
           C == {f \in {"storage.driver"} : c[f] \notin Drivers}
           D == {f \in {"server.mcp_addr"} : c[f] = "" /\ c["server.http_addr"] = ""}
           E == {f \in Positive : c[f] <= 0}
           F == {f \in {"ai.budget_per_scan", "ai.budget_per_query"} : c[f] < 0}
<1>1. Validate(c) = {} <=> A = {} /\ B = {} /\ C = {} /\ D = {} /\ E = {} /\ F = {}
  <2>1. Validate(c) = A \cup B \cup C \cup D \cup E \cup F
    BY DEF Validate
  <2> HIDE DEF A, B, C, D, E, F
  <2> QED
    BY <2>1
<1>2. A = {} <=> c["project.root"] # "" /\ c["storage.dsn"] # ""
  OBVIOUS
<1>3. B = {} <=> c["preset"] \in Presets
  OBVIOUS
<1>4. C = {} <=> c["storage.driver"] \in Drivers
  OBVIOUS
<1>5. D = {} <=> ~(c["server.mcp_addr"] = "" /\ c["server.http_addr"] = "")
  OBVIOUS
<1>6. E = {} <=> \A f \in Positive : ~(c[f] <= 0)
  OBVIOUS
<1>7. F = {} <=> ~(c["ai.budget_per_scan"] < 0) /\ ~(c["ai.budget_per_query"] < 0)
  OBVIOUS
<1> HIDE DEF A, B, C, D, E, F
<1> QED
  BY <1>1, <1>2, <1>3, <1>4, <1>5, <1>6, <1>7 DEF IsValid

\* What counts as given is valid for a field that has to be valid.
LEMMA GivenFacts ==
    ASSUME NEW f \in Fields, NEW v \in Kind(f), Given(f, v)
    PROVE  /\ f \in TextFields => v # ""
           /\ f \in Numbers => v \in Int /\ v > 0
  BY KindFacts, FieldFacts DEF Given

LEMMA AboveZero == ~(0 < 0) /\ \A v \in Int : v > 0 => ~(v <= 0) /\ ~(v < 0)
  OBVIOUS

\* Fields that are kept or given keep a configuration valid.
LEMMA MixedValid ==
    ASSUME NEW c, NEW base, NEW over, IsConfig(over), IsValid(base), over["storage.driver"] \in Drivers \cup {""},
           \A f \in Positive \cup {"project.root", "storage.dsn", "storage.driver", "server.mcp_addr", "server.http_addr"} :
               c[f] = base[f] \/ (Given(f, over[f]) /\ c[f] = over[f]),
           \A f \in {"ai.budget_per_scan", "ai.budget_per_query"} :
               c[f] = base[f] \/ c[f] = 0 \/ (Given(f, over[f]) /\ c[f] = over[f]),
           c["preset"] \in Presets
    PROVE  IsValid(c)
<1>1. \A f \in Fields : over[f] \in Kind(f)
  BY DEF IsConfig, AreSettings
<1>2. /\ Positive \cup {"ai.budget_per_scan", "ai.budget_per_query"} \subseteq Fields \cap Numbers
      /\ {"project.root", "storage.dsn", "storage.driver", "server.mcp_addr", "server.http_addr"} \subseteq Fields \cap TextFields
  BY FieldFacts DEF Fields
<1>3. c["project.root"] # "" /\ c["storage.dsn"] # ""
  BY <1>1, <1>2, GivenFacts DEF IsValid
<1>4. c["storage.driver"] \in Drivers
  BY <1>1, <1>2, GivenFacts DEF IsValid
<1>5. ~(c["server.mcp_addr"] = "" /\ c["server.http_addr"] = "")
  BY <1>1, <1>2, GivenFacts DEF IsValid
<1>6. ASSUME NEW f \in Positive PROVE ~(c[f] <= 0)
  <2>1. Given(f, over[f]) => over[f] \in Int /\ over[f] > 0
    BY <1>1, <1>2, GivenFacts
  <2>2. Given(f, over[f]) => ~(over[f] <= 0)
    BY <2>1, AboveZero, Zenon
  <2>3. ~(base[f] <= 0)
    BY DEF IsValid
  <2> QED
    BY <2>2, <2>3, Zenon
<1>7. ASSUME NEW f \in {"ai.budget_per_scan", "ai.budget_per_query"} PROVE ~(c[f] < 0)
  <2>1. Given(f, over[f]) => over[f] \in Int /\ over[f] > 0
    BY <1>1, <1>2, GivenFacts
  <2>2. Given(f, over[f]) => ~(over[f] < 0)
    BY <2>1, AboveZero, Zenon
  <2>3. ~(base[f] < 0) /\ ~(0 < 0)
    BY AboveZero, Zenon DEF IsValid
  <2>4. c[f] = base[f] \/ c[f] = 0 \/ (Given(f, over[f]) /\ c[f] = over[f])
    OBVIOUS
  <2> QED
    BY <2>2, <2>3, <2>4, Zenon
<1> QED
  BY <1>3, <1>4, <1>5, <1>6, <1>7 DEF IsValid

\* A tenant and an overlay leave sound settings sound.
LEMMA OverlaysKeepValid == ASSUME NEW base, NEW over, IsConfig(over) PROVE StaysValid(base, over)
<1> SUFFICES ASSUME Validate(base) = {}, over["storage.driver"] \in Drivers \cup {""}
             PROVE  Validate(ToConfig(over, base)) = {} /\ Validate(Merge(base, over)) = {}
  BY DEF StaysValid
<1>1. IsValid(base)
  BY ValidateFacts
<1> DEFINE texts == {"project.root", "storage.dsn", "storage.driver", "server.mcp_addr", "server.http_addr"}
           budgets == {"ai.budget_per_scan", "ai.budget_per_query"}
<1>2. /\ Positive \cup texts \cup budgets \cup {"preset"} \subseteq Fields
      /\ (Positive \cup texts \cup budgets \cup {"preset"}) \cap NotCloned = {}
      /\ "preset" \notin TenantFields /\ "preset" \notin MergeFields
  BY FieldFacts DEF Fields, MergeFields
<1>3. (Positive \cup texts) \cap DOMAIN Managed(over.preset) = {}
  BY ManagedFacts
<1> HIDE DEF texts, budgets
<1>4. IsValid(ToConfig(over, base))
  <2> DEFINE c == ToConfig(over, base)
  <2>1. \A f \in Fields : c[f] =
           IF f \in TenantFields /\ Given(f, over[f]) THEN over[f] ELSE IF f \in NotCloned THEN Zero(f) ELSE base[f]
    BY TenantFacts
  <2> HIDE DEF c
  <2>2. c.preset = base.preset
    BY <1>2, <2>1
  <2>3. \A f \in Positive \cup texts \cup budgets : c[f] = base[f] \/ (Given(f, over[f]) /\ c[f] = over[f])
    BY <1>2, <2>1
  <2>4. IsValid(c)
    BY <1>1, <2>2, <2>3, MixedValid DEF IsValid, texts, budgets
  <2> QED
    BY <2>4 DEF c
<1>5. IsValid(Merge(base, over))
  <2> DEFINE c == Merge(base, over)
  <2>1. \A f \in Fields : c[f] =
                IF over.preset \in Presets \ {""} /\ f = "preset" THEN over.preset
                ELSE IF over.preset \in Presets \ {""} /\ f \in DOMAIN Managed(over.preset) THEN Managed(over.preset)[f]
                ELSE IF f \in MergeFields /\ Given(f, over[f]) THEN over[f]
                ELSE IF f \in NotCloned THEN Zero(f) ELSE base[f]
    BY MergeFacts
  <2> HIDE DEF c
  <2>2. c.preset \in Presets
    BY <1>1, <1>2, <2>1, ManagedFacts DEF IsValid
  <2>3. \A f \in Positive \cup texts : c[f] = base[f] \/ (Given(f, over[f]) /\ c[f] = over[f])
    <3> TAKE f \in Positive \cup texts
    <3>1. f # "preset" /\ f \in Fields /\ f \notin NotCloned /\ f \notin DOMAIN Managed(over.preset)
      <4>1. "preset" \notin Positive \cup texts
        BY DEF Positive, texts
      <4> QED
        BY <1>2, <1>3, <4>1
    <3> QED
      BY <2>1, <3>1
  <2>4. ASSUME NEW f \in budgets
        PROVE  c[f] = base[f] \/ c[f] = 0 \/ (Given(f, over[f]) /\ c[f] = over[f])
    <3>1. f # "preset" /\ f \in Fields /\ f \notin NotCloned
      BY <1>2 DEF budgets
    <3>2. f \in DOMAIN Managed(over.preset) => Managed(over.preset)[f] = 0
      BY ManagedFacts DEF budgets
    <3> QED
      BY <2>1, <3>1, <3>2
  <2>5. IsValid(c)
    BY <1>1, <2>2, <2>3, <2>4, MixedValid DEF IsValid, texts, budgets
  <2> QED
    BY <2>5 DEF c
<1> QED
  BY <1>4, <1>5, ValidateFacts

\* A tenant takes its own and the base's settings, and nothing more the second time.
LEMMA TenantsOwn == ASSUME NEW tenant, NEW base PROVE TenantTakes(tenant, base)
<1> DEFINE c == ToConfig(tenant, base)
           M == Merge(base, tenant)
           Own(x, y) == \A f \in Fields : y[f] =
              IF f \in TenantFields /\ Given(f, tenant[f]) THEN tenant[f] ELSE IF f \in NotCloned THEN Zero(f) ELSE x[f]
           Laid(x, y) == \A f \in Fields : y[f] =
                IF tenant.preset \in Presets \ {""} /\ f = "preset" THEN tenant.preset
                ELSE IF tenant.preset \in Presets \ {""} /\ f \in DOMAIN Managed(tenant.preset) THEN Managed(tenant.preset)[f]
                ELSE IF f \in MergeFields /\ Given(f, tenant[f]) THEN tenant[f]
                ELSE IF f \in NotCloned THEN Zero(f) ELSE x[f]
<1>1. Own(base, c) /\ Own(c, ToConfig(tenant, c)) /\ Laid(base, M) /\ Laid(M, Merge(M, tenant))
  <2>1. \A x : Own(x, ToConfig(tenant, x))
    BY TenantFacts
  <2>2. \A x : Laid(x, Merge(x, tenant))
    BY MergeFacts
  <2> HIDE DEF Own, Laid
  <2> QED
    BY <2>1, <2>2
<1>2. /\ c = [f \in Fields |-> c[f]] /\ ToConfig(tenant, c) = [f \in Fields |-> ToConfig(tenant, c)[f]]
      /\ M = [f \in Fields |-> M[f]] /\ Merge(M, tenant) = [f \in Fields |-> Merge(M, tenant)[f]]
  BY TenantFacts, MergeFacts
<1>3. ASSUME NEW x, NEW y, NEW z, Own(x, y), Own(y, z) PROVE \A f \in Fields : z[f] = y[f]
  BY <1>3
<1>4. ASSUME NEW x, NEW y, NEW z, Laid(x, y), Laid(y, z) PROVE \A f \in Fields : z[f] = y[f]
  BY <1>4
<1>5. \A f \in Fields \ NotCloned : c[f] = (IF f \in TenantFields /\ Given(f, tenant[f]) THEN tenant[f] ELSE base[f])
  BY <1>1
<1> HIDE DEF Own, Laid, c, M
<1>6. ToConfig(tenant, c) = c
  <2>1. \A f \in Fields : ToConfig(tenant, c)[f] = c[f]
    BY <1>1, <1>3
  <2> QED
    BY <1>2, <2>1
<1>7. Merge(M, tenant) = M
  <2>1. \A f \in Fields : Merge(M, tenant)[f] = M[f]
    BY <1>1, <1>4
  <2> QED
    BY <1>2, <2>1
<1> QED
  BY <1>5, <1>6, <1>7 DEF TenantTakes, c, M

-----------------------------------------------------------------------------
(* Tags                                                                    *)

LEMMA FirstTagFacts ==
    ASSUME NEW table, NEW words, \A i \in DOMAIN table : i \in Nat /\ table[i][2] # ""
    PROVE  "" \notin FirstTag(table, words)
<1> DEFINE hits == {i \in DOMAIN table : table[i][1] \in words}
           first == CHOOSE i \in hits : \A j \in hits : i <= j
<1>1. CASE hits = {}
  BY <1>1 DEF FirstTag
<1>2. CASE hits # {}
  <2>1. \E i \in hits : \A j \in hits : i <= j
    <3>1. hits \in SUBSET Nat
      OBVIOUS
    <3> HIDE DEF hits
    <3> QED
      BY <1>2, <3>1, LeastNat
  <2>2. first \in hits
    <3> HIDE DEF hits
    <3> QED
      BY <2>1
  <2>3. FirstTag(table, words) = {table[first][2]}
    BY <1>2 DEF FirstTag
  <2> HIDE DEF first
  <2> QED
    BY <2>2, <2>3
<1> QED
  BY <1>1, <1>2

\* No rule derives the empty tag.
LEMMA RulesTag == ASSUME NEW e, IsEntity(e) PROVE "" \notin RuleTags(e)
<1>1. "" \notin TechTag(e) /\ "" \notin FirstTag(RiskOf, e.words)
  BY FirstTagFacts, TaggingAssumption DEF TechTag
<1>2. "" \notin FirstTag(Todo, e.doc)
  <2>1. \A i \in DOMAIN Todo : i \in Nat /\ Todo[i][2] # ""
    <3>1. DOMAIN Todo = 1 .. 2 /\ Todo[1] = <<"todo", "todo">> /\ Todo[2] = <<"deprecated", "deprecated">>
      BY DEF Todo
    <3>2. Todo[1][2] = "todo" /\ Todo[2][2] = "deprecated"
      BY <3>1
    <3>3. \A i \in 1 .. 2 : i \in Nat /\ (i = 1 \/ i = 2)
      OBVIOUS
    <3>4. Todo[1][2] # "" /\ Todo[2][2] # ""
      BY <3>2
    <3> QED
      BY <3>1, <3>3, <3>4, Zenon
  <2> QED
    BY <2>1, FirstTagFacts
<1>3. "mock" # ""
  OBVIOUS
<1>4. "" \notin LayerTag(e)
  <2> DEFINE parts == {i \in DOMAIN e.path : e.path[i] \in DOMAIN LayerOf}
             first == CHOOSE i \in parts : \A j \in parts : i <= j
  <2>1. CASE parts # {}
    <3>1. parts \in SUBSET Nat
      <4>1. DOMAIN e.path = 1 .. Len(e.path) /\ Len(e.path) \in Nat
        BY ListFacts DEF IsEntity
      <4>2. \A n \in Nat : 1 .. n \subseteq Nat
        OBVIOUS
      <4> QED
        BY <4>1, <4>2, Zenon
    <3>2. first \in parts
      <4> HIDE DEF parts
      <4> QED
        BY <2>1, <3>1, LeastNat
    <3>3. LayerTag(e) = {LayerOf[e.path[first]]}
      BY <2>1 DEF LayerTag
    <3> HIDE DEF first
    <3> QED
      BY <3>2, <3>3, TaggingAssumption
  <2>2. CASE parts = {}
    <3>1. LayerTag(e) = {SuffixLayer[w] : w \in e.words \cap DOMAIN SuffixLayer}
      BY <2>2 DEF LayerTag
    <3> QED
      BY <3>1, TaggingAssumption
  <2> QED
    BY <2>1, <2>2
<1>5. "" \notin BizTag(e)
  <2> DEFINE parts == {i \in DOMAIN e.path : e.path[i] \notin NoBusiness \cup DOMAIN LayerOf}
             last == CHOOSE i \in parts : \A j \in parts : i >= j
  <2>1. CASE parts # {}
    <3>1. Len(e.path) \in Nat /\ parts \in SUBSET (0 .. Len(e.path))
      <4>1. DOMAIN e.path = 1 .. Len(e.path) /\ Len(e.path) \in Nat
        BY ListFacts DEF IsEntity
      <4>2. \A n \in Nat : 1 .. n \subseteq 0 .. n
        OBVIOUS
      <4> QED
        BY <4>1, <4>2, Zenon
    <3>2. \E i \in parts : \A j \in parts : j <= i
      <4> HIDE DEF parts
      <4> QED
        BY <2>1, <3>1, GreatestNat
    <3>3. \A i, j \in parts : j <= i <=> i >= j
      BY <3>1
    <3>4. last \in parts
      <4> HIDE DEF parts
      <4> QED
        BY <3>2, <3>3
    <3>5. BizTag(e) = {e.path[last]}
      BY <2>1 DEF BizTag
    <3> HIDE DEF last
    <3>6. e.path[last] # ""
      BY <3>4, TaggingAssumption
    <3> QED
      BY <3>5, <3>6
  <2>2. CASE parts = {}
    BY <2>2 DEF BizTag
  <2> QED
    BY <2>1, <2>2
<1>6. "" \notin RiskTag(e)
  BY <1>1, <1>2 DEF RiskTag
<1>7. "" \notin TestTag(e) /\ "" \notin e.language
  BY <1>3 DEF TestTag, IsEntity
<1>8. "" \notin ClassTags(e)
  BY <1>1, <1>4, <1>5, <1>6, <1>7 DEF ClassTags
<1>9. "" \notin MethodTags(e)
  BY <1>1, <1>2, <1>3 DEF MethodTags
<1> QED
  BY <1>8, <1>9 DEF RuleTags

\* What the scan keeps of its entities while the model is asked, made of words.
Labels(entities, words) ==
    [tags : [DOMAIN entities -> SUBSET words], docs : [DOMAIN entities -> SUBSET words], calls : Int, asked : Int]

Known(entities, reply, words) == "written" \in words /\ \A e \in DOMAIN entities : reply[e].tags \subseteq words

\* A call of the model is counted.
LEMMA ConsumeFacts ==
    ASSUME NEW entities, NEW words, NEW s \in Labels(entities, words), NEW limit \in Int, NEW failed
    PROVE  LET t == Consume(s, limit, failed)
           IN  /\ t \in Labels(entities, words) /\ t.tags = s.tags /\ t.docs = s.docs /\ t.asked = s.asked + 1
               /\ t.calls = IF limit < 0 THEN s.calls ELSE s.calls + 1
<1> DEFINE b == IF limit < 0 THEN s.calls ELSE s.calls + 1
           c == s.asked + 1
<1>1. s.calls \in Int /\ s.asked \in Int
  BY DEF Labels
<1>2. b \in Int /\ c \in Int
  BY <1>1
<1>3. Consume(s, limit, failed) = [s EXCEPT !.calls = b, !.asked = c]
  BY DEF Consume
<1>4. b = IF limit < 0 THEN s.calls ELSE s.calls + 1
  OBVIOUS
<1>5. c = s.asked + 1
  OBVIOUS
<1> DEFINE T == [DOMAIN entities -> SUBSET words]
<1>7. Labels(entities, words) = [tags : T, docs : T, calls : Int, asked : Int]
  BY DEF Labels
<1>8. s \in [tags : T, docs : T, calls : Int, asked : Int]
  BY <1>7
<1> HIDE DEF b, c, T
<1>6. /\ [s EXCEPT !.calls = b, !.asked = c] \in [tags : T, docs : T, calls : Int, asked : Int]
      /\ [s EXCEPT !.calls = b, !.asked = c].tags = s.tags /\ [s EXCEPT !.calls = b, !.asked = c].docs = s.docs
      /\ [s EXCEPT !.calls = b, !.asked = c].calls = b /\ [s EXCEPT !.calls = b, !.asked = c].asked = c
  BY <1>2, <1>8
<1> QED
  BY <1>7, <1>3, <1>4, <1>5, <1>6, Zenon

\* The model is asked for the tags of one entity, which gain what it answers.
LEMMA TagFacts ==
    ASSUME NEW entities, NEW words, NEW limit \in Int, NEW reply, Known(entities, reply, words),
           NEW e \in DOMAIN entities, NEW s \in Labels(entities, words)
    PROVE  LET t == EnhanceTag(s, e, limit, reply)
           IN  /\ t \in Labels(entities, words) /\ t.docs = s.docs
               /\ limit >= 0 => IF s.calls < limit THEN t.calls = s.calls + 1 /\ t.asked = s.asked + 1
                                ELSE t.calls = s.calls /\ t.asked = s.asked
               /\ \A x \in DOMAIN entities : x # e => t.tags[x] = s.tags[x]
               /\ t.tags[e] = s.tags[e] \/ (~reply[e].fails /\ t.tags[e] = MergeTags(s.tags[e], reply[e].tags))
<1> DEFINE t == EnhanceTag(s, e, limit, reply)
           r == reply[e]
           C == Consume(s, limit, r.fails)
           idle == Remaining(s, limit) <= 0
           D == [C EXCEPT !.tags[e] = MergeTags(@, r.tags)]
<1>1. s.calls \in Int
  BY DEF Labels
<1>2. /\ C \in Labels(entities, words) /\ C.tags = s.tags /\ C.docs = s.docs /\ C.asked = s.asked + 1
      /\ C.calls = IF limit < 0 THEN s.calls ELSE s.calls + 1
  BY ConsumeFacts
<1>3. t = IF idle THEN s ELSE IF r.fails \/ r.tags = {} THEN C ELSE D
  BY DEF EnhanceTag
<1>4. idle <=> limit < 0 \/ ~(s.calls < limit)
  BY <1>1 DEF Remaining
<1>5. r.tags \subseteq words
  BY DEF Known
<1> HIDE DEF C, idle, t
<1>6. /\ D \in Labels(entities, words) /\ D.docs = s.docs /\ D.calls = C.calls /\ D.asked = C.asked
      /\ \A x \in DOMAIN entities : x # e => D.tags[x] = s.tags[x]
      /\ D.tags[e] = MergeTags(s.tags[e], r.tags)
  <2>1. C.tags[e] \in SUBSET words /\ C.tags \in [DOMAIN entities -> SUBSET words]
    BY <1>2 DEF Labels
  <2>2. MergeTags(C.tags[e], r.tags) \in SUBSET words
    BY <1>5, <2>1 DEF MergeTags
  <2> DEFINE m == MergeTags(C.tags[e], r.tags)
             f == [C.tags EXCEPT ![e] = m]
  <2>3. D = [C EXCEPT !.tags = f]
    OBVIOUS
  <2>4. f \in [DOMAIN entities -> SUBSET words] /\ f[e] = m /\ \A x \in DOMAIN entities : x # e => f[x] = C.tags[x]
    <3> HIDE DEF m
    <3> QED
      BY <2>1, <2>2 DEF m
  <2> HIDE DEF f, m, D
  <2>5. D \in Labels(entities, words) /\ D.docs = C.docs /\ D.calls = C.calls /\ D.asked = C.asked /\ D.tags = f
    BY <1>2, <2>3, <2>4 DEF Labels
  <2> QED
    BY <1>2, <2>4, <2>5 DEF m
<1> HIDE DEF D
<1>7. CASE idle
  <2>1. t = s
    BY <1>3, <1>7
  <2> QED
    BY <1>4, <1>7, <2>1 DEF t
<1>8. CASE ~idle
  <2>1. (t = C \/ (~r.fails /\ t = D)) /\ s.calls < limit /\ ~(limit < 0)
    BY <1>3, <1>4, <1>8
  <2>2. t.calls = s.calls + 1 /\ t.asked = s.asked + 1 /\ t \in Labels(entities, words) /\ t.docs = s.docs
    BY <1>2, <1>6, <2>1
  <2>3. /\ \A x \in DOMAIN entities : x # e => t.tags[x] = s.tags[x]
        /\ t.tags[e] = s.tags[e] \/ (~r.fails /\ t.tags[e] = MergeTags(s.tags[e], r.tags))
    BY <1>2, <1>6, <2>1
  <2> QED
    BY <2>1, <2>2, <2>3 DEF t
<1> QED
  BY <1>7, <1>8

\* It is asked for documentation where there is none.
LEMMA DocFacts ==
    ASSUME NEW entities, NEW words, NEW limit \in Int, NEW reply, Known(entities, reply, words), NEW keeps \in BOOLEAN,
           NEW e \in DOMAIN entities, NEW s \in Labels(entities, words)
    PROVE  LET t == EnhanceDoc(s, e, limit, reply, entities, keeps)
               asks == keeps /\ entities[e].doc = {}
           IN  /\ t \in Labels(entities, words) /\ t.tags = s.tags
               /\ limit >= 0 => IF asks /\ s.calls < limit THEN t.calls = s.calls + 1 /\ t.asked = s.asked + 1
                                ELSE t.calls = s.calls /\ t.asked = s.asked
               /\ \A x \in DOMAIN entities : x # e \/ ~asks => t.docs[x] = s.docs[x]
<1> DEFINE t == EnhanceDoc(s, e, limit, reply, entities, keeps)
           asks == keeps /\ entities[e].doc = {}
           r == reply[e]
           C == Consume(s, limit, r.fails)
           idle == Remaining(s, limit) <= 0
           D == [C EXCEPT !.docs[e] = {"written"}]
<1>1. s.calls \in Int
  BY DEF Labels
<1>2. /\ C \in Labels(entities, words) /\ C.tags = s.tags /\ C.docs = s.docs /\ C.asked = s.asked + 1
      /\ C.calls = IF limit < 0 THEN s.calls ELSE s.calls + 1
  BY ConsumeFacts
<1>3. t = IF ~asks \/ idle THEN s ELSE IF r.fails \/ ~r.tells THEN C ELSE D
  BY DEF EnhanceDoc
<1>4. idle <=> limit < 0 \/ ~(s.calls < limit)
  BY <1>1 DEF Remaining
<1>5. "written" \in words
  BY DEF Known
<1> HIDE DEF C, idle, t, asks
<1>6. /\ D \in Labels(entities, words) /\ D.tags = s.tags /\ D.calls = C.calls /\ D.asked = C.asked
      /\ \A x \in DOMAIN entities : x # e => D.docs[x] = s.docs[x]
  BY <1>2, <1>5 DEF Labels
<1> HIDE DEF D
<1>7. CASE ~asks \/ idle
  <2>1. t = s
    BY <1>3, <1>7
  <2> QED
    BY <1>4, <1>7, <2>1 DEF t, asks
<1>8. CASE asks /\ ~idle
  <2>1. (t = C \/ t = D) /\ s.calls < limit /\ ~(limit < 0)
    BY <1>3, <1>4, <1>8
  <2>2. t.calls = s.calls + 1 /\ t.asked = s.asked + 1 /\ t \in Labels(entities, words) /\ t.tags = s.tags
    BY <1>2, <1>6, <2>1
  <2>3. \A x \in DOMAIN entities : x # e => t.docs[x] = s.docs[x]
    BY <1>2, <1>6, <2>1
  <2> QED
    BY <1>8, <2>1, <2>2, <2>3 DEF t, asks
<1> QED
  BY <1>7, <1>8

\* One entity's turn.
Turn(t, n, limit, reply, entities, keeps) == EnhanceDoc(EnhanceTag(t, n, limit, reply), n, limit, reply, entities, keeps)

LEMMA TurnsTaken ==
    ASSUME NEW entities, Len(entities) \in Nat, DOMAIN entities = 1 .. Len(entities), NEW words, NEW limit \in Int,
           NEW reply, Known(entities, reply, words), NEW keeps \in BOOLEAN, NEW s \in Labels(entities, words)
    PROVE  \E f : /\ f[0] = s /\ Enhanced(s, limit, reply, entities, keeps) = f[Len(entities)]
                  /\ \A n \in 1 .. Len(entities) : f[n] = Turn(f[n - 1], n, limit, reply, entities, keeps)
                  /\ \A n \in 0 .. Len(entities) : f[n] \in Labels(entities, words)
<1> DEFINE N == Len(entities)
           V == Labels(entities, words)
           Take(t, n) == Turn(t, n, limit, reply, entities, keeps)
           step == [n \in 1 .. N |-> [t \in V |-> Take(t, n)]]
           Is(f) == f = [n \in 0 .. N |-> IF n = 0 THEN s ELSE Take(f[n - 1], n)]
           taken == CHOOSE f : Is(f)
<1>1. \A n \in 1 .. N : \A t \in V : Take(t, n) \in V
  <2> TAKE n \in 1 .. N
  <2> TAKE t \in V
  <2>1. EnhanceTag(t, n, limit, reply) \in V
    BY TagFacts
  <2> QED
    BY <2>1, DocFacts DEF Turn
<1>2. \A n \in 1 .. N : \A t \in V : step[n][t] = Take(t, n)
  <2> HIDE DEF Take, V
  <2> QED
    OBVIOUS
<1>3. Enhanced(s, limit, reply, entities, keeps) = taken[N]
  BY DEF Enhanced, Turn
<1> HIDE DEF Take, V, step
<1>4. PICK g : IsLoop(N, V, s, step, g)
  <2>1. KeepsTo(N, V, step)
    BY <1>1, <1>2 DEF KeepsTo
  <2>2. N \in Nat /\ s \in V
    BY DEF V
  <2> HIDE DEF N
  <2> QED
    BY <2>1, <2>2, RoundsTyped
<1>5. Is(g)
  <2>0. g \in [0 .. N -> V] /\ g[0] = s /\ \A i \in 1 .. N : g[i] = step[i][g[i - 1]]
    BY <1>4 DEF IsLoop
  <2>1. ASSUME NEW n \in 0 .. N PROVE g[n] = IF n = 0 THEN s ELSE Take(g[n - 1], n)
    <3>1. n # 0 => n \in 1 .. N /\ g[n - 1] \in V
      BY <2>0
    <3> QED
      BY <1>2, <2>0, <3>1
  <2>2. g = [n \in 0 .. N |-> g[n]]
    BY <2>0
  <2> QED
    BY <2>1, <2>2
<1>6. Is(taken)
  <2> HIDE DEF Is
  <2> QED
    BY <1>5
<1>7. \A n \in 0 .. N : taken[n] = IF n = 0 THEN s ELSE Take(taken[n - 1], n)
  <2> HIDE DEF taken
  <2> QED
    BY <1>6, Zenon
<1> HIDE DEF taken
<1> DEFINE S == {n \in 0 .. N : taken[n] \in V}
<1>8. taken[0] = s /\ \A n \in 1 .. N : taken[n] = Take(taken[n - 1], n)
  BY <1>7
<1>9. 0 .. N \subseteq S
  <2>1. 0 \in S
    BY <1>8 DEF V
  <2>2. ASSUME NEW n \in 0 .. N - 1, n \in S PROVE n + 1 \in S
    <3>1. n + 1 \in 1 .. N /\ n + 1 \in 0 .. N /\ (n + 1) - 1 = n
      OBVIOUS
    <3>2. taken[n + 1] = Take(taken[n], n + 1)
      BY <1>8, <3>1
    <3> QED
      BY <1>1, <2>2, <3>1, <3>2
  <2>3. N \in Nat
    OBVIOUS
  <2> HIDE DEF S, N
  <2> QED
    BY <2>1, <2>2, <2>3, UpTo
<1> QED
  BY <1>3, <1>8, <1>9 DEF Take, V

\* What the scan starts from, and the words that it can meet.
Scanned0(entities, tags) ==
    [tags |-> Derived(entities, tags), docs |-> [e \in DOMAIN entities |-> entities[e].doc], calls |-> 0, asked |-> 0]
WordsOf(entities, tags, reply) ==
    (UNION {reply[e].tags : e \in DOMAIN entities})
    \cup (UNION {Derived(entities, tags)[e] : e \in DOMAIN entities})
    \cup (UNION {entities[e].doc : e \in DOMAIN entities}) \cup {"written"}

LEMMA ScanStarts ==
    ASSUME NEW entities, NEW tags, NEW limit, NEW reply, NEW keeps, IsScan(entities, tags, limit, reply, keeps)
    PROVE  /\ Known(entities, reply, WordsOf(entities, tags, reply))
           /\ Scanned0(entities, tags) \in Labels(entities, WordsOf(entities, tags, reply))
           /\ \A e \in DOMAIN entities : "" \notin Derived(entities, tags)[e]
<1> DEFINE U == WordsOf(entities, tags, reply)
           D == Derived(entities, tags)
           docs == [e \in DOMAIN entities |-> entities[e].doc]
<1>1. DOMAIN tags = DOMAIN entities /\ \A e \in DOMAIN tags : "" \notin tags[e] /\ IsEntity(entities[e])
  BY ListFacts DEF IsScan
<1>2. D = [e \in DOMAIN entities |-> D[e]] /\ \A e \in DOMAIN entities : "" \notin D[e]
  BY <1>1, RulesTag DEF Derived
<1>3. Known(entities, reply, U)
  BY DEF Known, WordsOf
<1>4. /\ \A e \in DOMAIN entities : D[e] \in SUBSET U
      /\ \A e \in DOMAIN entities : entities[e].doc \in SUBSET U
  <2> DEFINE A == UNION {D[e] : e \in DOMAIN entities}
             B == UNION {entities[e].doc : e \in DOMAIN entities}
  <2>1. A \subseteq U /\ B \subseteq U
    <3>1. U = (UNION {reply[e].tags : e \in DOMAIN entities}) \cup A \cup B \cup {"written"}
      BY DEF WordsOf
    <3> HIDE DEF A, B, U, D
    <3> QED
      BY <3>1
  <2> HIDE DEF U
  <2>2. \A e \in DOMAIN entities : D[e] \subseteq A
    <3> HIDE DEF D
    <3> QED
      OBVIOUS
  <2>3. \A e \in DOMAIN entities : entities[e].doc \subseteq B
    OBVIOUS
  <2> HIDE DEF A, B, D
  <2> QED
    BY <2>1, <2>2, <2>3
<1>5. docs \in [DOMAIN entities -> SUBSET U]
  BY <1>4
<1>6. D \in [DOMAIN entities -> SUBSET U]
  <2> HIDE DEF D
  <2> QED
    BY <1>2, <1>4
<1> HIDE DEF docs, D, U
<1>7. [tags |-> D, docs |-> docs, calls |-> 0, asked |-> 0] \in Labels(entities, U)
  BY <1>5, <1>6 DEF Labels
<1>8. Scanned0(entities, tags) = [tags |-> D, docs |-> docs, calls |-> 0, asked |-> 0]
  BY DEF Scanned0, D, docs
<1> QED
  BY <1>2, <1>3, <1>7, <1>8 DEF D, U

\* The scan, turn by turn.
IsScanRun(f, entities, tags, limit, reply, keeps) ==
    /\ f[0] = Scanned0(entities, tags) /\ TagAll(entities, tags, TRUE, limit, reply, keeps) = f[Len(entities)]
    /\ \A n \in 1 .. Len(entities) : f[n] = Turn(f[n - 1], n, limit, reply, entities, keeps)
    /\ \A n \in 0 .. Len(entities) : f[n] \in Labels(entities, WordsOf(entities, tags, reply))

LEMMA ScanTurns ==
    ASSUME NEW entities, NEW tags, NEW limit, NEW reply, NEW keeps, IsScan(entities, tags, limit, reply, keeps)
    PROVE  \E f : IsScanRun(f, entities, tags, limit, reply, keeps)
<1> DEFINE s == Scanned0(entities, tags)
<1>1. Len(entities) \in Nat /\ DOMAIN entities = 1 .. Len(entities) /\ limit \in Int /\ keeps \in BOOLEAN
  BY ListFacts DEF IsScan
<1>2. TagAll(entities, tags, TRUE, limit, reply, keeps) = Enhanced(s, limit, reply, entities, keeps)
  BY DEF TagAll, Scanned0
<1>3. Known(entities, reply, WordsOf(entities, tags, reply)) /\ s \in Labels(entities, WordsOf(entities, tags, reply))
  BY ScanStarts
<1> HIDE DEF s
<1>4. \E f : /\ f[0] = s /\ Enhanced(s, limit, reply, entities, keeps) = f[Len(entities)]
             /\ \A n \in 1 .. Len(entities) : f[n] = Turn(f[n - 1], n, limit, reply, entities, keeps)
             /\ \A n \in 0 .. Len(entities) : f[n] \in Labels(entities, WordsOf(entities, tags, reply))
  BY <1>1, <1>3, TurnsTaken
<1> QED
  BY <1>2, <1>4 DEF s, IsScanRun

\* What one turn spends.
Spends(s, t, limit, wants) ==
    /\ t.asked = t.calls
    /\ t.calls = IF s.calls >= limit THEN s.calls ELSE IF s.calls + wants < limit THEN s.calls + wants ELSE limit

LEMMA TurnSpends ==
    ASSUME NEW entities, NEW words, NEW limit \in Nat, NEW reply, Known(entities, reply, words), NEW keeps \in BOOLEAN,
           NEW e \in DOMAIN entities, NEW s \in Labels(entities, words), s.asked = s.calls
    PROVE  Spends(s, Turn(s, e, limit, reply, entities, keeps), limit, IF keeps /\ entities[e].doc = {} THEN 2 ELSE 1)
<1> DEFINE t == Turn(s, e, limit, reply, entities, keeps)
           u == EnhanceTag(s, e, limit, reply)
           asks == keeps /\ entities[e].doc = {}
<1>1. /\ u \in Labels(entities, words)
      /\ IF s.calls < limit THEN u.calls = s.calls + 1 /\ u.asked = s.asked + 1 ELSE u.calls = s.calls /\ u.asked = s.asked
  BY TagFacts
<1>0. t = EnhanceDoc(u, e, limit, reply, entities, keeps)
  BY DEF Turn
<1> HIDE DEF t, u, asks
<1>2. IF asks /\ u.calls < limit THEN t.calls = u.calls + 1 /\ t.asked = u.asked + 1 ELSE t.calls = u.calls /\ t.asked = u.asked
  BY <1>0, <1>1, DocFacts DEF asks
<1>3. s.calls \in Int
  BY DEF Labels
<1>4. /\ t.asked = t.calls
      /\ t.calls = IF s.calls >= limit THEN s.calls
                   ELSE IF s.calls + (IF asks THEN 2 ELSE 1) < limit THEN s.calls + (IF asks THEN 2 ELSE 1) ELSE limit
  BY <1>1, <1>2, <1>3
<1> QED
  BY <1>4 DEF asks, t, Spends

\* The budget of a scan is spent, and no more than it.
LEMMA BudgetSpent ==
    ASSUME NEW entities, NEW tags, NEW limit, NEW reply, NEW keeps, IsScan(entities, tags, limit, reply, keeps)
    PROVE  WithinBudget(entities, tags, limit, reply, keeps)
<1> DEFINE N == Len(entities)
           Silent(n) == {e \in 1 .. n : keeps /\ entities[e].doc = {}}
           Wanted(n) == n + Cardinality(Silent(n))
<1> SUFFICES ASSUME limit >= 0
             PROVE  TagAll(entities, tags, TRUE, limit, reply, keeps).asked = IF Wanted(N) < limit THEN Wanted(N) ELSE limit
  <2>1. (IF keeps THEN {e \in DOMAIN entities : entities[e].doc = {}} ELSE {}) = Silent(N)
    BY ListFacts DEF IsScan
  <2> QED
    BY <2>1 DEF WithinBudget
<1>1. N \in Nat /\ DOMAIN entities = 1 .. N /\ limit \in Nat /\ keeps \in BOOLEAN
  <2>1. N \in Nat /\ DOMAIN entities = 1 .. N /\ limit \in Int /\ keeps \in BOOLEAN
    BY ListFacts DEF IsScan
  <2> HIDE DEF N
  <2> QED
    BY <2>1
<1>0. PICK f : IsScanRun(f, entities, tags, limit, reply, keeps)
  BY ScanTurns
<1>2. /\ f[0] = Scanned0(entities, tags) /\ TagAll(entities, tags, TRUE, limit, reply, keeps) = f[N]
      /\ \A n \in 1 .. N : f[n] = Turn(f[n - 1], n, limit, reply, entities, keeps)
      /\ \A n \in 0 .. N : f[n] \in Labels(entities, WordsOf(entities, tags, reply))
  BY <1>0 DEF IsScanRun
<1>3. Known(entities, reply, WordsOf(entities, tags, reply))
  BY ScanStarts
<1> DEFINE Spent(n) == f[n].asked = f[n].calls /\ f[n].calls = IF Wanted(n) < limit THEN Wanted(n) ELSE limit
           S == {n \in 0 .. N : IsFiniteSet(Silent(n)) /\ Cardinality(Silent(n)) \in Nat /\ Spent(n)}
<1>4. 0 \in S
  <2>1. Silent(0) = {}
    OBVIOUS
  <2>2. IsFiniteSet(Silent(0)) /\ Cardinality(Silent(0)) = 0
    BY <2>1, FS_EmptySet
  <2>3. f[0].asked = 0 /\ f[0].calls = 0
    BY <1>2 DEF Scanned0
  <2> HIDE DEF Silent
  <2> QED
    BY <1>1, <2>2, <2>3
<1>5. ASSUME NEW n \in 0 .. N - 1, n \in S PROVE n + 1 \in S
  <2>1. n + 1 \in 1 .. N /\ n + 1 \in 0 .. N /\ (n + 1) - 1 = n /\ n \in 0 .. N /\ n \in Nat
    BY <1>1
  <2> DEFINE asks == keeps /\ entities[n + 1].doc = {}
             c == Cardinality(Silent(n))
  <2>2. /\ IsFiniteSet(Silent(n + 1))
        /\ Cardinality(Silent(n + 1)) = IF asks THEN c + 1 ELSE c
    <3>1. CASE asks
      <4>1. Silent(n + 1) = Silent(n) \cup {n + 1} /\ n + 1 \notin Silent(n)
        BY <2>1, <3>1
      <4> HIDE DEF Silent
      <4> QED
        BY <1>5, <3>1, <4>1, FS_AddElement
    <3>2. CASE ~asks
      <4>1. Silent(n + 1) = Silent(n)
        BY <2>1, <3>2
      <4> HIDE DEF Silent, asks
      <4> QED
        BY <1>5, <3>2, <4>1
    <3> QED
      BY <3>1, <3>2
  <2>3. f[n] \in Labels(entities, WordsOf(entities, tags, reply)) /\ f[n + 1] = Turn(f[n], n + 1, limit, reply, entities, keeps)
    BY <1>2, <2>1
  <2>4. f[n].asked = f[n].calls /\ f[n].calls = (IF n + c < limit THEN n + c ELSE limit) /\ c \in Nat
    BY <1>5
  <2> DEFINE wants == IF asks THEN 2 ELSE 1
  <2>5. /\ f[n + 1].asked = f[n + 1].calls
        /\ f[n + 1].calls = IF f[n].calls >= limit THEN f[n].calls
                            ELSE IF f[n].calls + wants < limit THEN f[n].calls + wants ELSE limit
    <3> DEFINE g == f[n]
               h == f[n + 1]
               e == n + 1
    <3>1. e \in DOMAIN entities /\ g \in Labels(entities, WordsOf(entities, tags, reply)) /\ g.asked = g.calls
      BY <1>1, <2>1, <2>3, <2>4
    <3>2. h = Turn(g, e, limit, reply, entities, keeps)
      BY <2>3
    <3>3. wants = IF keeps /\ entities[e].doc = {} THEN 2 ELSE 1
      OBVIOUS
    <3> HIDE DEF g, h, e, wants, N
    <3>4. Spends(g, h, limit, wants)
      BY <1>1, <1>3, <3>1, <3>2, <3>3, TurnSpends
    <3> QED
      BY <3>4 DEF g, h, Spends
  <2>6. Cardinality(Silent(n + 1)) \in Nat /\ Wanted(n + 1) = n + c + wants
    <3> HIDE DEF Silent, c, asks
    <3> QED
      BY <2>1, <2>2, <2>4
  <2>7. wants \in {1, 2}
    OBVIOUS
  <2> HIDE DEF c, wants, Wanted, Silent
  <2>8. Spent(n + 1)
    BY <1>1, <2>1, <2>4, <2>5, <2>6, <2>7
  <2> QED
    BY <2>1, <2>2, <2>6, <2>8
<1>6. 0 .. N \subseteq S
  <2> HIDE DEF S, N
  <2> QED
    BY <1>1, <1>4, <1>5, UpTo
<1>7. N \in S
  <2> HIDE DEF S, N
  <2> QED
    BY <1>1, <1>6
<1>8. f[N].asked = IF Wanted(N) < limit THEN Wanted(N) ELSE limit
  BY <1>7
<1> QED
  BY <1>2, <1>8

\* What one turn adds.
Added(s, t, entities, reply) ==
    \A e \in DOMAIN entities :
        /\ t.tags[e] = s.tags[e] \/ (~reply[e].fails /\ t.tags[e] = MergeTags(s.tags[e], reply[e].tags))
        /\ entities[e].doc # {} => t.docs[e] = s.docs[e]

LEMMA TurnAdds ==
    ASSUME NEW entities, NEW words, NEW limit \in Int, NEW reply, Known(entities, reply, words), NEW keeps \in BOOLEAN,
           NEW k \in DOMAIN entities, NEW s \in Labels(entities, words)
    PROVE  Added(s, Turn(s, k, limit, reply, entities, keeps), entities, reply)
<1> DEFINE u == EnhanceTag(s, k, limit, reply)
           t == Turn(s, k, limit, reply, entities, keeps)
<1>0. t = EnhanceDoc(u, k, limit, reply, entities, keeps)
  BY DEF Turn
<1>1. /\ u \in Labels(entities, words) /\ u.docs = s.docs
      /\ \A x \in DOMAIN entities : x # k => u.tags[x] = s.tags[x]
      /\ u.tags[k] = s.tags[k] \/ (~reply[k].fails /\ u.tags[k] = MergeTags(s.tags[k], reply[k].tags))
  BY TagFacts
<1> HIDE DEF u, t
<1>2. /\ t.tags = u.tags
      /\ \A x \in DOMAIN entities : x # k \/ ~(keeps /\ entities[k].doc = {}) => t.docs[x] = u.docs[x]
  BY <1>0, <1>1, DocFacts
<1> QED
  BY <1>1, <1>2 DEF Added, t

\* What the model adds is what it said, and the rest stays.
LEMMA TagsGrow ==
    ASSUME NEW entities, NEW tags, NEW limit, NEW reply, NEW keeps, IsScan(entities, tags, limit, reply, keeps)
    PROVE  ModelOnlyAdds(entities, tags, limit, reply, keeps)
<1> DEFINE N == Len(entities)
           s == Scanned0(entities, tags)
           U == WordsOf(entities, tags, reply)
           said(e) == IF reply[e].fails THEN {} ELSE reply[e].tags
<1>1. N \in Nat /\ DOMAIN entities = 1 .. N /\ limit \in Int /\ keeps \in BOOLEAN
  BY ListFacts DEF IsScan
<1>0. PICK f : IsScanRun(f, entities, tags, limit, reply, keeps)
  BY ScanTurns
<1>2. /\ f[0] = s /\ TagAll(entities, tags, TRUE, limit, reply, keeps) = f[N]
      /\ \A n \in 1 .. N : f[n] = Turn(f[n - 1], n, limit, reply, entities, keeps)
      /\ \A n \in 0 .. N : f[n] \in Labels(entities, U)
  BY <1>0 DEF IsScanRun
<1>3. Known(entities, reply, U) /\ \A e \in DOMAIN entities : "" \notin Derived(entities, tags)[e]
  BY ScanStarts
<1>4. s.tags = Derived(entities, tags) /\ \A e \in DOMAIN entities : s.docs[e] = entities[e].doc
  BY DEF Scanned0
<1>5. TagAll(entities, tags, FALSE, limit, reply, keeps) = s
  BY DEF TagAll, Scanned0
<1> HIDE DEF s, U
<1> DEFINE Grown(n) == \A e \in DOMAIN entities :
                          /\ s.tags[e] \subseteq f[n].tags[e] /\ f[n].tags[e] \ s.tags[e] \subseteq said(e)
                          /\ entities[e].doc # {} => f[n].docs[e] = entities[e].doc
           S == {n \in 0 .. N : Grown(n)}
<1>6. 0 \in S
  BY <1>1, <1>2, <1>4
<1>7. ASSUME NEW n \in 0 .. N - 1, n \in S PROVE n + 1 \in S
  <2>1. n + 1 \in 1 .. N /\ n + 1 \in 0 .. N /\ (n + 1) - 1 = n /\ n \in 0 .. N /\ n + 1 \in DOMAIN entities
    BY <1>1
  <2> DEFINE k == n + 1
             g == f[n]
             t == f[k]
  <2>2. g \in Labels(entities, U) /\ t = Turn(g, k, limit, reply, entities, keeps) /\ k \in DOMAIN entities
    BY <1>2, <2>1
  <2>3. \A e \in DOMAIN entities :
           /\ s.tags[e] \subseteq g.tags[e] /\ g.tags[e] \ s.tags[e] \subseteq said(e)
           /\ entities[e].doc # {} => g.docs[e] = entities[e].doc
    BY <1>7
  <2> HIDE DEF k, g, t
  <2>4. Added(g, t, entities, reply)
    <3>1. limit \in Int /\ keeps \in BOOLEAN /\ Known(entities, reply, U)
      BY <1>1, <1>3
    <3> HIDE DEF N, U, s, S
    <3> QED
      BY <2>2, <3>1, TurnAdds
  <2>6. ASSUME NEW e \in DOMAIN entities
        PROVE  s.tags[e] \subseteq t.tags[e] /\ t.tags[e] \ s.tags[e] \subseteq said(e)
    <3>1. "" \notin s.tags[e]
      BY <1>3, <1>4
    <3> QED
      BY <2>3, <2>4, <3>1 DEF MergeTags, Added
  <2>7. ASSUME NEW e \in DOMAIN entities, entities[e].doc # {} PROVE t.docs[e] = entities[e].doc
    BY <2>3, <2>4, <2>7 DEF Added
  <2>8. Grown(k)
    BY <2>6, <2>7 DEF t
  <2> QED
    BY <2>1, <2>8 DEF k
<1>8. 0 .. N \subseteq S
  <2> HIDE DEF S, N
  <2> QED
    BY <1>1, <1>6, <1>7, UpTo
<1>9. Grown(N)
  BY <1>1, <1>8
<1> QED
  BY <1>2, <1>5, <1>9 DEF ModelOnlyAdds

-----------------------------------------------------------------------------
(* Stores                                                                  *)

LEMMA SeqFacts ==
    ASSUME NEW T, NEW s \in Seq(T)
    PROVE  /\ Len(s) \in Nat /\ DOMAIN s = 1 .. Len(s)
           /\ \A i \in DOMAIN s : s[i] \in ToSet(s) /\ Contains(s, s[i])
           /\ \A k : Contains(s, k) => \E i \in DOMAIN s : s[i] = k
<1>1. Len(s) \in Nat /\ DOMAIN s = 1 .. Len(s)
  OBVIOUS
<1> QED
  BY <1>1 DEF ToSet, Contains

LEMMA MapFacts ==
    ASSUME NEW n \in Nat, NEW f, NEW d, d = 1 .. n, f = [i \in d |-> f[i]]
    PROVE  DOMAIN f = d /\ Len(f) = n /\ \A T : (\A i \in d : f[i] \in T) => f \in Seq(T)
<1>1. f \in [1 .. n -> {f[i] : i \in 1 .. n}]
  OBVIOUS
<1>2. Len(f) = n
  BY <1>1
<1>3. \A T : (\A i \in d : f[i] \in T) => f \in [1 .. n -> T]
  BY <1>1
<1>4. \A T : f \in [1 .. n -> T] => f \in Seq(T)
  OBVIOUS
<1> QED
  BY <1>2, <1>3, <1>4

\* What a store's classes and methods are.
ClassRow(f, c) == [file |-> f, class |-> c]
MethodRow(r, m) == [file |-> r.file, class |-> r.class, method |-> m, full |-> Full(r.class, m)]
ClassesWithin(f) == {ClassRow(f, c) : c \in ToSet(f.classes)}
MethodsWithin(r) == {MethodRow(r, m) : m \in ToSet(r.class.methods)}
ClassRows(st) == UNION {ClassesWithin(f) : f \in ToSet(st)}
MethodRows(st) == UNION {MethodsWithin(r) : r \in ToSet(StoredClasses(st))}

LEMMA ClassesFacts ==
    ASSUME NEW st, IsStore(st)
    PROVE  /\ StoredClasses(st) \in Seq(ClassRows(st))
           /\ \A r \in ToSet(StoredClasses(st)) : r.file \in ToSet(st) /\ IsClass(r.class)
<1> DEFINE fs == Kept(st, {f \in ToSet(st) : ~f.unreadable})
           rows(i) == [j \in DOMAIN fs[i].classes |-> [file |-> fs[i], class |-> fs[i].classes[j]]]
           all == [i \in DOMAIN fs |-> rows(i)]
           T == ClassRows(st)
<1>1. StoredClasses(st) = FlattenSeq(all)
  BY DEF StoredClasses, ClassesInside, Readable
<1>2. fs \in Seq(ToSet(st))
  BY ListFacts, KeptFacts DEF IsStore
<1> HIDE DEF fs
<1>3. Len(fs) \in Nat /\ DOMAIN fs = 1 .. Len(fs) /\ \A i \in DOMAIN fs : fs[i] \in ToSet(st)
  BY <1>2, SeqFacts
<1>4. ASSUME NEW i \in DOMAIN fs PROVE rows(i) \in Seq(T)
  <2> DEFINE f == fs[i]
             row == rows(i)
  <2>1. f \in ToSet(st) /\ IsList(f.classes)
    BY <1>3 DEF IsStore
  <2>2. Len(f.classes) \in Nat /\ DOMAIN f.classes = 1 .. Len(f.classes) /\ \A j \in DOMAIN f.classes : f.classes[j] \in ToSet(f.classes)
    BY <2>1, ListFacts DEF ToSet
  <2>3. row = [j \in DOMAIN f.classes |-> row[j]] /\ \A j \in DOMAIN f.classes : row[j] = ClassRow(f, f.classes[j])
    BY DEF ClassRow
  <2>4. \A j \in DOMAIN f.classes : row[j] \in T
    <3>1. \A c \in ToSet(f.classes) : ClassRow(f, c) \in T
      BY <2>1 DEF ClassRows, ClassesWithin
    <3> HIDE DEF f, row, T
    <3> QED
      BY <2>2, <2>3, <3>1
  <2> HIDE DEF f, row, T
  <2>5. row \in Seq(T)
    BY <2>2, <2>3, <2>4, MapFacts
  <2> QED
    BY <2>5 DEF row
<1>5. all \in Seq(Seq(T))
  <2>1. all = [i \in DOMAIN fs |-> all[i]] /\ \A i \in DOMAIN fs : all[i] \in Seq(T)
    BY <1>4
  <2> HIDE DEF all, T
  <2> QED
    BY <1>3, <2>1, MapFacts
<1>6. FlattenSeq(all) \in Seq(T)
  BY <1>5, FlattenFacts
<1>7. ASSUME NEW r \in ToSet(StoredClasses(st)) PROVE r.file \in ToSet(st) /\ IsClass(r.class)
  <2>1. r \in T
    <3> HIDE DEF all, T
    <3> QED
      BY <1>1, <1>6, <1>7 DEF ToSet
  <2>2a. PICK f \in ToSet(st) : r \in ClassesWithin(f)
    BY <2>1 DEF ClassRows
  <2>2. PICK c \in ToSet(f.classes) : r = ClassRow(f, c)
    BY <2>2a DEF ClassesWithin
  <2>3. IsClass(c)
    BY <2>2 DEF IsStore
  <2>4. r.file = f /\ r.class = c
    BY <2>2 DEF ClassRow
  <2> QED
    BY <2>2, <2>3, <2>4
<1> QED
  BY <1>1, <1>6, <1>7

LEMMA MethodsFacts ==
    ASSUME NEW st, IsStore(st)
    PROVE  /\ StoredMethods(st) \in Seq(MethodRows(st)) /\ ToSet(StoredMethods(st)) = MethodRows(st)
           /\ \A m \in MethodRows(st) : m.file \in ToSet(st) /\ IsClass(m.class) /\ IsSpan(m.method.span) /\ m.full # <<>>
<1> DEFINE cs == StoredClasses(st)
           rows(i) == [j \in DOMAIN cs[i].class.methods |->
                           [file |-> cs[i].file, class |-> cs[i].class, method |-> cs[i].class.methods[j],
                            full |-> Full(cs[i].class, cs[i].class.methods[j])]]
           all == [i \in DOMAIN cs |-> rows(i)]
           T == MethodRows(st)
<1>1. StoredMethods(st) = FlattenSeq(all)
  BY DEF StoredMethods, MethodsInside
<1>2. cs \in Seq(ClassRows(st)) /\ \A r \in ToSet(cs) : r.file \in ToSet(st) /\ IsClass(r.class)
  BY ClassesFacts
<1>3. Len(cs) \in Nat /\ DOMAIN cs = 1 .. Len(cs) /\ (\A i \in DOMAIN cs : cs[i] \in ToSet(cs)) /\ \A r \in ToSet(cs) : \E i \in DOMAIN cs : cs[i] = r
  <2> HIDE DEF cs
  <2>1. \A r \in ToSet(cs) : Contains(cs, r)
    BY <1>2, MemberFacts
  <2> QED
    BY <1>2, <2>1, SeqFacts
<1>4. T = UNION {MethodsWithin(r) : r \in ToSet(cs)}
  BY DEF MethodRows
<1> HIDE DEF cs, T
<1>5. ASSUME NEW i \in DOMAIN cs
      PROVE  rows(i) \in Seq(T) /\ \A x : Contains(rows(i), x) <=> \E m \in ToSet(cs[i].class.methods) : x = MethodRow(cs[i], m)
  <2> DEFINE r == cs[i]
             ms == r.class.methods
             row == rows(i)
  <2>1. r \in ToSet(cs) /\ IsList(ms)
    BY <1>2, <1>3 DEF IsClass
  <2>2. Len(ms) \in Nat /\ DOMAIN ms = 1 .. Len(ms) /\ (\A j \in DOMAIN ms : ms[j] \in ToSet(ms)) /\ \A m \in ToSet(ms) : \E j \in DOMAIN ms : m = ms[j]
    BY <2>1, ListFacts DEF ToSet
  <2>3. row = [j \in DOMAIN ms |-> row[j]] /\ \A j \in DOMAIN ms : row[j] = MethodRow(r, ms[j])
    BY DEF MethodRow
  <2>4. \A m \in ToSet(ms) : MethodRow(r, m) \in T
    BY <1>4, <2>1 DEF MethodsWithin
  <2> HIDE DEF r, ms, row
  <2>5. row \in Seq(T) /\ DOMAIN row = 1 .. Len(ms) /\ Len(row) = Len(ms)
    BY <2>2, <2>3, <2>4, MapFacts
  <2>6. \A x : Contains(row, x) <=> \E j \in DOMAIN ms : x = row[j]
    BY <2>2, <2>5 DEF Contains
  <2>7. \A x : Contains(row, x) <=> \E m \in ToSet(ms) : x = MethodRow(r, m)
    BY <2>2, <2>3, <2>6
  <2> QED
    BY <2>5, <2>7 DEF row, r, ms
<1>6. all \in Seq(Seq(T)) /\ Len(all) = Len(cs) /\ \A i \in DOMAIN cs : all[i] = rows(i)
  <2>1. all = [i \in DOMAIN cs |-> all[i]] /\ (\A i \in DOMAIN cs : all[i] \in Seq(T)) /\ \A i \in DOMAIN cs : all[i] = rows(i)
    BY <1>5
  <2> HIDE DEF all, rows
  <2> QED
    BY <1>3, <2>1, MapFacts
<1> DEFINE flat == FlattenSeq(all)
<1>7. flat \in Seq(T) /\ \A x : Contains(flat, x) <=> \E i \in 1 .. Len(cs) : Contains(all[i], x)
  <2> HIDE DEF all
  <2> QED
    BY <1>6, FlattenFacts
<1> HIDE DEF all, flat
<1>8. \A x : Contains(flat, x) <=> \E i \in DOMAIN cs : \E m \in ToSet(cs[i].class.methods) : x = MethodRow(cs[i], m)
  <2>1. ASSUME NEW i \in DOMAIN cs, NEW x
        PROVE  Contains(all[i], x) <=> \E m \in ToSet(cs[i].class.methods) : x = MethodRow(cs[i], m)
    <3>1. all[i] = rows(i)
      BY <1>6
    <3>2. Contains(rows(i), x) <=> \E m \in ToSet(cs[i].class.methods) : x = MethodRow(cs[i], m)
      BY <1>5
    <3> QED
      BY <3>1, <3>2
  <2>2. 1 .. Len(cs) = DOMAIN cs
    BY <1>3
  <2>3. \A x : Contains(flat, x) <=> \E i \in DOMAIN cs : Contains(all[i], x)
    BY <1>7, <2>2
  <2> QED
    BY <2>1, <2>3, Zenon
<1>9. \A x : x \in ToSet(flat) <=> Contains(flat, x)
  BY <1>7, MemberFacts
<1>10. ToSet(flat) = T
  <2>1. \A x : x \in T <=> \E r \in ToSet(cs) : \E m \in ToSet(r.class.methods) : x = MethodRow(r, m)
    BY <1>4 DEF MethodsWithin
  <2> QED
    BY <1>3, <1>8, <1>9, <2>1
<1>11. ASSUME NEW x \in T PROVE x.file \in ToSet(st) /\ IsClass(x.class) /\ IsSpan(x.method.span) /\ x.full # <<>>
  <2>1. PICK r \in ToSet(cs) : \E m \in ToSet(r.class.methods) : x = MethodRow(r, m)
    BY <1>4, <1>11 DEF MethodsWithin
  <2>2. PICK m \in ToSet(r.class.methods) : x = MethodRow(r, m)
    BY <2>1
  <2>3. x.file = r.file /\ x.class = r.class /\ x.method = m /\ x.full = Append(r.class.name, m.name)
    BY <2>2 DEF MethodRow, Full
  <2>4. r.file \in ToSet(st) /\ IsClass(r.class)
    BY <1>2
  <2>5. IsSpan(m.span) /\ IsList(r.class.name)
    BY <2>2, <2>4 DEF IsClass
  <2> DEFINE a == r.class.name  b == m.name
  <2>6. a \in Seq(ToSet(a) \cup {b})
    BY <2>5, ListFacts
  <2> HIDE DEF a, b
  <2>7. Append(a, b) # <<>>
    <3>1. Len(Append(a, b)) = Len(a) + 1 /\ Len(a) \in Nat
      BY <2>6
    <3> QED
      BY <3>1
  <2> QED
    BY <2>3, <2>4, <2>5, <2>7 DEF a, b
<1> QED
  BY <1>1, <1>7, <1>10, <1>11 DEF flat, T

\* What is named so.
LEMMA NamedFacts ==
    ASSUME NEW st, IsStore(st), NEW n
    PROVE  /\ ClassesNamed(st, n) \in Seq(ClassRows(st)) /\ MethodsNamed(st, n) \in Seq(MethodRows(st))
           /\ \A x : Contains(ClassesNamed(st, n), x) <=> x \in ToSet(StoredClasses(st)) /\ x.class.name = n
           /\ \A x : Contains(MethodsNamed(st, n), x) <=> x \in MethodRows(st) /\ x.full = n
<1>1. StoredClasses(st) \in Seq(ClassRows(st)) /\ \A x : x \in ToSet(StoredClasses(st)) <=> Contains(StoredClasses(st), x)
  BY ClassesFacts, MemberFacts
<1>2. /\ StoredMethods(st) \in Seq(MethodRows(st)) /\ ToSet(StoredMethods(st)) = MethodRows(st)
      /\ \A x : x \in ToSet(StoredMethods(st)) <=> Contains(StoredMethods(st), x)
  BY MethodsFacts, MemberFacts
<1>3. /\ ClassesNamed(st, n) \in Seq(ClassRows(st))
      /\ \A x : Contains(ClassesNamed(st, n), x) <=> x \in ToSet(StoredClasses(st)) /\ x.class.name = n
  BY <1>1, KeptFacts DEF ClassesNamed, ClassesCalled
<1>4. /\ MethodsNamed(st, n) \in Seq(MethodRows(st))
      /\ \A x : Contains(MethodsNamed(st, n), x) <=> x \in MethodRows(st) /\ x.full = n
  BY <1>2, KeptFacts DEF MethodsNamed, MethodsCalled
<1> QED
  BY <1>3, <1>4

-----------------------------------------------------------------------------
(* Requests                                                                *)

\* A list without repetition has as many members as it is long.
LEMMA DistinctCounted ==
    ASSUME NEW T, NEW s \in Seq(T), Distinct(s)
    PROVE  IsFiniteSet(ToSet(s)) /\ Cardinality(ToSet(s)) = Len(s)
<1>1. Len(s) \in Nat /\ DOMAIN s = 1 .. Len(s)
  OBVIOUS
<1>2. s \in Bijection(1 .. Len(s), ToSet(s))
  <2>1. s \in [1 .. Len(s) -> ToSet(s)]
    BY <1>1 DEF ToSet
  <2>2. \A i, j \in 1 .. Len(s) : s[i] = s[j] => i = j
    BY <1>1 DEF Distinct
  <2>3. \A k \in ToSet(s) : \E i \in 1 .. Len(s) : s[i] = k
    BY <1>1 DEF ToSet
  <2> QED
    BY <1>1, <2>1, <2>2, <2>3 DEF Bijection, Injection, IsInjective, Surjection
<1>3. ExistsBijection(1 .. Len(s), ToSet(s))
  BY <1>2 DEF ExistsBijection
<1>4. IsFiniteSet(1 .. Len(s)) /\ Cardinality(1 .. Len(s)) = Len(s)
  BY <1>1, FS_Interval
<1> QED
  BY <1>3, <1>4, FS_Bijection

\* The names of a request, each once.
SymbolOf(v, n) == IF n \in {<<>>, Blank} \/ Contains(v, n) THEN v ELSE Append(v, n)
Args(q) == Append(q.names, q.name)

LEMMA SymbolsTaken ==
    ASSUME NEW q, NEW T, Args(q) \in Seq(T)
    PROVE  \E f : /\ f[0] = <<>> /\ Symbols(q) = f[Len(Args(q))]
                  /\ \A n \in 1 .. Len(Args(q)) : f[n] = SymbolOf(f[n - 1], Args(q)[n])
<1> DEFINE args == Args(q)
           N == Len(args)
           V == Seq(T)
           step == [n \in 1 .. N |-> [v \in V |-> SymbolOf(v, args[n])]]
           Is(f) == f = [n \in 0 .. N |-> IF n = 0 THEN <<>> ELSE SymbolOf(f[n - 1], args[n])]
           taken == CHOOSE f : Is(f)
<1>1. N \in Nat /\ \A n \in 1 .. N : args[n] \in T
  <2> HIDE DEF args
  <2>1. args \in Seq(T)
    BY DEF args
  <2> QED
    BY <2>1
<1>2. Symbols(q) = taken[N]
  BY DEF Symbols, SymbolOf, Args
<1> HIDE DEF args, N
<1>3. \A v \in V : \A n \in 1 .. N : SymbolOf(v, args[n]) \in V
  BY <1>1, AppendFacts DEF SymbolOf
<1>4. <<>> \in V
  OBVIOUS
<1> HIDE DEF V
<1>5. \A n \in 1 .. N : \A v \in V : step[n][v] = SymbolOf(v, args[n])
  OBVIOUS
<1> HIDE DEF step
<1>6. PICK g : IsLoop(N, V, <<>>, step, g)
  <2>1. KeepsTo(N, V, step)
    BY <1>3, <1>5 DEF KeepsTo
  <2> QED
    BY <1>1, <1>4, <2>1, RoundsTyped
<1>7. Is(g)
  <2>0. g \in [0 .. N -> V] /\ g[0] = <<>> /\ \A i \in 1 .. N : g[i] = step[i][g[i - 1]]
    BY <1>6 DEF IsLoop
  <2>1. ASSUME NEW n \in 0 .. N PROVE g[n] = IF n = 0 THEN <<>> ELSE SymbolOf(g[n - 1], args[n])
    <3>1. n # 0 => n \in 1 .. N /\ g[n - 1] \in V
      BY <1>1, <2>0
    <3> QED
      BY <1>5, <2>0, <3>1
  <2>2. g = [n \in 0 .. N |-> g[n]]
    BY <2>0
  <2> QED
    BY <2>1, <2>2
<1>8. Is(taken)
  <2> HIDE DEF Is
  <2> QED
    BY <1>7
<1> HIDE DEF taken
<1>9. \A n \in 0 .. N : taken[n] = IF n = 0 THEN <<>> ELSE SymbolOf(taken[n - 1], args[n])
  BY <1>8, Zenon
<1> HIDE DEF Is
<1>10. 0 \in 0 .. N /\ \A n \in 1 .. N : n \in 0 .. N /\ n # 0
  BY <1>1
<1>11. taken[0] = <<>> /\ \A n \in 1 .. N : taken[n] = SymbolOf(taken[n - 1], args[n])
  BY <1>9, <1>10
<1> QED
  BY <1>2, <1>11 DEF N, args

LEMMA SymbolsFacts ==
    ASSUME NEW q, NEW T, Args(q) \in Seq(T)
    PROVE  /\ Symbols(q) \in Seq(T) /\ Distinct(Symbols(q))
           /\ \A k : Contains(Symbols(q), k) <=> k \notin {<<>>, Blank} /\ Contains(Args(q), k)
<1> DEFINE args == Args(q)
           N == Len(args)
<1>1. PICK f : /\ f[0] = <<>> /\ Symbols(q) = f[N]
               /\ \A n \in 1 .. N : f[n] = SymbolOf(f[n - 1], args[n])
  BY SymbolsTaken
<1>2. N \in Nat /\ \A n \in 1 .. N : args[n] \in T
  <2> HIDE DEF args
  <2>1. args \in Seq(T)
    BY DEF args
  <2> QED
    BY <2>1
<1>3. \A k : Contains(args, k) <=> \E i \in 1 .. N : args[i] = k
  BY DEF Contains
<1> HIDE DEF args, N
<1> DEFINE S == {n \in 0 .. N : /\ f[n] \in Seq(T) /\ Distinct(f[n])
                                /\ \A k : Contains(f[n], k) <=> k \notin {<<>>, Blank} /\ \E i \in 1 .. n : args[i] = k}
<1>4. 0 .. N \subseteq S
  <2>1. 0 \in S
    <3>1. <<>> \in Seq(T) /\ Distinct(<<>>) /\ \A k : ~Contains(<<>>, k)
      BY DEF Distinct, Contains
    <3>2. \A i : i \notin 1 .. 0
      OBVIOUS
    <3>3. \A k : Contains(f[0], k) <=> k \notin {<<>>, Blank} /\ \E i \in 1 .. 0 : args[i] = k
      BY <1>1, <3>1, <3>2
    <3>4. f[0] \in Seq(T) /\ Distinct(f[0])
      BY <1>1, <3>1
    <3>5. 0 \in 0 .. N
      BY <1>2
    <3> QED
      BY <3>3, <3>4, <3>5, Zenon
  <2>2. ASSUME NEW n \in 0 .. N - 1, n \in S PROVE n + 1 \in S
    <3>1. n + 1 \in 1 .. N /\ n + 1 \in 0 .. N /\ (n + 1) - 1 = n /\ \A i : i \in 1 .. n + 1 <=> i \in 1 .. n \/ i = n + 1
      BY <1>2
    <3> DEFINE e == args[n + 1]  v == f[n]  w == f[n + 1]
               Has(x) == \E i \in 1 .. n : args[i] = x
    <3>2. w = SymbolOf(v, e) /\ e \in T
      BY <1>1, <1>2, <3>1
    <3>3. v \in Seq(T) /\ Distinct(v) /\ \A k : Contains(v, k) <=> k \notin {<<>>, Blank} /\ Has(k)
      BY <2>2
    <3>4. \A k : (\E i \in 1 .. n + 1 : args[i] = k) <=> Has(k) \/ k = e
      BY <3>1
    <3> HIDE DEF e, v, w, Has
    <3>5. w \in Seq(T) /\ Distinct(w) /\ \A k : Contains(w, k) <=> k \notin {<<>>, Blank} /\ (Has(k) \/ k = e)
      <4>1. CASE e \in {<<>>, Blank} \/ Contains(v, e)
        <5>1. w = v
          BY <3>2, <4>1 DEF SymbolOf
        <5> QED
          BY <3>3, <4>1, <5>1
      <4>2. CASE ~(e \in {<<>>, Blank} \/ Contains(v, e))
        <5>1. w = Append(v, e)
          BY <3>2, <4>2 DEF SymbolOf
        <5>2. Append(v, e) \in Seq(T) /\ Distinct(Append(v, e)) /\ \A k : Contains(Append(v, e), k) <=> Contains(v, k) \/ k = e
          BY <3>2, <3>3, <4>2, AppendFacts
        <5> QED
          BY <3>3, <4>2, <5>1, <5>2
      <4> QED
        BY <4>1, <4>2
    <3>6. \A k : Contains(w, k) <=> k \notin {<<>>, Blank} /\ \E i \in 1 .. n + 1 : args[i] = k
      BY <3>4, <3>5, Zenon
    <3> QED
      BY <3>1, <3>5, <3>6 DEF w
  <2> HIDE DEF S
  <2> QED
    BY <1>2, <2>1, <2>2, UpTo
<1>5. N \in S
  <2> HIDE DEF S
  <2> QED
    BY <1>2, <1>4
<1> QED
  BY <1>1, <1>3, <1>5 DEF args

\* A request's names are a slice.
LEMMA ArgsListed ==
    ASSUME NEW q, IsRequest(q)
    PROVE  \E T : Args(q) \in Seq(T)
<1> DEFINE T == ToSet(q.names) \cup {q.name}
<1>1. q.names \in Seq(T)
  BY ListFacts DEF IsRequest
<1>2. q.name \in T
  OBVIOUS
<1> HIDE DEF T
<1>3. Append(q.names, q.name) \in Seq(T)
  BY <1>1, <1>2, AppendFacts
<1> QED
  BY <1>3 DEF Args

HasCode(answer) == answer.error # ""

LEMMA ErrorFacts == \A c \in {"ERR_INVALID_PARAMETER", "ERR_SYMBOL_NOT_FOUND"} : HasCode(Error(c))
<1>1. HasCode(Error("ERR_INVALID_PARAMETER"))
  BY DEF Error, HasCode
<1>2. HasCode(Error("ERR_SYMBOL_NOT_FOUND"))
  BY DEF Error, HasCode
<1> QED
  BY <1>1, <1>2

\* What one name is answered fails with a code.
OfNames(c) == c.op \in {"GetContext", "GetImpact", "GetTests"}

LEMMA FailsWithCode ==
    ASSUME NEW w, NEW c, OfNames(c), NEW n, Failed(One(w, c, n))
    PROVE  HasCode(One(w, c, n))
<1>1. CASE c.op = "GetContext"
  <2> DEFINE loc == LocateSymbol(w.st, w.cache, n)
             links == FindTestLinks(w.st, w.cov, n, 60)
  <2>1. One(w, c, n) = IF n = <<>> THEN Error("ERR_INVALID_PARAMETER")
                          ELSE Show(loc, links, w.disk, c.opts.mode, c.opts.lines)
    BY <1>1 DEF One, GetContext
  <2> HIDE DEF loc, links
  <2>2. Failed(Show(loc, links, w.disk, c.opts.mode, c.opts.lines)) =>
            Show(loc, links, w.disk, c.opts.mode, c.opts.lines) = Error("ERR_SYMBOL_NOT_FOUND")
    BY DEF Show, Failed
  <2>3. One(w, c, n) \in {Error("ERR_INVALID_PARAMETER"), Error("ERR_SYMBOL_NOT_FOUND")}
    BY <2>1, <2>2
  <2> QED
    BY <2>3, ErrorFacts
<1>2. CASE c.op = "GetTests"
  <2> DEFINE min == c.opts
             links == FindTestLinks(w.st, w.cov, n, min)
  <2>1. One(w, c, n) = IF n = <<>> THEN Error("ERR_INVALID_PARAMETER") ELSE [tests |-> links]
    BY <1>2 DEF One, GetTests
  <2> HIDE DEF min, links
  <2>2. ~Failed([tests |-> links])
    BY DEF Failed
  <2>3. One(w, c, n) = Error("ERR_INVALID_PARAMETER")
    BY <2>1, <2>2
  <2> QED
    BY <2>3, ErrorFacts
<1>3. CASE c.op = "GetImpact"
  <2>1. One(w, c, n) = IF n = <<>> THEN Error("ERR_INVALID_PARAMETER") ELSE [asked |-> c.op, of |-> n, opts |-> c.opts]
    BY <1>3 DEF One
  <2>2. ~Failed([asked |-> c.op, of |-> n, opts |-> c.opts])
    BY DEF Failed
  <2>3. One(w, c, n) = Error("ERR_INVALID_PARAMETER")
    BY <2>1, <2>2
  <2> QED
    BY <2>3, ErrorFacts
<1> QED
  BY <1>1, <1>2, <1>3 DEF OfNames

\* A batch answers each of its names.
LEMMA BatchAnswers ==
    ASSUME NEW T, NEW names \in Seq(T), NEW answer,
           \A n \in ToSet(names) : Failed(answer[n]) => answer[n].error # ""
    PROVE  BatchAnswersAll(names, BatchAnswer(names, answer), answer)
<1> DEFINE code(n) == IF n = <<>> THEN "ERR_INVALID_PARAMETER" ELSE IF Failed(answer[n]) THEN answer[n].error ELSE ""
           bad == {n \in ToSet(names) : code(n) # ""}
           fine == ToSet(names) \ bad
           good == Kept(names, fine)
           failed == Kept(names, bad)
           results == [i \in DOMAIN good |-> answer[good[i]]]
           errors == [i \in DOMAIN failed |-> [symbol |-> failed[i], code |-> code(failed[i])]]
<1>1. BatchAnswer(names, answer).results = results /\ BatchAnswer(names, answer).errors = errors
  BY DEF BatchAnswer
<1>2. \A n \in ToSet(names) : n \in bad <=> n = <<>> \/ Failed(answer[n])
  OBVIOUS
<1>3. Len(names) \in Nat /\ DOMAIN names = 1 .. Len(names) /\ \A i \in DOMAIN names : names[i] \in ToSet(names)
  BY SeqFacts
<1> HIDE DEF bad
<1>4. /\ good \in Seq(T) /\ failed \in Seq(T)
      /\ \A k : Contains(good, k) <=> Contains(names, k) /\ k \in fine
      /\ \A k : Contains(failed, k) <=> Contains(names, k) /\ k \in bad
  <2> HIDE DEF fine
  <2> QED
    BY KeptFacts
<1>5. Len(good) + Len(failed) = Len(names)
  <2>1. \A i \in 1 .. Len(names) : names[i] \in fine <=> names[i] \notin bad
    BY <1>3
  <2> HIDE DEF fine
  <2> QED
    BY <1>3, <2>1, KeptParts
<1> HIDE DEF good, failed, fine
<1>6. Len(results) = Len(good) /\ Len(errors) = Len(failed) /\ DOMAIN results = DOMAIN good /\ DOMAIN errors = DOMAIN failed
  <2>1. DOMAIN good = 1 .. Len(good) /\ Len(good) \in Nat /\ DOMAIN failed = 1 .. Len(failed) /\ Len(failed) \in Nat
    BY <1>4, SeqFacts
  <2>2. /\ results = [i \in DOMAIN good |-> results[i]]
        /\ errors = [i \in DOMAIN failed |-> errors[i]]
    OBVIOUS
  <2> HIDE DEF results, errors
  <2> QED
    BY <2>1, <2>2, MapFacts
<1>7. \A i \in DOMAIN names : Contains(names, names[i])
  BY SeqFacts
<1>8. ASSUME NEW i \in DOMAIN names, names[i] = <<>> \/ Failed(answer[names[i]])
      PROVE  \E j \in DOMAIN errors : errors[j].symbol = names[i]
  <2>1. Contains(failed, names[i])
    BY <1>2, <1>3, <1>4, <1>7, <1>8
  <2>2. PICK j \in DOMAIN failed : failed[j] = names[i]
    BY <1>4, <2>1, SeqFacts
  <2> QED
    BY <1>6, <2>2
<1>9. ASSUME NEW i \in DOMAIN names, ~(names[i] = <<>> \/ Failed(answer[names[i]]))
      PROVE  \E j \in DOMAIN results : results[j] = answer[names[i]]
  <2>1. names[i] \in fine
    BY <1>2, <1>3, <1>9 DEF fine
  <2>2. Contains(good, names[i])
    BY <1>4, <1>7, <2>1
  <2>3. PICK j \in DOMAIN good : good[j] = names[i]
    BY <1>4, <2>2, SeqFacts
  <2> QED
    BY <1>6, <2>3
<1> HIDE DEF results, errors
<1>10. Len(results) + Len(errors) = Len(names)
  BY <1>5, <1>6
<1> QED
  BY <1>1, <1>8, <1>9, <1>10 DEF BatchAnswersAll

\* Every name of a request is answered once, as it is answered alone (querySymbols).
LEMMA NamesAreAnswered ==
    ASSUME NEW w, NEW q, IsRequest(q), NEW defaults
    PROVE  EveryNameAnswered(w, q, defaults)
<1> DEFINE call == HttpCall(q, defaults)
           asked == {n \in ToSet(Args(q)) : n \notin {<<>>, Blank}}
<1> SUFFICES ASSUME q.ask \in {"context", "impact", "tests"}
             PROVE  /\ asked # {} => ToSet(call.names) = asked /\ Len(call.names) = Cardinality(asked)
                    /\ call.batch => BatchAnswersAll(call.names, Perform(w, call), EachOf(w, call))
  BY DEF EveryNameAnswered, Args
<1>1. PICK T : Args(q) \in Seq(T)
  BY ArgsListed
<1> DEFINE names == Symbols(q)
<1>2. /\ names \in Seq(T) /\ Distinct(names)
      /\ \A k : Contains(names, k) <=> k \notin {<<>>, Blank} /\ Contains(Args(q), k)
  BY <1>1, SymbolsFacts
<1>3. /\ call.op \in {"GetContext", "GetImpact", "GetTests"}
      /\ call.names = (IF names = <<>> THEN <<q.name>> ELSE names)
      /\ call.batch <=> Len(names) > 1
  <2>1. CASE q.ask = "context"
    BY <2>1 DEF HttpCall, CallNamed
  <2>2. CASE q.ask = "impact"
    BY <2>2 DEF HttpCall, CallNamed
  <2>3. CASE q.ask = "tests"
    BY <2>3 DEF HttpCall, CallNamed
  <2> QED
    BY <2>1, <2>2, <2>3
<1> HIDE DEF names, call
<1>4. \A k : k \in ToSet(Args(q)) <=> Contains(Args(q), k)
  BY <1>1, MemberFacts
<1>5. \A k : k \in ToSet(names) <=> Contains(names, k)
  BY <1>2, MemberFacts
<1>6. ToSet(names) = asked
  BY <1>2, <1>4, <1>5
<1>7. Len(names) = Cardinality(ToSet(names))
  BY <1>2, DistinctCounted
<1>8. ASSUME asked # {} PROVE call.names = names
  <2>1. names # <<>>
    BY <1>2, <1>5, <1>6, <1>8 DEF Contains
  <2> QED
    BY <1>3, <2>1
<1>9. ASSUME call.batch PROVE BatchAnswersAll(call.names, Perform(w, call), EachOf(w, call))
  <2>1. call.names = names
    BY <1>2, <1>3, <1>9
  <2> DEFINE each == EachOf(w, call)
  <2>2. \A n \in ToSet(names) : Failed(each[n]) => each[n].error # ""
    <3>1. \A n \in ToSet(names) : each[n] = One(w, call, n)
      BY <2>1 DEF EachOf
    <3> HIDE DEF each
    <3>2. OfNames(call)
      BY <1>3 DEF OfNames
    <3>3. ASSUME NEW n \in ToSet(names), Failed(One(w, call, n)) PROVE HasCode(One(w, call, n))
      BY <3>2, <3>3, FailsWithCode
    <3> QED
      BY <3>1, <3>3 DEF HasCode
  <2>3. Perform(w, call) = BatchAnswer(names, each)
    BY <1>9, <2>1 DEF Perform, AnswersOf
  <2> HIDE DEF each
  <2>4. BatchAnswersAll(names, BatchAnswer(names, each), each)
    BY <1>2, <2>2, BatchAnswers
  <2> QED
    BY <2>1, <2>3, <2>4 DEF each
<1> QED
  BY <1>6, <1>7, <1>8, <1>9

\* Nobody's request is answered from another tenant's store (serviceForRequest).
LEMMA OwnTenantAnswers ==
    ASSUME NEW worlds, NEW q, NEW defaults
    PROVE  AnsweredByOwnTenant(worlds, q, defaults)
<1> DEFINE byArg == IF q.tenant # Unset THEN q.tenant ELSE Default
           byHeader == IF q.header # Unset THEN q.header ELSE byArg
           asked == HttpCall(q, defaults)
           called == ToolCall(q, defaults)
           http == Http(worlds, q, defaults)
           tool == Tool(worlds, q, defaults)
<1>1. TenantOf(q.tenant) = byArg /\ TenantOf(IF q.header # Unset THEN q.header ELSE q.tenant) = byHeader
  BY DEF TenantOf
<1>2. ASSUME http.status = 200 PROVE byHeader \in Tenants /\ http.body = Perform(worlds[byHeader], asked)
  <2> DEFINE answer == Perform(worlds[byHeader], asked)
  <2>1. http \in {[status |-> 400, body |-> Nothing], [status |-> 204, body |-> Nothing], [status |-> 405, body |-> Nothing], Recovered}
        \/ (byHeader \in Tenants /\ http = HttpReply(answer))
    <3> HIDE DEF byHeader
    <3> QED
      BY <1>1 DEF Http, Barred
  <2> HIDE DEF http, answer, byHeader
  <2>2. http \notin {[status |-> 400, body |-> Nothing], [status |-> 204, body |-> Nothing], [status |-> 405, body |-> Nothing], Recovered}
    BY <1>2 DEF Recovered
  <2>3. HttpReply(answer).body = answer
    BY DEF HttpReply
  <2> QED
    BY <2>1, <2>2, <2>3 DEF answer
<1>3. ASSUME tool.code = 0 PROVE byArg \in Tenants /\ tool.body = Perform(worlds[byArg], called)
  <2> DEFINE answer == Perform(worlds[byArg], called)
  <2>1. tool \in {[code |-> -32603, body |-> Nothing], [code |-> -32601, body |-> Nothing]}
        \/ (byArg \in Tenants /\ tool = ToolReply(answer))
    <3> HIDE DEF byArg
    <3> QED
      BY <1>1 DEF Tool
  <2> HIDE DEF tool, answer, byArg
  <2>2. tool \notin {[code |-> -32603, body |-> Nothing], [code |-> -32601, body |-> Nothing]}
    BY <1>3
  <2>3. ToolReply(answer).body = answer
    BY DEF ToolReply
  <2> QED
    BY <2>1, <2>2, <2>3 DEF answer
<1> QED
  BY <1>2, <1>3 DEF AnsweredByOwnTenant, OwnPage, OwnResult


\* The same answer, as a route and as a tool reply it.
LEMMA RepliesAgree == ASSUME NEW answer PROVE Agree(HttpReply(answer), ToolReply(answer))
<1> DEFINE http == HttpReply(answer)  tool == ToolReply(answer)
<1>1. http.status = HttpStatus(answer) /\ http.body = answer /\ tool.code = RpcCode(answer) /\ tool.body = answer
  BY DEF HttpReply, ToolReply
<1>2. /\ HttpStatus(answer) = 200 <=> RpcCode(answer) = 0
      /\ HttpStatus(answer) \in {400, 404} <=> RpcCode(answer) = -32602
  BY DEF HttpStatus, RpcCode
<1> HIDE DEF http, tool
<1> QED
  BY <1>1, <1>2 DEF Agree, http, tool

\* The names of a request depend on these two arguments only.
LEMMA SameSymbols ==
    ASSUME NEW q, NEW r, r.names = q.names, r.name = q.name, NEW T, Args(q) \in Seq(T)
    PROVE  Symbols(r) = Symbols(q)
<1>1. Args(r) = Args(q)
  BY DEF Args
<1>2. PICK f : /\ f[0] = <<>> /\ Symbols(q) = f[Len(Args(q))]
               /\ \A n \in 1 .. Len(Args(q)) : f[n] = SymbolOf(f[n - 1], Args(q)[n])
  BY SymbolsTaken
<1>3. PICK g : /\ g[0] = <<>> /\ Symbols(r) = g[Len(Args(q))]
               /\ \A n \in 1 .. Len(Args(q)) : g[n] = SymbolOf(g[n - 1], Args(q)[n])
  BY <1>1, SymbolsTaken
<1> DEFINE N == Len(Args(q))
           S == {n \in 0 .. N : f[n] = g[n]}
<1>4. N \in Nat
  OBVIOUS
<1> HIDE DEF N
<1>5. 0 .. N \subseteq S
  <2>1. 0 \in S
    BY <1>2, <1>3, <1>4
  <2>2. ASSUME NEW n \in 0 .. N - 1, n \in S PROVE n + 1 \in S
    <3>1. n + 1 \in 1 .. N /\ n + 1 \in 0 .. N /\ (n + 1) - 1 = n
      BY <1>4
    <3> QED
      BY <1>2, <1>3, <2>2, <3>1 DEF N
  <2> HIDE DEF S
  <2> QED
    BY <1>4, <2>1, <2>2, UpTo
<1> QED
  BY <1>2, <1>3, <1>4, <1>5 DEF N

\* A tool and a route with the same arguments, written as both read them, answer
\* alike (handleToolCall).
LEMMA ToolsAgree ==
    ASSUME NEW worlds, NEW q, IsRequest(q), NEW defaults
    PROVE  ToolsAnswerAsRoutes(worlds, q, defaults)
<1> DEFINE r == [q EXCEPT !.verb = "GET", !.header = Unset, !.dots = FALSE]
           t == TenantOf(q.tenant)
           asked == HttpCall(r, defaults)
           called == ToolCall(q, defaults)
           http == Http(worlds, r, defaults)
           tool == Tool(worlds, q, defaults)
<1> SUFFICES ASSUME q.ask \in HttpAsks, t \in Tenants, WrittenAsMeant(q) PROVE Agree(http, tool)
  BY DEF ToolsAnswerAsRoutes
<1>1. /\ r.ask = q.ask /\ r.tenant = q.tenant /\ r.names = q.names /\ r.name = q.name /\ r.tags = q.tags
      /\ r.mode = q.mode /\ r.number = q.number /\ r.recursive = q.recursive
      /\ r.verb = "GET" /\ r.header = Unset /\ r.dots = FALSE
  BY DEF IsRequest, Arguments
<1> HIDE DEF r
<1>2. Symbols(r) = Symbols(q)
  <2>1. PICK T : Args(q) \in Seq(T)
    BY ArgsListed
  <2> QED
    BY <1>1, <2>1, SameSymbols
<1>3. http = IF q.ask = "affected" /\ q.name = <<>> THEN [status |-> 400, body |-> Nothing] ELSE HttpReply(Perform(worlds[t], asked))
  BY <1>1 DEF Http, Barred, Preflight
<1>4. tool = ToolReply(Perform(worlds[t], called))
  BY DEF Tool, ToolAsks
<1>9. /\ Atoi(q.number) = ToInt(q.number) /\ QueryText(q.mode) = StringArg(q.mode)
      /\ QueryFlag(q.recursive) = BoolArg(q.recursive)
  <2>1. Atoi(q.number) = ToInt(q.number)
    BY DEF WrittenAsMeant, Atoi, ToInt, IsA
  <2>2. QueryText(q.mode) = StringArg(q.mode)
    BY DEF WrittenAsMeant, QueryText, StringArg
  <2>3. QueryFlag(q.recursive) <=> BoolArg(q.recursive)
    BY DEF WrittenAsMeant, QueryFlag, BoolArg, IsA
  <2>4. QueryFlag(q.recursive) \in BOOLEAN /\ BoolArg(q.recursive) \in BOOLEAN
    BY DEF QueryFlag, BoolArg, IsA
  <2> QED
    BY <2>1, <2>2, <2>3, <2>4
<1>5. ASSUME q.ask # "by_tag" PROVE asked = called
  <2>1. \A op, opts : CallNamed(op, r, opts) = CallNamed(op, q, opts)
    BY <1>1, <1>2 DEF CallNamed
  <2>2. CASE q.ask \in {"context", "impact", "tests"}
    BY <1>1, <1>9, <2>1, <2>2 DEF HttpCall, ToolCall, HttpOptions, ToolOptions
  <2>3. CASE q.ask \in {"affected", "search"}
    BY <1>1, <1>9, <2>3 DEF HttpCall, ToolCall
  <2>4. CASE q.ask \in {"tags", "all_tags"}
    BY <1>1, <2>4 DEF HttpCall, TagCall, ToolCall
  <2> QED
    BY <1>5, <2>2, <2>3, <2>4 DEF HttpAsks
<1>6. CASE q.ask = "affected" /\ q.name = <<>>
  <2>1. called = Call("GetAffected", <<>>, BoolArg(q.recursive))
    BY <1>6 DEF ToolCall
  <2>2. Perform(worlds[t], called) = One(worlds[t], called, <<>>)
    BY <2>1 DEF Perform, AnswersOf, EachOf, Call, ToSet
  <2>3. Perform(worlds[t], called) = Error("ERR_INVALID_PARAMETER")
    BY <2>1, <2>2 DEF One, Call
  <2> HIDE DEF called
  <2>4. tool.code = -32602
    BY <1>4, <2>3 DEF ToolReply, RpcCode, Failed, Error
  <2>5. http.status = 400
    BY <1>3, <1>6
  <2> HIDE DEF tool, http
  <2> QED
    BY <2>4, <2>5 DEF Agree
<1>7. CASE q.ask = "by_tag"
  <2>1. asked = Call("SearchByTags", <<>>, HttpTags(r)) /\ called = Call("SearchByTags", <<>>, q.tags \ {""})
    BY <1>1, <1>7 DEF HttpCall, TagCall, ToolCall
  <2>2. http = HttpReply(Perform(worlds[t], asked))
    BY <1>3, <1>7
  <2>3. CASE q.tags \ {""} # {}
    <3>1. asked = called
      BY <1>1, <2>1, <2>3 DEF HttpTags
    <3> HIDE DEF http, tool, asked, called
    <3> QED
      BY <1>4, <2>2, <3>1, RepliesAgree
  <2>4. CASE q.tags \ {""} = {}
    <3>1. asked = Call("SearchByTags", <<>>, {""}) /\ called = Call("SearchByTags", <<>>, {})
      BY <1>1, <2>1, <2>4 DEF HttpTags
    <3> HIDE DEF asked, called
    <3>2. \A opts : Perform(worlds[t], Call("SearchByTags", <<>>, opts)) = SearchByTags(worlds[t].st, opts)
      BY DEF Perform, AnswersOf, EachOf, Call, ToSet, One
    <3>3. Perform(worlds[t], asked) = Error("ERR_INVALID_PARAMETER")
      BY <3>1, <3>2 DEF SearchByTags
    <3>4. Perform(worlds[t], called) = Error("ERR_INVALID_PARAMETER")
      BY <3>1, <3>2 DEF SearchByTags
    <3> HIDE DEF http, tool
    <3> QED
      BY <1>4, <2>2, <3>3, <3>4, RepliesAgree
  <2> QED
    BY <2>3, <2>4
<1>8. CASE q.ask # "by_tag" /\ ~(q.ask = "affected" /\ q.name = <<>>)
  <2>1. http = HttpReply(Perform(worlds[t], asked))
    BY <1>3, <1>8
  <2> HIDE DEF http, tool, asked, called
  <2> QED
    BY <1>4, <1>5, <1>8, <2>1, RepliesAgree
<1> QED
  BY <1>6, <1>7, <1>8

\* Every frame has its answer, in order (serveStdio).
LEMMA FramesAreAnswered ==
    ASSUME NEW worlds, NEW frames, IsList(frames), NEW defaults
    PROVE  FramesAnswered(worlds, frames, defaults)
<1> DEFINE out == Stdio(worlds, frames, defaults)
           upTo == {k \in 0 .. Len(frames) : \A i \in 1 .. k : frames[i].length}
           last == CHOOSE k \in upTo : \A j \in upTo : j <= k
           each == [i \in 1 .. last |-> AnswerFrame(worlds, frames[i], defaults)]
           One1(i) == Message(worlds, "POST", frames[i].body, defaults)
<1>1. Len(frames) \in Nat /\ DOMAIN frames = 1 .. Len(frames)
  BY ListFacts
<1>2. last \in upTo /\ \A j \in upTo : j <= last
  <2>1. 0 \in upTo /\ upTo \subseteq 0 .. Len(frames)
    BY <1>1
  <2> HIDE DEF upTo
  <2>2. \E k \in upTo : \A j \in upTo : j <= k
    BY <1>1, <2>1, GreatestNat
  <2> QED
    BY <2>2
<1>3. out = FlattenSeq(each)
  BY DEF Stdio
<1> HIDE DEF last
<1>4. last \in Nat
  BY <1>1, <1>2
<1>5. \A i : AnswerFrame(worlds, frames[i], defaults) = <<One1(i)>>
  BY DEF AnswerFrame, Message
<1> DEFINE T == {One1(i) : i \in 1 .. last}
<1>6. each \in Seq(Seq(T)) /\ Len(each) = last /\ \A i \in 1 .. last : each[i] = <<One1(i)>>
  <2>1. each = [i \in 1 .. last |-> each[i]] /\ \A i \in 1 .. last : each[i] = <<One1(i)>>
    BY <1>5
  <2>2. \A i \in 1 .. last : One1(i) \in T
    OBVIOUS
  <2> HIDE DEF T, One1, each
  <2>3. ASSUME NEW i \in 1 .. last PROVE each[i] \in Seq(T)
    <3>1. each[i] = <<One1(i)>> /\ One1(i) \in T
      BY <2>1, <2>2
    <3> DEFINE e == One1(i)
    <3> HIDE DEF e
    <3>2. e \in T /\ each[i] = <<e>>
      BY <3>1 DEF e
    <3> QED
      BY <3>2
  <2> QED
    BY <1>4, <2>1, <2>3, MapFacts
<1> HIDE DEF each, T, One1
<1>7. Len(out) = last /\ \A i \in 1 .. last : out[i] = One1(i)
  <2>1. \A i \in 1 .. Len(each) : Len(each[i]) = 1 /\ each[i][1] = One1(i)
    <3>1. \A e : Len(<<e>>) = 1 /\ <<e>>[1] = e
      OBVIOUS
    <3> QED
      BY <1>6, <3>1
  <2> QED
    BY <1>3, <1>6, <2>1, FlattenSingles
<1> HIDE DEF out
<1>8. ASSUME NEW k \in DOMAIN frames, \A i \in 1 .. k : frames[i].length PROVE Len(out) >= k /\ out[k] = One1(k)
  <2>1. k \in upTo /\ k \in 1 .. Len(frames)
    BY <1>1, <1>8
  <2>2. k <= last
    BY <1>2, <2>1
  <2>3. k \in 1 .. last
    BY <1>1, <1>4, <2>1, <2>2
  <2> QED
    BY <1>4, <1>7, <2>2, <2>3
<1> QED
  BY <1>8 DEF FramesAnswered, out, One1


-----------------------------------------------------------------------------
(* Tests                                                                   *)

\* The blocks of a profile, none of which ends before it begins.
LEMMA BlocksFacts ==
    ASSUME NEW p, IsProfile(p)
    PROVE  \A b \in ToSet(BlocksOf(p)) : b.from \in Nat /\ b.to \in Nat /\ b.from <= b.to
<1> DEFINE good == Kept(p, {l \in ToSet(p) : l.count >= 0})
           block(l) == [file |-> l.file, from |-> l.from, to |-> IF l.to = 0 THEN l.from ELSE l.to, count |-> l.count]
           blocks == [i \in DOMAIN good |-> block(good[i])]
<1>1. BlocksOf(p) = blocks
  BY DEF BlocksOf
<1>2. good \in Seq(ToSet(p))
  BY ListFacts, KeptFacts DEF IsProfile
<1> HIDE DEF good
<1>3. DOMAIN good = 1 .. Len(good) /\ Len(good) \in Nat /\ \A i \in DOMAIN good : good[i] \in ToSet(p)
  BY <1>2, SeqFacts
<1>4. \A b \in ToSet(blocks) : \E l \in ToSet(p) : b = block(l)
  BY <1>3 DEF ToSet
<1>5. ASSUME NEW l \in ToSet(p) PROVE block(l).from \in Nat /\ block(l).to \in Nat /\ block(l).from <= block(l).to
  <2>1. l.from \in Nat /\ l.to \in Nat /\ (l.to = 0 \/ l.from <= l.to)
    BY DEF IsProfile
  <2>2. block(l).from = l.from /\ block(l).to = IF l.to = 0 THEN l.from ELSE l.to
    OBVIOUS
  <2> HIDE DEF block
  <2> QED
    BY <2>1, <2>2
<1> HIDE DEF block, blocks
<1> QED
  BY <1>1, <1>4, <1>5

\* Two ranges of lines overlap when they share a line.
LEMMA OverlapFacts ==
    ASSUME NEW b, b.from \in Nat, b.to \in Nat, b.from <= b.to, NEW span, IsSpan(span)
    PROVE  Overlaps(b, span) <=> (b.from .. b.to) \cap (span[1] .. span[2]) # {}
<1> DEFINE f == b.from  t == b.to  x == span[1]  y == span[2]
<1>1. f \in Nat /\ t \in Nat /\ f <= t /\ x \in Nat /\ y \in Nat /\ x <= y
  BY DEF IsSpan
<1>2. Overlaps(b, span) <=> f <= y /\ t >= x
  BY DEF Overlaps
<1> HIDE DEF f, t, x, y
<1>3. ASSUME f <= y, t >= x PROVE (f .. t) \cap (x .. y) # {}
  <2>1. CASE f >= x
    BY <1>1, <1>3, <2>1
  <2>2. CASE f < x
    BY <1>1, <1>3, <2>2
  <2> QED
    BY <1>1, <2>1, <2>2
<1>4. ASSUME (f .. t) \cap (x .. y) # {} PROVE f <= y /\ t >= x
  BY <1>1, <1>4
<1> QED
  BY <1>2, <1>3, <1>4 DEF f, t, x, y

\* What counts as covered shares a line with a block that was run (ParseGoCoverProfile).
LEMMA CoveredRan ==
    ASSUME NEW st, IsStore(st), NEW p, IsProfile(p)
    PROVE  CoveredWereRun(st, BlocksOf(p))
<1> DEFINE blocks == BlocksOf(p)
<1>1. \A b \in ToSet(blocks) : b.from \in Nat /\ b.to \in Nat /\ b.from <= b.to
  BY BlocksFacts
<1>2. \A m \in ToSet(StoredMethods(st)) : IsSpan(m.method.span)
  BY MethodsFacts
<1> HIDE DEF blocks
<1>3. \A b \in ToSet(blocks) : \A m \in ToSet(StoredMethods(st)) :
          Overlaps(b, m.method.span) <=> (b.from .. b.to) \cap (m.method.span[1] .. m.method.span[2]) # {}
  BY <1>1, <1>2, OverlapFacts
<1>4. \A m : m \in Covered(st, blocks) <=> \E b \in ToSet(blocks) : b.count > 0 /\ m \in MethodsIn(st, b.file) /\ Overlaps(b, m.method.span)
  BY DEF Covered
<1> QED
  BY <1>3, <1>4 DEF CoveredWereRun, blocks

\* To merge a report twice is to merge it once.
Grows(c, once) == c.tests \subseteq once.tests /\ \A t \in c.tests : c.of[t] \subseteq once.of[t]
Absorbs(c, r) == MergeCoverage(c, r) = c

LEMMA ReportMerged ==
    ASSUME NEW c, NEW r
    PROVE  Grows(c, MergeCoverage(c, r)) /\ Absorbs(MergeCoverage(c, r), r)
<1> DEFINE a == c.tests  b == r.tests  f == c.of  g == r.of
           both == [t \in a \cup b |-> (IF t \in a THEN f[t] ELSE {}) \cup (IF t \in b THEN g[t] ELSE {})]
           once == MergeCoverage(c, r)
<1>1. once = [tests |-> a \cup b, of |-> both]
  BY DEF MergeCoverage
<1>2. once.tests = a \cup b /\ once.of = both
  BY <1>1
<1> DEFINE again == [t \in (a \cup b) \cup b |-> (IF t \in a \cup b THEN both[t] ELSE {}) \cup (IF t \in b THEN g[t] ELSE {})]
<1>3. MergeCoverage(once, r) = [tests |-> (a \cup b) \cup b, of |-> again]
  <2> HIDE DEF once, both
  <2> QED
    BY <1>2 DEF MergeCoverage
<1> HIDE DEF a, b, f, g, once
<1>4. (a \cup b) \cup b = a \cup b
  OBVIOUS
<1>5. again = both
  OBVIOUS
<1>6. MergeCoverage(once, r) = once
  BY <1>1, <1>3, <1>4, <1>5
<1>7. a \subseteq a \cup b /\ \A t \in a : f[t] \subseteq both[t]
  OBVIOUS
<1> QED
  <2>1. Grows(c, once)
    BY <1>2, <1>7 DEF a, f, Grows
  <2>2. Absorbs(once, r)
    BY <1>6 DEF Absorbs
  <2> QED
    BY <2>1, <2>2 DEF once

\* Profiles add up, and one loaded twice adds nothing.
LEMMA ProfilesAdd ==
    ASSUME NEW st, NEW p, NEW q
    PROVE  ProfilesAddUp(st, p, q)
<1> DEFINE once == LoadProfile(st, NoCoverage, p)
           both == LoadProfile(st, once, q)
           r == Report(st, BlocksOf(q))
           none == Covered(st, BlocksOf(q)) = {}
<1>1. \A c : LoadProfile(st, c, q) = IF none THEN c ELSE MergeCoverage(c, r)
  BY DEF LoadProfile
<1> HIDE DEF once, r, none
<1>2. CASE none
  <2>1. both = once
    BY <1>1, <1>2
  <2>2. LoadProfile(st, both, q) = both
    BY <1>1, <1>2
  <2> HIDE DEF both
  <2> QED
    BY <2>1, <2>2 DEF ProfilesAddUp, once, both
<1>3. CASE ~none
  <2>1. both = MergeCoverage(once, r) /\ LoadProfile(st, both, q) = MergeCoverage(both, r)
    BY <1>1, <1>3
  <2> HIDE DEF both
  <2>0. Grows(once, MergeCoverage(once, r)) /\ Absorbs(MergeCoverage(once, r), r)
    BY ReportMerged
  <2>2. Grows(once, both) /\ MergeCoverage(both, r) = both
    BY <2>0, <2>1 DEF Absorbs
  <2> QED
    BY <2>1, <2>2 DEF ProfilesAddUp, Grows, once, both
<1> QED
  BY <1>2, <1>3

\* The members of a finite set, in a sequence.
LEMMA SetToSeqFacts ==
    ASSUME NEW S, IsFiniteSet(S)
    PROVE  SetToSeq(S) \in Seq(S) /\ \A x : Contains(SetToSeq(S), x) <=> x \in S
<1> DEFINE n == Cardinality(S)
           f == CHOOSE g \in [1 .. n -> S] : IsInjective(g)
<1>1. n \in Nat /\ ExistsBijection(1 .. n, S)
  BY FS_CardinalityType
<1>2. SetToSeq(S) = f
  BY DEF SetToSeq
<1>3. f \in [1 .. n -> S] /\ IsInjective(f)
  <2>1. PICK g : g \in Bijection(1 .. n, S)
    BY <1>1 DEF ExistsBijection
  <2>2. g \in [1 .. n -> S] /\ IsInjective(g)
    BY <2>1 DEF Bijection, Injection
  <2> HIDE DEF n
  <2> QED
    BY <2>2
<1> HIDE DEF f
<1>4. IsFiniteSet(1 .. n) /\ Cardinality(1 .. n) = n
  <2> HIDE DEF n
  <2> QED
    BY <1>1, FS_Interval
<1>5. f \in Injection(1 .. n, S)
  BY <1>3 DEF Injection
<1>6. f \in Surjection(1 .. n, S)
  <2>1. Cardinality(1 .. n) = Cardinality(S)
    BY <1>4
  <2> HIDE DEF n
  <2> QED
    BY <1>4, <1>5, <2>1, FS_Injection
<1>7. \A x \in S : \E i \in 1 .. n : f[i] = x
  BY <1>6 DEF Surjection
<1> HIDE DEF n
<1>8. f \in Seq(S) /\ DOMAIN f = 1 .. n /\ Len(f) = n
  BY <1>1, <1>3
<1>9. \A x : Contains(f, x) <=> x \in S
  BY <1>3, <1>7, <1>8 DEF Contains
<1> QED
  BY <1>2, <1>8, <1>9

\* An image of a finite set is finite.
LEMMA ImageFinite ==
    ASSUME NEW S, IsFiniteSet(S), NEW f, NEW T, \A t \in T : \E x \in S : t = f[x]
    PROVE  IsFiniteSet(T)
<1> DEFINE U == {x \in S : f[x] \in T}
           g == [x \in U |-> f[x]]
<1>1. IsFiniteSet(U)
  BY FS_Subset
<1>2. g \in Surjection(U, T)
  BY DEF Surjection
<1> HIDE DEF U, g
<1> QED
  BY <1>1, <1>2, FS_Surjection

\* What a store holds is finite, and so are the links made of it.
LEMMA LinksFinite ==
    ASSUME NEW st, IsStore(st), NEW cov, IsFiniteSet(cov.tests), NEW name
    PROVE  IsFiniteSet(Links(st, cov, name))
<1> DEFINE S == ToSet(StoredMethods(st))
           L(s, c) == {Link(m.full, s, c) : m \in S}
           C == {Link(t, "coverage", 90) : t \in cov.tests}
<1>1. IsFiniteSet(S)
  <2>1. StoredMethods(st) \in Seq(MethodRows(st))
    BY MethodsFacts
  <2> DEFINE s == StoredMethods(st)
  <2>2. DOMAIN s = 1 .. Len(s) /\ Len(s) \in Nat
    BY <2>1, SeqFacts
  <2> HIDE DEF s
  <2>3. \A t \in ToSet(s) : \E i \in DOMAIN s : t = s[i]
    BY DEF ToSet
  <2>4. IsFiniteSet(DOMAIN s)
    BY <2>2, FS_Interval
  <2> QED
    BY <2>3, <2>4, ImageFinite DEF s
<1> HIDE DEF S
<1>2. ASSUME NEW s, NEW c PROVE IsFiniteSet(L(s, c))
  <2> DEFINE T == L(s, c)
             f == [m \in S |-> Link(m.full, s, c)]
  <2>1. \A t \in T : \E m \in S : t = f[m]
    OBVIOUS
  <2> HIDE DEF T, f
  <2> QED
    BY <1>1, <2>1, ImageFinite DEF T
<1>3. IsFiniteSet(C)
  <2> DEFINE U == cov.tests
             f == [t \in U |-> Link(t, "coverage", 90)]
  <2>1. \A l \in C : \E t \in U : l = f[t]
    OBVIOUS
  <2>2. IsFiniteSet(U)
    OBVIOUS
  <2> HIDE DEF C, U, f
  <2> QED
    BY <2>1, <2>2, ImageFinite
<1>4. /\ Explicit(st) \subseteq L("explicit", 100)
      /\ ByNaming(st, name) \subseteq L("naming", 70)
      /\ BySameTag(st, name) \subseteq L("same_tag", 60)
      /\ ByDependency(st, name) \subseteq L("dependency", 80)
      /\ ByCoverage(cov, name) \subseteq C
  <2>1. \A m \in TestMethods(st) : m \in S
    BY DEF TestMethods, S
  <2>2. Explicit(st) \subseteq L("explicit", 100)
    BY <2>1 DEF Explicit
  <2>3. ByNaming(st, name) \subseteq L("naming", 70)
    BY DEF ByNaming, S
  <2>4. BySameTag(st, name) \subseteq L("same_tag", 60)
    BY <2>1 DEF BySameTag
  <2>5. ByDependency(st, name) \subseteq L("dependency", 80)
    BY <2>1 DEF ByDependency
  <2>6. ByCoverage(cov, name) \subseteq C
    BY DEF ByCoverage
  <2> QED
    BY <2>2, <2>3, <2>4, <2>5, <2>6
<1> DEFINE E == L("explicit", 100)  N == L("naming", 70)  G == L("same_tag", 60)  D == L("dependency", 80)
           all == E \cup (N \cup (G \cup (D \cup C)))
<1>5. IsFiniteSet(E) /\ IsFiniteSet(N) /\ IsFiniteSet(G) /\ IsFiniteSet(D)
  BY <1>2
<1>6. Links(st, cov, name) \subseteq all
  <2> HIDE DEF E, N, G, D, C
  <2> QED
    BY <1>4 DEF Links, OrElse, E, N, G, D
<1> HIDE DEF E, N, G, D, C
<1>7. IsFiniteSet(all)
  BY <1>3, <1>5, FS_Union
<1> HIDE DEF all
<1> QED
  BY <1>6, <1>7, FS_Subset

\* A test that is found by its name is listed, whatever else is (FindTestLinks).
LEMMA NamedAreListed ==
    ASSUME NEW st, IsStore(st), NEW cov, IsFiniteSet(cov.tests), NEW name
    PROVE  NamedListed(st, cov, name)
<1> DEFINE T == Links(st, cov, name)
           kept == {l \in T : l.confidence >= 70}
           worth(i) == {l \in kept : l.confidence = Confidences[i]}
           seqs == [i \in DOMAIN Confidences |-> SetToSeq(worth(i))]
           out == FindTestLinks(st, cov, name, 70)
<1>1. out = FlattenSeq(seqs)
  BY DEF FindTestLinks
<1>2. IsFiniteSet(T)
  BY LinksFinite
<1>3. DOMAIN Confidences = 1 .. 5 /\ Confidences[4] = 70
  BY DEF Confidences
<1>4. ASSUME NEW l \in ByNaming(st, name), l.test # name PROVE l \in worth(4)
  <2>1. l \in T
    BY <1>4 DEF Links, OrElse
  <2>2. PICK x : l = Link(x, "naming", 70)
    BY DEF ByNaming
  <2>3. l.confidence = 70
    BY <2>2 DEF Link
  <2> HIDE DEF T
  <2> QED
    BY <1>3, <2>1, <2>3
<1> HIDE DEF T, out
<1>5. \A i : SetToSeq(worth(i)) \in Seq(T) /\ \A x : Contains(SetToSeq(worth(i)), x) <=> x \in worth(i)
  <2> SUFFICES ASSUME NEW i PROVE SetToSeq(worth(i)) \in Seq(T) /\ \A x : Contains(SetToSeq(worth(i)), x) <=> x \in worth(i)
    OBVIOUS
  <2> DEFINE S == worth(i)
  <2>1. S \in SUBSET T
    OBVIOUS
  <2> HIDE DEF S
  <2>2. IsFiniteSet(S)
    BY <1>2, <2>1, FS_Subset
  <2>3. SetToSeq(S) \in Seq(S) /\ \A x : Contains(SetToSeq(S), x) <=> x \in S
    BY <2>2, SetToSeqFacts
  <2>4. SetToSeq(S) \in Seq(T)
    BY <2>1, <2>3
  <2> QED
    BY <2>3, <2>4 DEF S
<1> HIDE DEF kept, worth
<1>6. seqs \in Seq(Seq(T)) /\ Len(seqs) = 5 /\ \A i \in 1 .. 5 : seqs[i] = SetToSeq(worth(i))
  <2>1. seqs = [i \in 1 .. 5 |-> seqs[i]] /\ \A i \in 1 .. 5 : seqs[i] = SetToSeq(worth(i))
    BY <1>3
  <2> HIDE DEF seqs
  <2>2. \A i \in 1 .. 5 : seqs[i] \in Seq(T)
    BY <1>5, <2>1
  <2> QED
    BY <2>1, <2>2, MapFacts
<1> HIDE DEF seqs
<1>7. out \in Seq(T) /\ \A x : x \in worth(4) => Contains(out, x)
  <2>1. /\ FlattenSeq(seqs) \in Seq(T)
        /\ \A x : Contains(FlattenSeq(seqs), x) <=> \E i \in 1 .. Len(seqs) : Contains(seqs[i], x)
    BY <1>6, FlattenFacts
  <2>2. 4 \in 1 .. Len(seqs) /\ \A x : x \in worth(4) => Contains(seqs[4], x)
    BY <1>5, <1>6
  <2> QED
    BY <1>1, <2>1, <2>2
<1>8. ASSUME NEW l \in ByNaming(st, name), l.test # name PROVE \E i \in DOMAIN out : out[i] = l
  <2>1. Contains(out, l)
    BY <1>4, <1>7, <1>8
  <2> QED
    BY <1>7, <2>1, SeqFacts
<1> QED
  BY <1>8 DEF NamedListed, out

-----------------------------------------------------------------------------
(* Queries                                                                 *)

LEMMA LocationFacts ==
    ASSUME NEW k, NEW p, NEW s, NEW st
    PROVE  LET loc == Location(k, p, s, st)
           IN  loc.kind = k /\ loc.path = p /\ loc.span = s /\ loc # Nowhere
  BY DEF Location, Nowhere

\* The first of a list is one of it.
LEMMA HeadFacts == ASSUME NEW T, NEW s \in Seq(T), s # <<>> PROVE Contains(s, Head(s))
  BY TailFacts

\* Where a symbol is found there are lines, of a file that has been there.
IsPlace(loc, disk) == loc # Nowhere /\ loc.path \in DOMAIN disk /\ IsSpan(loc.span)

LEMMA ScannedFacts ==
    ASSUME NEW st, IsStore(st), NEW cache, NEW disk, IsDisk(disk, st, cache), NEW name
    PROVE  \/ IsPlace(Scanned(st, name), disk)
           \/ (Scanned(st, name) = Nowhere /\ ClassesNamed(st, name) = <<>> /\ MethodsNamed(st, name) = <<>>)
<1> DEFINE cs == ClassesNamed(st, name)
           ms == MethodsNamed(st, name)
<1>1. /\ cs \in Seq(ClassRows(st)) /\ ms \in Seq(MethodRows(st))
      /\ \A x : Contains(cs, x) => x \in ToSet(StoredClasses(st))
      /\ \A x : Contains(ms, x) => x \in MethodRows(st)
  BY NamedFacts
<1>2. Scanned(st, name) =
          IF cs # <<>> THEN Location("class", Head(cs).file.path, Head(cs).class.span, st)
          ELSE IF ms # <<>> THEN Location("method", Head(ms).file.path, Head(ms).method.span, st)
          ELSE Nowhere
  BY DEF Scanned
<1> HIDE DEF cs, ms
<1>3. CASE cs # <<>>
  <2> DEFINE c == Head(cs)
             loc == Location("class", c.file.path, c.class.span, st)
  <2>1. c \in ToSet(StoredClasses(st))
    BY <1>1, <1>3, HeadFacts
  <2>2. c.file \in ToSet(st) /\ IsClass(c.class)
    BY <2>1, ClassesFacts
  <2>3. c.file.path \in DOMAIN disk /\ IsSpan(c.class.span)
    BY <2>2 DEF IsDisk, IsClass
  <2>4. loc.path = c.file.path /\ loc.span = c.class.span /\ loc # Nowhere
    BY LocationFacts
  <2>5. Scanned(st, name) = loc
    BY <1>2, <1>3
  <2> HIDE DEF loc, c
  <2> QED
    BY <2>3, <2>4, <2>5 DEF IsPlace
<1>4. CASE cs = <<>> /\ ms # <<>>
  <2> DEFINE m == Head(ms)
             loc == Location("method", m.file.path, m.method.span, st)
  <2>1. m \in MethodRows(st)
    BY <1>1, <1>4, HeadFacts
  <2>2. m.file \in ToSet(st) /\ IsSpan(m.method.span)
    BY <2>1, MethodsFacts
  <2>3. m.file.path \in DOMAIN disk
    BY <2>2 DEF IsDisk
  <2>4. loc.path = m.file.path /\ loc.span = m.method.span /\ loc # Nowhere
    BY LocationFacts
  <2>5. Scanned(st, name) = loc
    BY <1>2, <1>4
  <2> HIDE DEF loc, m
  <2> QED
    BY <2>2, <2>3, <2>4, <2>5 DEF IsPlace
<1>5. CASE cs = <<>> /\ ms = <<>>
  BY <1>2, <1>5 DEF cs, ms
<1> QED
  BY <1>3, <1>4, <1>5

LEMMA LocateFacts ==
    ASSUME NEW st, IsStore(st), NEW cache, NEW disk, IsDisk(disk, st, cache), NEW name, LocateSymbol(st, cache, name) # Nowhere
    PROVE  IsPlace(LocateSymbol(st, cache, name), disk)
<1>1. CASE name \in DOMAIN cache
  <2> DEFINE at == cache[name]
             loc == Location(at.kind, at.path, at.span, st)
  <2>1. at.path \in DOMAIN disk /\ IsSpan(at.span)
    BY <1>1 DEF IsDisk
  <2>2. loc.path = at.path /\ loc.span = at.span /\ loc # Nowhere
    BY LocationFacts
  <2>3. LocateSymbol(st, cache, name) = loc
    BY <1>1 DEF LocateSymbol
  <2> HIDE DEF loc, at
  <2> QED
    BY <2>1, <2>2, <2>3 DEF IsPlace
<1>2. CASE name \notin DOMAIN cache
  <2>1. LocateSymbol(st, cache, name) = Scanned(st, name)
    BY <1>2 DEF LocateSymbol
  <2> QED
    BY <2>1, ScannedFacts
<1> QED
  BY <1>1, <1>2

\* The lines that are shown, of a block in a file of n lines.
WithinLines(lines, span, n) ==
    /\ 1 <= lines.from /\ lines.from <= lines.to /\ lines.to <= n
    /\ (span[1] .. span[2]) \cap (1 .. n) \subseteq lines.from .. lines.to

LEMMA WindowFacts ==
    ASSUME NEW span, IsSpan(span), NEW n \in Nat, n > 0, NEW around \in Nat
    PROVE  WithinLines(Window(Block(span, n), n, around), span, n)
<1> DEFINE a == span[1]  b == span[2]
           block == Block(span, n)
           x == block.from  y == block.to
           shown == Window(block, n, around)
           f == shown.from  t == shown.to
<1>1. a \in Nat /\ b \in Nat /\ a <= b
  BY DEF IsSpan
<1>2. \A v, lo, hi \in Int : lo <= hi => /\ Clamp(v, lo, hi) \in Int /\ lo <= Clamp(v, lo, hi) /\ Clamp(v, lo, hi) <= hi
                                         /\ (v >= lo => Clamp(v, lo, hi) <= v) /\ (v <= hi => Clamp(v, lo, hi) >= v)
  BY DEF Clamp
<1>3. x = Clamp(a, 1, n) /\ y = (IF Clamp(b, 1, n) < x THEN x ELSE Clamp(b, 1, n))
  BY DEF Block
<1> HIDE DEF block, a, b
<1>4. f = Clamp(x - around, 1, x) /\ t = Clamp(n, y, y + around)
  BY DEF Window
<1> HIDE DEF x, y, f, t, shown
<1>5. x \in Int /\ y \in Int /\ 1 <= x /\ x <= y /\ y <= n /\ (a >= 1 => x <= a) /\ (b <= n => y >= b)
  <2>1. x \in Int /\ 1 <= x /\ x <= n /\ (a >= 1 => x <= a)
    BY <1>1, <1>2, <1>3
  <2> DEFINE z == Clamp(b, 1, n)
  <2>2. z \in Int /\ 1 <= z /\ z <= n /\ (b <= n => z >= b)
    BY <1>1, <1>2
  <2>3. y = IF z < x THEN x ELSE z
    BY <1>3
  <2> HIDE DEF z
  <2> QED
    BY <1>1, <2>1, <2>2, <2>3
<1>6. /\ f \in Int /\ 1 <= f /\ f <= x /\ t \in Int /\ y <= t /\ t <= n
  <2>1. f \in Int /\ 1 <= f /\ f <= x
    BY <1>2, <1>4, <1>5
  <2>2. t \in Int /\ y <= t
    BY <1>2, <1>4, <1>5
  <2>3. t <= n
    BY <1>4, <1>5 DEF Clamp
  <2> QED
    BY <2>1, <2>2, <2>3
<1>7. \A i \in (a .. b) \cap (1 .. n) : i \in f .. t
  <2>1. b > n => y = n
    BY <1>1, <1>3, <1>5 DEF Clamp
  <2>2. a < 1 => x = 1
    BY <1>1, <1>3 DEF Clamp
  <2> QED
    BY <1>1, <1>5, <1>6, <2>1, <2>2
<1> QED
  BY <1>5, <1>6, <1>7 DEF WithinLines, f, t, shown, block, a, b

\* What is shown of a symbol lies in its file as it is now (getContextModeUncached).
LEMMA ShownInside ==
    ASSUME NEW st, IsStore(st), NEW cache, NEW disk, IsDisk(disk, st, cache), NEW name, NEW mode, NEW around \in Nat,
           NEW answer, answer = GetContext(st, NoCoverage, cache, disk, name, mode, around), ~Failed(answer)
    PROVE  ShownWithinFile(answer, disk[answer.at.path])
<1> DEFINE loc == LocateSymbol(st, cache, name)
           links == FindTestLinks(st, NoCoverage, name, 60)
           lines == Window(Block(loc.span, disk[loc.path]), disk[loc.path], around)
           tests == [i \in DOMAIN links |-> links[i].test]
<1>1. /\ name # <<>> /\ loc # Nowhere
      /\ answer = IF mode = "minimal" THEN [shown |-> "summary", at |-> loc]
                  ELSE IF disk[loc.path] = Gone THEN [shown |-> "unreadable", at |-> loc]
                  ELSE [shown |-> "source", at |-> loc, lines |-> lines, tests |-> tests]
  <2>1. name # <<>>
    BY DEF GetContext, Failed, Error
  <2>2. answer = Show(loc, links, disk, mode, around)
    BY <2>1 DEF GetContext
  <2> HIDE DEF loc, links
  <2>3. loc # Nowhere
    BY <2>2 DEF Show, Failed, Error
  <2> QED
    BY <2>1, <2>2, <2>3 DEF Show
<1>2. IsPlace(loc, disk)
  BY <1>1, LocateFacts
<1> HIDE DEF loc, links
<1>3. CASE answer.shown # "source"
  BY <1>3 DEF ShownWithinFile
<1>4. CASE answer.shown = "source"
  <2> DEFINE n == disk[loc.path]
             span == loc.span
  <2>1. answer.at = loc /\ answer.lines = lines /\ n # Gone
    <3> HIDE DEF lines, tests
    <3>1. mode # "minimal" /\ n # Gone
      BY <1>1, <1>4
    <3> QED
      BY <1>1, <3>1
  <2>2. n \in Nat /\ IsSpan(span)
    BY <1>2, <2>1 DEF IsPlace, IsDisk
  <2>3. lines = Window(Block(span, n), n, around)
    OBVIOUS
  <2> HIDE DEF lines
  <2>4. answer.at.span = span /\ disk[answer.at.path] = n
    BY <2>1
  <2> HIDE DEF n, span
  <2>5. n > 0 => WithinLines(lines, span, n)
    BY <2>2, <2>3, WindowFacts
  <2> QED
    BY <2>1, <2>4, <2>5 DEF WithinLines, ShownWithinFile
<1> QED
  BY <1>3, <1>4

\* Tags, as SearchByTags and GetTags tell them of a symbol.
Entry(full, tags, kind) == [full |-> full, tags |-> tags, kind |-> kind]
EntriesOf(c) == <<Entry(c.name, c.tags, "class")>> \o [j \in DOMAIN c.methods |-> Entry(Full(c, c.methods[j]), c.methods[j].tags, "method")]

LEMMA EntriesFacts ==
    ASSUME NEW c, IsClass(c)
    PROVE  \E T : /\ EntriesOf(c) \in Seq(T)
                  /\ T = {Entry(c.name, c.tags, "class")} \cup {Entry(Full(c, m), m.tags, "method") : m \in ToSet(c.methods)}
                  /\ \A e : Contains(EntriesOf(c), e) <=> e \in T
<1> DEFINE first == Entry(c.name, c.tags, "class")
           of(m) == Entry(Full(c, m), m.tags, "method")
           ms == c.methods
           rest == [j \in DOMAIN ms |-> of(ms[j])]
           R == {of(m) : m \in ToSet(ms)}
           T == {first} \cup R
<1>1. Len(ms) \in Nat /\ DOMAIN ms = 1 .. Len(ms) /\ (\A j \in DOMAIN ms : ms[j] \in ToSet(ms)) /\ \A m \in ToSet(ms) : \E j \in DOMAIN ms : m = ms[j]
  BY ListFacts DEF IsClass, ToSet
<1>2. EntriesOf(c) = <<first>> \o rest
  BY DEF EntriesOf
<1> HIDE DEF ms
<1>3. rest = [j \in DOMAIN ms |-> rest[j]] /\ (\A j \in DOMAIN ms : rest[j] = of(ms[j])) /\ \A j \in DOMAIN ms : of(ms[j]) \in R
  BY <1>1
<1>4. \A x : x \in R <=> \E j \in DOMAIN ms : x = of(ms[j])
  BY <1>1
<1> HIDE DEF first, of, rest, R
<1>5. rest \in Seq(R) /\ DOMAIN rest = 1 .. Len(ms) /\ Len(rest) = Len(ms)
  BY <1>1, <1>3, MapFacts
<1>6. \A x : Contains(rest, x) <=> x \in R
  BY <1>1, <1>3, <1>4, <1>5 DEF Contains
<1>7. <<first>> \in Seq(T) /\ rest \in Seq(T) /\ \A x : Contains(<<first>>, x) <=> x = first
  <2>1. first \in T /\ R \subseteq T
    OBVIOUS
  <2> HIDE DEF T
  <2>2. <<first>> \in Seq(T) /\ rest \in Seq(T)
    BY <1>5, <2>1
  <2>3. Len(<<first>>) = 1 /\ <<first>>[1] = first /\ DOMAIN <<first>> = 1 .. 1
    OBVIOUS
  <2>4. \A x : Contains(<<first>>, x) <=> x = first
    BY <2>3 DEF Contains
  <2> QED
    BY <2>2, <2>4
<1>8. \A x : x \in T <=> x = first \/ x \in R
  OBVIOUS
<1> HIDE DEF T
<1>9. <<first>> \o rest \in Seq(T) /\ \A x : Contains(<<first>> \o rest, x) <=> Contains(<<first>>, x) \/ Contains(rest, x)
  BY <1>7, ConcatFacts
<1>10. \A x : Contains(<<first>> \o rest, x) <=> x \in T
  BY <1>6, <1>7, <1>8, <1>9
<1>11. T = {first} \cup R
  BY DEF T
<1> QED
  BY <1>2, <1>9, <1>10, <1>11 DEF first, of, R, ms

\* The tags that a store has of what is named so.
TagsOfClass(st, n, g) == \E r \in ToSet(StoredClasses(st)) : r.class.name = n /\ g = r.class.tags
TagsOfMethod(st, n, g) == \E m \in MethodRows(st) : m.full = n /\ g = m.method.tags
Told(st, n, g) == TagsOfClass(st, n, g) \/ TagsOfMethod(st, n, g)

ToldAs(st, n, t) == \A g : Told(st, n, g) <=> g = t
Holds(s, x) == \A y : Contains(s, y) <=> y = x

LEMMA OnlyMember == ASSUME NEW T, NEW s \in Seq(T), Len(s) = 1 PROVE \E x : Holds(s, x)
<1>1. DOMAIN s = 1 .. 1
  OBVIOUS
<1>2. \A y : Contains(s, y) <=> y = s[1]
  BY <1>1 DEF Contains
<1> QED
  BY <1>2 DEF Holds

LEMMA NoMember == ASSUME NEW T, NEW s \in Seq(T), Len(s) = 0 PROVE \A y : ~Contains(s, y)
  BY DEF Contains

\* One symbol of a name has one set of tags.
LEMMA ToldOnce ==
    ASSUME NEW st, IsStore(st), NEW n, Len(ClassesNamed(st, n)) + Len(MethodsNamed(st, n)) = 1
    PROVE  n # <<>> /\ \E t : ToldAs(st, n, t)
<1> DEFINE cs == ClassesNamed(st, n)
           ms == MethodsNamed(st, n)
<1>1. /\ cs \in Seq(ClassRows(st)) /\ ms \in Seq(MethodRows(st))
      /\ \A x : Contains(cs, x) <=> x \in ToSet(StoredClasses(st)) /\ x.class.name = n
      /\ \A x : Contains(ms, x) <=> x \in MethodRows(st) /\ x.full = n
  BY NamedFacts
<1>2. \A x \in ToSet(StoredClasses(st)) : x.class.name # <<>>
  BY ClassesFacts DEF IsClass
<1>3. \A x \in MethodRows(st) : x.full # <<>>
  BY MethodsFacts
<1>4. \A g : Told(st, n, g) <=> (\E x : Contains(cs, x) /\ g = x.class.tags) \/ (\E x : Contains(ms, x) /\ g = x.method.tags)
  BY <1>1 DEF Told, TagsOfClass, TagsOfMethod
<1>5. Len(cs) \in Nat /\ Len(ms) \in Nat
  BY <1>1
<1>6. (Len(cs) = 1 /\ Len(ms) = 0) \/ (Len(cs) = 0 /\ Len(ms) = 1)
  <2> DEFINE a == Len(cs)  b == Len(ms)
  <2>1. a + b = 1
    OBVIOUS
  <2> HIDE DEF a, b
  <2>2. a \in Nat /\ b \in Nat
    BY <1>5 DEF a, b
  <2>3. (a = 1 /\ b = 0) \/ (a = 0 /\ b = 1)
    BY <2>1, <2>2
  <2> QED
    BY <2>3 DEF a, b
<1> HIDE DEF cs, ms
<1>7. CASE Len(cs) = 1 /\ Len(ms) = 0
  <2>0. PICK c : Holds(cs, c)
    BY <1>1, <1>7, OnlyMember
  <2>1. \A x : Contains(cs, x) <=> x = c
    BY <2>0 DEF Holds
  <2>2. \A x : ~Contains(ms, x)
    BY <1>1, <1>7, NoMember
  <2>3. ToldAs(st, n, c.class.tags)
    BY <1>4, <2>1, <2>2 DEF ToldAs
  <2>4. n # <<>>
    BY <1>1, <1>2, <2>1
  <2> QED
    BY <2>3, <2>4
<1>8. CASE Len(cs) = 0 /\ Len(ms) = 1
  <2>0. PICK m : Holds(ms, m)
    BY <1>1, <1>8, OnlyMember
  <2>1. \A x : Contains(ms, x) <=> x = m
    BY <2>0 DEF Holds
  <2>2. \A x : ~Contains(cs, x)
    BY <1>1, <1>8, NoMember
  <2>3. ToldAs(st, n, m.method.tags)
    BY <1>4, <2>1, <2>2 DEF ToldAs
  <2>4. n # <<>>
    BY <1>1, <1>3, <2>1
  <2> QED
    BY <2>3, <2>4
<1> QED
  BY <1>6, <1>7, <1>8

\* GetTags tells tags that the store has, when it has any.
SymbolRows(st) == FlattenSeq([i \in DOMAIN StoredClasses(st) |-> EntriesOf(StoredClasses(st)[i].class)])

LEMMA SymbolRowsFacts ==
    ASSUME NEW st, IsStore(st)
    PROVE  /\ IsList(SymbolRows(st))
           /\ \A n, g : Told(st, n, g) <=> \E e \in ToSet(SymbolRows(st)) : e.full = n /\ e.tags = g
<1> DEFINE cs == StoredClasses(st)
           rows(i) == EntriesOf(cs[i].class)
           all == [i \in DOMAIN cs |-> rows(i)]
           T == UNION {ToSet(EntriesOf(r.class)) : r \in ToSet(cs)}
<1>1. SymbolRows(st) = FlattenSeq(all)
  BY DEF SymbolRows
<1>2. cs \in Seq(ClassRows(st)) /\ \A r \in ToSet(cs) : IsClass(r.class)
  BY ClassesFacts
<1>3. \A m : m \in MethodRows(st) <=> \E r \in ToSet(cs) : \E x \in ToSet(r.class.methods) : m = MethodRow(r, x)
  BY DEF MethodRows, MethodsWithin
<1>4. \A n, g : Told(st, n, g) <=> \/ \E r \in ToSet(cs) : r.class.name = n /\ g = r.class.tags
                                   \/ \E r \in ToSet(cs) : \E x \in ToSet(r.class.methods) : Full(r.class, x) = n /\ g = x.tags
  <2>1. \A r, x : MethodRow(r, x).full = Full(r.class, x) /\ MethodRow(r, x).method = x
    BY DEF MethodRow
  <2>2. ASSUME NEW n, NEW g
        PROVE  TagsOfMethod(st, n, g) <=> \E r \in ToSet(cs) : \E x \in ToSet(r.class.methods) : Full(r.class, x) = n /\ g = x.tags
    <3>1. ASSUME TagsOfMethod(st, n, g)
          PROVE  \E r \in ToSet(cs) : \E x \in ToSet(r.class.methods) : Full(r.class, x) = n /\ g = x.tags
      <4>1. PICK m \in MethodRows(st) : m.full = n /\ g = m.method.tags
        BY <3>1 DEF TagsOfMethod
      <4>2. PICK r \in ToSet(cs) : \E x \in ToSet(r.class.methods) : m = MethodRow(r, x)
        BY <1>3
      <4>3. PICK x \in ToSet(r.class.methods) : m = MethodRow(r, x)
        BY <4>2
      <4> QED
        BY <2>1, <4>1, <4>3
    <3>2. ASSUME NEW r \in ToSet(cs), NEW x \in ToSet(r.class.methods), Full(r.class, x) = n, g = x.tags
          PROVE  TagsOfMethod(st, n, g)
      <4>1. MethodRow(r, x) \in MethodRows(st) /\ MethodRow(r, x).full = n /\ MethodRow(r, x).method.tags = g
        BY <1>3, <2>1, <3>2
      <4> QED
        BY <4>1 DEF TagsOfMethod
    <3> QED
      BY <3>1, <3>2
  <2> QED
    BY <2>2 DEF Told, TagsOfClass
<1> HIDE DEF cs
<1>5. Len(cs) \in Nat /\ DOMAIN cs = 1 .. Len(cs) /\ (\A i \in DOMAIN cs : cs[i] \in ToSet(cs)) /\ \A r \in ToSet(cs) : \E i \in DOMAIN cs : cs[i] = r
  <2>1. \A r \in ToSet(cs) : Contains(cs, r)
    BY <1>2, MemberFacts
  <2> QED
    BY <1>2, <2>1, SeqFacts
<1>6. ASSUME NEW r \in ToSet(cs)
      PROVE  /\ EntriesOf(r.class) \in Seq(T)
             /\ \A e : Contains(EntriesOf(r.class), e) <=> \/ e = Entry(r.class.name, r.class.tags, "class")
                                                           \/ \E x \in ToSet(r.class.methods) : e = Entry(Full(r.class, x), x.tags, "method")
  <2> DEFINE c == r.class
             s == EntriesOf(c)
  <2>1. IsClass(c)
    BY <1>2
  <2>2. PICK U : /\ s \in Seq(U)
                 /\ U = {Entry(c.name, c.tags, "class")} \cup {Entry(Full(c, m), m.tags, "method") : m \in ToSet(c.methods)}
                 /\ \A e : Contains(s, e) <=> e \in U
    BY <2>1, EntriesFacts
  <2>3. ToSet(s) \subseteq T
    OBVIOUS
  <2> HIDE DEF s, T
  <2>4. s \in Seq(T)
    BY <2>2, <2>3, MemberFacts, ListFacts
  <2>5. \A e : Contains(s, e) <=> \/ e = Entry(c.name, c.tags, "class")
                                  \/ \E x \in ToSet(c.methods) : e = Entry(Full(c, x), x.tags, "method")
    BY <2>2
  <2> QED
    BY <2>4, <2>5 DEF s
<1> HIDE DEF T
<1>7. all \in Seq(Seq(T)) /\ Len(all) = Len(cs) /\ \A i \in DOMAIN cs : all[i] = rows(i)
  <2>1. all = [i \in DOMAIN cs |-> all[i]] /\ (\A i \in DOMAIN cs : all[i] \in Seq(T)) /\ \A i \in DOMAIN cs : all[i] = rows(i)
    BY <1>5, <1>6
  <2> HIDE DEF all, rows
  <2> QED
    BY <1>5, <2>1, MapFacts
<1> DEFINE flat == FlattenSeq(all)
<1>8. flat \in Seq(T) /\ \A x : Contains(flat, x) <=> \E i \in 1 .. Len(cs) : Contains(all[i], x)
  <2> HIDE DEF all
  <2> QED
    BY <1>7, FlattenFacts
<1> HIDE DEF all
<1>9. \A x : Contains(flat, x) <=> \E r \in ToSet(cs) : Contains(EntriesOf(r.class), x)
  <2> HIDE DEF flat
  <2>1. 1 .. Len(cs) = DOMAIN cs
    BY <1>5
  <2>2. \A x : Contains(flat, x) <=> \E i \in DOMAIN cs : Contains(rows(i), x)
    BY <1>7, <1>8, <2>1
  <2> QED
    BY <1>5, <2>2
<1> HIDE DEF flat
<1>10. IsList(flat) /\ \A x : x \in ToSet(flat) <=> Contains(flat, x)
  BY <1>8, MemberFacts
<1>11. \A f, t, k : Entry(f, t, k).full = f /\ Entry(f, t, k).tags = t
  BY DEF Entry
<1>12. ASSUME NEW n, NEW g PROVE Told(st, n, g) <=> \E e \in ToSet(flat) : e.full = n /\ e.tags = g
  <2>1. ASSUME Told(st, n, g) PROVE \E e \in ToSet(flat) : e.full = n /\ e.tags = g
    <3>1. CASE \E r \in ToSet(cs) : r.class.name = n /\ g = r.class.tags
      <4>1. PICK r \in ToSet(cs) : r.class.name = n /\ g = r.class.tags
        BY <3>1
      <4> DEFINE e == Entry(r.class.name, r.class.tags, "class")
      <4>2. Contains(EntriesOf(r.class), e)
        BY <1>6
      <4>3. e.full = n /\ e.tags = g
        BY <1>11, <4>1
      <4> HIDE DEF e
      <4> QED
        BY <1>9, <1>10, <4>2, <4>3
    <3>2. CASE \E r \in ToSet(cs) : \E x \in ToSet(r.class.methods) : Full(r.class, x) = n /\ g = x.tags
      <4>1. PICK r \in ToSet(cs) : \E x \in ToSet(r.class.methods) : Full(r.class, x) = n /\ g = x.tags
        BY <3>2
      <4>2. PICK x \in ToSet(r.class.methods) : Full(r.class, x) = n /\ g = x.tags
        BY <4>1
      <4> DEFINE e == Entry(Full(r.class, x), x.tags, "method")
      <4>3. Contains(EntriesOf(r.class), e)
        BY <1>6
      <4>4. e.full = n /\ e.tags = g
        BY <1>11, <4>2
      <4> HIDE DEF e
      <4> QED
        BY <1>9, <1>10, <4>3, <4>4
    <3> QED
      BY <1>4, <2>1, <3>1, <3>2
  <2>2. ASSUME NEW e \in ToSet(flat), e.full = n, e.tags = g PROVE Told(st, n, g)
    <3>1. PICK r \in ToSet(cs) : Contains(EntriesOf(r.class), e)
      BY <1>9, <1>10
    <3>2. CASE e = Entry(r.class.name, r.class.tags, "class")
      BY <1>4, <1>11, <2>2, <3>2
    <3>3. CASE \E x \in ToSet(r.class.methods) : e = Entry(Full(r.class, x), x.tags, "method")
      <4>1. PICK x \in ToSet(r.class.methods) : e = Entry(Full(r.class, x), x.tags, "method")
        BY <3>3
      <4>2. Full(r.class, x) = n /\ x.tags = g
        BY <1>11, <2>2, <4>1
      <4> QED
        BY <1>4, <4>2
    <3> QED
      BY <1>6, <3>1, <3>2, <3>3
  <2> QED
    BY <2>1, <2>2
<1> QED
  BY <1>1, <1>10, <1>12 DEF flat

LEMMA GetTagsFacts ==
    ASSUME NEW st, IsStore(st), NEW n, n # <<>>, NEW t, ToldAs(st, n, t)
    PROVE  GetTags(st, n).tags = t
<1> DEFINE rows == SymbolRows(st)
           S == {s \in ToSet(rows) : s.full = n}
           found == Kept(rows, S)
<1>1. IsList(rows) /\ \A g : (\E e \in ToSet(rows) : e.full = n /\ e.tags = g) <=> g = t
  BY SymbolRowsFacts DEF ToldAs
<1>2. GetTags(st, n) = IF found = <<>> THEN Error("ERR_SYMBOL_NOT_FOUND") ELSE [kind |-> Head(found).kind, tags |-> Head(found).tags]
  BY DEF GetTags, SymbolRows, EntriesOf, Entry
<1> HIDE DEF rows
<1>3. rows \in Seq(ToSet(rows)) /\ \A x : Contains(rows, x) <=> x \in ToSet(rows)
  BY <1>1, ListFacts, MemberFacts
<1>4. found \in Seq(ToSet(rows)) /\ \A x : Contains(found, x) <=> x \in S
  <2>1. \A x : x \in S => x \in ToSet(rows)
    OBVIOUS
  <2> HIDE DEF S
  <2> QED
    BY <1>3, <2>1, KeptFacts
<1> HIDE DEF found
<1>5. PICK e \in ToSet(rows) : e.full = n /\ e.tags = t
  BY <1>1
<1>6. found # <<>>
  <2>1. Contains(found, e)
    BY <1>4, <1>5
  <2>2. \A x : ~Contains(<<>>, x)
    BY DEF Contains
  <2> QED
    BY <2>1, <2>2
<1>7. Head(found) \in S
  BY <1>4, <1>6, HeadFacts
<1>8. Head(found).tags = t
  BY <1>1, <1>7
<1> QED
  BY <1>2, <1>6, <1>8

\* What some tags find, GetTags tells of it (SearchByTags, GetTags).
LEMMA TagsFind ==
    ASSUME NEW st, IsStore(st), NEW tags
    PROVE  TagsFindTheirSymbols(st, tags)
<1> DEFINE found == SearchByTags(st, tags)
           names == {c.class.name : c \in ToSet(StoredClasses(st))} \cup {m.full : m \in ToSet(StoredMethods(st))}
<1> SUFFICES ASSUME ~Failed(found), NEW s \in names, Len(ClassesNamed(st, s)) + Len(MethodsNamed(st, s)) = 1
             PROVE  s \in found.classes \cup found.methods <=> tags \subseteq GetTags(st, s).tags
  BY DEF TagsFindTheirSymbols
<1>1. PICK t : ToldAs(st, s, t)
  BY ToldOnce
<1>2. GetTags(st, s).tags = t
  BY <1>1, ToldOnce, GetTagsFacts
<1>3. ToSet(StoredMethods(st)) = MethodRows(st)
  BY MethodsFacts
<1> DEFINE classes == {c.class.name : c \in {d \in ToSet(StoredClasses(st)) : HasAll(d.class.tags, tags)}}
           methods == {m.full : m \in {n \in ToSet(StoredMethods(st)) : HasAll(n.method.tags, tags)}}
<1>4. found.classes = classes /\ found.methods = methods
  <2>1. ~(tags = {} \/ "" \in tags)
    BY DEF SearchByTags, Error, Failed
  <2> QED
    BY <2>1 DEF SearchByTags
<1> HIDE DEF found
<1>5. s \in classes <=> \E g : TagsOfClass(st, s, g) /\ tags \subseteq g
  BY DEF TagsOfClass, HasAll
<1>6. s \in methods <=> \E g : TagsOfMethod(st, s, g) /\ tags \subseteq g
  BY <1>3 DEF TagsOfMethod, HasAll
<1> HIDE DEF classes, methods
<1>7. s \in classes \cup methods <=> tags \subseteq t
  BY <1>1, <1>5, <1>6 DEF ToldAs, Told
<1> QED
  BY <1>2, <1>4, <1>7

\* What a document of the index names is in the store.
LEMMA ResolvedFacts ==
    ASSUME NEW st, IsStore(st), NEW doc, Resolved(st, doc).name # <<>>
    PROVE  /\ \/ \E c \in ToSet(StoredClasses(st)) : c.class.name = Resolved(st, doc).name
              \/ \E m \in MethodRows(st) : m.full = Resolved(st, doc).name
           /\ doc.kind = "method" => Resolved(st, doc).kind = "method"
<1> DEFINE C == {c \in ToSet(StoredClasses(st)) : c.class.id = doc.id}
           M == {m \in ToSet(StoredMethods(st)) : m.method.id = doc.id}
           cs == Kept(StoredClasses(st), C)
           ms == Kept(StoredMethods(st), M)
           r == Resolved(st, doc)
<1>1. r = CASE doc.kind = "file" -> [kind |-> "file", path |-> doc.path, name |-> <<>>]
            [] doc.kind = "class" /\ cs # <<>> -> [kind |-> "class", path |-> Head(cs).file.path, name |-> Head(cs).class.name]
            [] doc.kind = "method" /\ ms # <<>> -> [kind |-> "method", path |-> Head(ms).file.path, name |-> Head(ms).full]
            [] OTHER -> [kind |-> "", path |-> "", name |-> <<>>]
  BY DEF Resolved, SymbolOfDoc, ClassesByID, MethodsByID
<1>2. StoredClasses(st) \in Seq(ClassRows(st)) /\ \A x : Contains(StoredClasses(st), x) <=> x \in ToSet(StoredClasses(st))
  BY ClassesFacts, MemberFacts
<1>3. StoredMethods(st) \in Seq(MethodRows(st)) /\ \A x : Contains(StoredMethods(st), x) <=> x \in MethodRows(st)
  BY MethodsFacts, MemberFacts
<1>4. cs \in Seq(ClassRows(st)) /\ \A x : Contains(cs, x) => x \in ToSet(StoredClasses(st))
  <2> HIDE DEF C
  <2> QED
    BY <1>2, KeptFacts
<1>5. ms \in Seq(MethodRows(st)) /\ \A x : Contains(ms, x) => x \in MethodRows(st)
  <2> HIDE DEF M
  <2> QED
    BY <1>3, KeptFacts
<1>6. r.name # <<>>
  OBVIOUS
<1> HIDE DEF cs, ms, r
<1>7. CASE doc.kind = "class" /\ cs # <<>>
  <2>1. Head(cs) \in ToSet(StoredClasses(st))
    BY <1>4, <1>7, HeadFacts
  <2>2. r.name = Head(cs).class.name
    BY <1>1, <1>7
  <2> QED
    BY <1>7, <2>1, <2>2 DEF r
<1>8. CASE doc.kind = "method" /\ ms # <<>>
  <2>1. Head(ms) \in MethodRows(st)
    BY <1>5, <1>8, HeadFacts
  <2>2. r.name = Head(ms).full /\ r.kind = "method"
    BY <1>1, <1>8
  <2> QED
    BY <2>1, <2>2 DEF r
<1>9. CASE ~(doc.kind = "class" /\ cs # <<>>) /\ ~(doc.kind = "method" /\ ms # <<>>)
  <2>1. r.name = <<>>
    BY <1>1, <1>9
  <2> QED
    BY <1>6, <2>1
<1> QED
  BY <1>7, <1>8, <1>9

\* What the store has, a context query finds.
LEMMA StoredIsFound ==
    ASSUME NEW st, IsStore(st), NEW n,
           (\E c \in ToSet(StoredClasses(st)) : c.class.name = n) \/ (\E m \in MethodRows(st) : m.full = n)
    PROVE  Scanned(st, n) # Nowhere
<1> DEFINE cs == ClassesNamed(st, n)
           ms == MethodsNamed(st, n)
<1>1. /\ \A x : Contains(cs, x) <=> x \in ToSet(StoredClasses(st)) /\ x.class.name = n
      /\ \A x : Contains(ms, x) <=> x \in MethodRows(st) /\ x.full = n
  BY NamedFacts
<1>2. Scanned(st, n) =
          IF cs # <<>> THEN Location("class", Head(cs).file.path, Head(cs).class.span, st)
          ELSE IF ms # <<>> THEN Location("method", Head(ms).file.path, Head(ms).method.span, st)
          ELSE Nowhere
  BY DEF Scanned
<1>3. \A x : ~Contains(<<>>, x)
  BY DEF Contains
<1>4. cs # <<>> \/ ms # <<>>
  BY <1>1, <1>3
<1>5. \A k, p, s : Location(k, p, s, st) # Nowhere
  BY DEF Location, Nowhere
<1> HIDE DEF cs, ms
<1> QED
  BY <1>2, <1>4, <1>5

\* Disambiguation loses no name, and what a search names is found (SearchWithOptions).
LEMMA SearchKeepsAll ==
    ASSUME NEW st, IsStore(st), NEW docs, IsList(docs), NEW best, best \in Verdicts(st, docs)
    PROVE  SearchKeepsNames(st, docs, best)
<1> DEFINE D == DOMAIN docs
           N == Len(docs)
           group(i) == {j \in D : SameGroup(st, docs[i], docs[j])}
           drop == {i \in D : Cardinality(group(i)) > 1 /\ best[i] # 0 /\ i # best[i]}
           ids == [i \in D |-> i]
           left == Kept(ids, D \ drop)
           out == [i \in DOMAIN left |-> docs[left[i]]]
           found == [i \in DOMAIN out |-> Result(st, out[i])]
<1>1. Search(st, docs, best) = found
  BY DEF Search, Enriched, Disambiguated
<1>2. N \in Nat /\ D = 1 .. N
  BY ListFacts
<1>3. /\ \A i \in D : best[i] \in 0 .. N
      /\ \A i, j \in D : /\ best[i] # 0 => SameGroup(st, docs[i], docs[best[i]])
                         /\ SameGroup(st, docs[i], docs[j]) => best[i] = best[j]
  BY DEF Verdicts
<1> HIDE DEF D, N
<1>4. left \in Seq(D) /\ \A k : Contains(left, k) <=> k \in D \ drop
  <2>1. ids = [i \in D |-> ids[i]] /\ \A i \in D : ids[i] = i
    OBVIOUS
  <2> HIDE DEF ids, drop
  <2>2. ids \in Seq(D) /\ DOMAIN ids = D
    BY <1>2, <2>1, MapFacts
  <2>3. \A k : Contains(ids, k) <=> k \in D
    BY <2>1, <2>2 DEF Contains
  <2> DEFINE R == D \ drop
  <2>4. \A k : k \in R => k \in D
    OBVIOUS
  <2> HIDE DEF R
  <2>5. Kept(ids, R) \in Seq(D) /\ \A k : Contains(Kept(ids, R), k) <=> Contains(ids, k) /\ k \in R
    BY <2>2, KeptFacts
  <2> QED
    BY <2>3, <2>4, <2>5 DEF R
<1>5. \A i \in D : i \notin drop => \E j \in DOMAIN left : left[j] = i
  BY <1>4, SeqFacts
<1>6. \A j \in DOMAIN left : left[j] \in D
  BY <1>4
<1> HIDE DEF left
<1>7. DOMAIN found = DOMAIN left /\ DOMAIN out = DOMAIN left /\ \A j \in DOMAIN left : found[j] = Result(st, docs[left[j]])
  OBVIOUS
<1>8. ASSUME NEW d
      PROVE  /\ Result(st, d).doc = d /\ Result(st, d).name = Resolved(st, d).name
             /\ Result(st, d).kind = Resolved(st, d).kind
  <2> DEFINE r == Resolved(st, d)
  <2>1. Result(st, d) = [doc |-> d, kind |-> r.kind, name |-> r.name, path |-> r.path]
    BY DEF Result
  <2> HIDE DEF r
  <2>2. Result(st, d).doc = d /\ Result(st, d).name = r.name /\ Result(st, d).kind = r.kind
    BY <2>1
  <2> QED
    BY <2>2 DEF r
<1> HIDE DEF found, out
<1>9. \A j \in DOMAIN left : /\ found[j].doc = docs[left[j]] /\ found[j].name = Resolved(st, docs[left[j]]).name
                             /\ found[j].kind = Resolved(st, docs[left[j]]).kind
  BY <1>7, <1>8
<1>10. ASSUME NEW i \in D
       PROVE  \E j \in DOMAIN found : \/ found[j].doc = docs[i]
                                      \/ SameGroup(st, docs[i], docs[i]) /\ found[j].kind = "method"
                                            /\ Last(found[j].name) = Last(Resolved(st, docs[i]).name)
  <2>1. CASE i \notin drop
    BY <1>5, <1>7, <1>9, <2>1
  <2>2. CASE i \in drop
    <3> DEFINE b == best[i]
    <3>1. b \in D /\ b # 0 /\ SameGroup(st, docs[i], docs[b])
      BY <1>2, <1>3, <2>2
    <3>2. best[b] = b
      BY <1>3, <3>1
    <3>3. b \notin drop
      BY <3>2
    <3>4. PICK j \in DOMAIN left : left[j] = b
      BY <1>5, <3>1, <3>3
    <3> HIDE DEF b, drop
    <3>5. SameGroup(st, docs[i], docs[i]) /\ docs[b].kind = "method" /\ Resolved(st, docs[b]).name # <<>>
          /\ Last(Resolved(st, docs[i]).name) = Last(Resolved(st, docs[b]).name)
      BY <3>1 DEF SameGroup, SameName
    <3>6. Resolved(st, docs[b]).kind = "method"
      BY <3>5, ResolvedFacts
    <3> QED
      BY <1>7, <1>9, <3>4, <3>5, <3>6
  <2> QED
    BY <2>1, <2>2
<1>11. ASSUME NEW j \in DOMAIN found, found[j].name # <<>> PROVE Scanned(st, found[j].name) # Nowhere
  <2> DEFINE d == docs[left[j]]
  <2>1. found[j].name = Resolved(st, d).name
    BY <1>7, <1>9
  <2> HIDE DEF d
  <2> QED
    BY <1>11, <2>1, ResolvedFacts, StoredIsFound
<1> QED
  BY <1>1, <1>10, <1>11 DEF SearchKeepsNames, NamesKept, D

-----------------------------------------------------------------------------
(* Imports                                                                 *)

\* The least of some numbers is chosen.
LEMMA LeastChosen ==
    ASSUME NEW S \in SUBSET Nat, S # {}, NEW k, k = CHOOSE i \in S : \A j \in S : i <= j
    PROVE  k \in S /\ \A j \in S : k <= j
<1>1. \E i \in S : \A j \in S : i <= j
  BY LeastNat
<1> QED
  BY <1>1

\* What is found is found under one of the keys, and under the first if there.
LEMMA FoundFacts ==
    ASSUME NEW K, NEW keys \in Seq(K), NEW files
    PROVE  /\ \A f \in FirstFound(files, keys) : \E key \in K : f \in files /\ key \in Keys(f)
           /\ keys # <<>> /\ Found(files, Head(keys)) # {} => FirstFound(files, keys) = Found(files, Head(keys))
<1> DEFINE hits == {i \in DOMAIN keys : Found(files, keys[i]) # {}}
           k == CHOOSE i \in hits : \A j \in hits : i <= j
<1>1. FirstFound(files, keys) = IF hits = {} THEN {} ELSE Found(files, keys[k])
  BY DEF FirstFound
<1>2. Len(keys) \in Nat /\ DOMAIN keys = 1 .. Len(keys) /\ \A i \in DOMAIN keys : keys[i] \in K
  OBVIOUS
<1>3. hits \in SUBSET Nat /\ \A i \in hits : i \in DOMAIN keys /\ Found(files, keys[i]) # {}
  BY <1>2
<1>4. hits # {} => k \in hits /\ \A j \in hits : k <= j
  <2> DEFINE kk == k
  <2>1. kk = CHOOSE i \in hits : \A j \in hits : i <= j
    OBVIOUS
  <2> HIDE DEF kk, hits
  <2>2. hits # {} => kk \in hits /\ \A j \in hits : kk <= j
    BY <1>3, <2>1, LeastChosen
  <2> QED
    BY <2>2 DEF kk
<1>5. keys # <<>> /\ Found(files, Head(keys)) # {} => 1 \in hits /\ Head(keys) = keys[1]
  BY <1>2
<1> HIDE DEF k
<1>6. ASSUME NEW f \in FirstFound(files, keys) PROVE \E key \in K : f \in files /\ key \in Keys(f)
  <2>1. hits # {} /\ f \in Found(files, keys[k])
    BY <1>1, <1>6
  <2>2. keys[k] \in K
    BY <1>2, <1>3, <1>4, <2>1
  <2> QED
    BY <2>1, <2>2 DEF Found
<1>7. ASSUME keys # <<>>, Found(files, Head(keys)) # {} PROVE FirstFound(files, keys) = Found(files, Head(keys))
  <2>1. 1 \in hits /\ Head(keys) = keys[1]
    BY <1>5, <1>7
  <2>2. hits # {} /\ k \in hits /\ k <= 1
    BY <1>4, <2>1
  <2>3. k = 1
    BY <1>2, <1>3, <2>2
  <2> QED
    BY <1>1, <2>1, <2>2, <2>3
<1> QED
  BY <1>6, <1>7

\* What is taken of a package lies below one of the directories.
LEMMA BelowFacts ==
    ASSUME NEW K, NEW dirs \in Seq(K), NEW files
    PROVE  \A f \in FirstBelow(files, dirs) : \E dir \in K : f \in files /\ \E key \in Keys(f) : IsStrictPrefix(dir, key)
<1> DEFINE hits == {i \in DOMAIN dirs : Below(files, dirs[i]) # {}}
           k == CHOOSE i \in hits : \A j \in hits : i <= j
<1>1. FirstBelow(files, dirs) = IF hits = {} THEN {} ELSE Below(files, dirs[k])
  BY DEF FirstBelow
<1>2. Len(dirs) \in Nat /\ DOMAIN dirs = 1 .. Len(dirs) /\ \A i \in DOMAIN dirs : dirs[i] \in K
  OBVIOUS
<1>3. hits \in SUBSET Nat /\ \A i \in hits : i \in DOMAIN dirs
  BY <1>2
<1>4. hits # {} => k \in hits
  <2> DEFINE kk == k
  <2>1. kk = CHOOSE i \in hits : \A j \in hits : i <= j
    OBVIOUS
  <2> HIDE DEF kk, hits
  <2>2. hits # {} => kk \in hits
    BY <1>3, <2>1, LeastChosen
  <2> QED
    BY <2>2 DEF kk
<1> HIDE DEF k
<1>5. ASSUME NEW f \in FirstBelow(files, dirs)
      PROVE  \E dir \in K : f \in files /\ \E key \in Keys(f) : IsStrictPrefix(dir, key)
  <2>1. hits # {} /\ f \in Below(files, dirs[k])
    BY <1>1, <1>5
  <2>2. dirs[k] \in K
    BY <1>2, <1>3, <1>4, <2>1
  <2> QED
    BY <2>1, <2>2 DEF Below
<1> QED
  BY <1>5

\* Paths over some segments that end with a given one.
Ending(U, n) == {k \in Seq(U) : k # <<>> /\ k[Len(k)] = n}

LEMMA EndingFacts ==
    ASSUME NEW U, NEW n \in U
    PROVE  /\ <<n>> \in Ending(U, n)
           /\ \A s \in Seq(U) : Append(s, n) \in Ending(U, n)
           /\ \A s \in Seq(U) : \A t \in Ending(U, n) : s \o t \in Ending(U, n)
<1>1. <<n>> \in Ending(U, n)
  BY DEF Ending
<1>2. ASSUME NEW s \in Seq(U) PROVE Append(s, n) \in Ending(U, n)
  <2> DEFINE u == Append(s, n)
  <2>1. u \in Seq(U) /\ Len(u) = Len(s) + 1 /\ u[Len(s) + 1] = n /\ Len(s) \in Nat
    BY AppendFacts
  <2> HIDE DEF u
  <2>2. u # <<>>
    BY <2>1
  <2> QED
    BY <2>1, <2>2 DEF Ending, u
<1>3. ASSUME NEW s \in Seq(U), NEW t \in Ending(U, n) PROVE s \o t \in Ending(U, n)
  <2>1. t \in Seq(U) /\ t # <<>> /\ t[Len(t)] = n
    BY DEF Ending
  <2>2. Len(t) \in Nat \ {0}
    BY <2>1
  <2>3. /\ Len(s) \in Nat /\ Len(s \o t) = Len(s) + Len(t) /\ s \o t \in Seq(U)
        /\ \A i \in 1 .. Len(s) + Len(t) : (s \o t)[i] = IF i <= Len(s) THEN s[i] ELSE t[i - Len(s)]
    BY <2>1, ConcatAt, ConcatFacts
  <2> DEFINE u == s \o t  l == Len(s) + Len(t)
  <2>4. l \in 1 .. l /\ ~(l <= Len(s)) /\ l - Len(s) = Len(t)
    BY <2>2, <2>3
  <2> HIDE DEF u
  <2>5. u \in Seq(U) /\ Len(u) = l /\ u[l] = n
    BY <2>1, <2>3, <2>4 DEF u
  <2> HIDE DEF l
  <2>6. u # <<>>
    BY <2>4, <2>5
  <2> QED
    BY <2>5, <2>6 DEF Ending, u
<1> QED
  BY <1>1, <1>2, <1>3

\* The places under the roots are of the kind that each root's are.
LEMMA UnderRootsFacts ==
    ASSUME NEW K, NEW places, \A root \in Roots : places[root] \in Seq(K)
    PROVE  UnderRoots(places) \in Seq(K)
<1> DEFINE d == DOMAIN SourceRoots
           each == [i \in d |-> places[SourceRoots[i]]]
<1>1. Len(SourceRoots) \in Nat /\ d = 1 .. Len(SourceRoots)
  BY ImportsAssumption, ListFacts
<1>2. each = [i \in d |-> each[i]] /\ \A i \in d : each[i] \in Seq(K)
  BY DEF Roots, ToSet
<1>3. UnderRoots(places) = FlattenSeq(each)
  BY DEF UnderRoots
<1> HIDE DEF each, d
<1>4. each \in Seq(Seq(K))
  BY <1>1, <1>2, MapFacts
<1> QED
  BY <1>3, <1>4, FlattenFacts

\* A key of the index is an end of the file's path, or its stem.
LEMMA KeyFacts ==
    ASSUME NEW f, IsList(f.dir), NEW key \in Keys(f)
    PROVE  /\ IsList(key) /\ Len(key) \in Nat /\ DOMAIN key = 1 .. Len(key)
           /\ key[Len(key)] \in {f.stem, f.name}
           /\ \A n \in 1 .. Len(key) - 1 : key[n] \in ToSet(f.dir)
<1> DEFINE x == IF f.code THEN f.stem ELSE f.name
           d == f.dir
           path == Append(d, x)
           N == Len(d) + 1
<1>1. d \in Seq(ToSet(d)) /\ Len(d) \in Nat /\ DOMAIN d = 1 .. Len(d)
  BY ListFacts
<1>2. \A i \in 1 .. Len(d) : d[i] \in ToSet(d)
  BY <1>1 DEF ToSet
<1>3. x \in {f.stem, f.name}
  OBVIOUS
<1> DEFINE T == ToSet(d) \cup {x}
<1>4. d \in Seq(T) /\ x \in T
  BY ListFacts
<1>5. key \in {SubSeq(path, i, Len(path)) : i \in 1 .. Len(path)} \/ key = <<f.stem>>
  BY DEF Keys
<1> HIDE DEF x, d
<1>6. /\ path \in Seq(T) /\ Len(path) = N /\ N \in Nat /\ path[N] = x
      /\ \A i \in 1 .. Len(d) : path[i] = d[i]
  BY <1>1, <1>4, AppendFacts
<1>7. CASE key = <<f.stem>>
  BY <1>7 DEF IsList
<1>8. CASE key \in {SubSeq(path, i, Len(path)) : i \in 1 .. Len(path)}
  <2>1. PICK i \in 1 .. N : key = SubSeq(path, i, N)
    BY <1>6, <1>8
  <2> HIDE DEF path, T
  <2> DEFINE m == N - i + 1
  <2>2. i \in 1 .. N /\ m \in 1 .. N
    BY <1>6
  <2>3. key = [n \in 1 .. m |-> path[i + n - 1]] /\ Len(key) = m
    BY <1>6, <2>1, <2>2
  <2>4. DOMAIN key = 1 .. m /\ \A n \in 1 .. m : key[n] = path[i + n - 1]
    BY <2>3
  <2>5. i + m - 1 = N /\ m \in 1 .. m
    BY <1>6, <2>2
  <2>6. key[m] = x
    BY <1>6, <2>4, <2>5
  <2>7. ASSUME NEW n \in 1 .. m - 1 PROVE key[n] \in ToSet(d)
    <3>1. i + n - 1 \in 1 .. Len(d) /\ n \in 1 .. m
      BY <1>1, <1>6, <2>2
    <3> QED
      BY <1>2, <1>6, <2>4, <3>1
  <2>8. Len(key) = m /\ m \in Nat /\ key = [n \in 1 .. m |-> key[n]]
    BY <2>2, <2>3, <2>4
  <2> HIDE DEF m, N
  <2> QED
    BY <1>3, <2>4, <2>6, <2>7, <2>8 DEF d, IsList
<1> QED
  BY <1>5, <1>7, <1>8

\* Below a package lie the files that have its last segment among their directories.
LEMMA BelowNamed ==
    ASSUME NEW f, IsList(f.dir), NEW key \in Keys(f), NEW U, NEW n, NEW dir \in Ending(U, n), IsStrictPrefix(dir, key)
    PROVE  n \in ToSet(f.dir)
<1> DEFINE l == Len(dir)
<1>1. IsList(key) /\ Len(key) \in Nat /\ DOMAIN key = 1 .. Len(key) /\ \A i \in 1 .. Len(key) - 1 : key[i] \in ToSet(f.dir)
  BY KeyFacts
<1>2. dir \in Seq(U) /\ dir # <<>> /\ dir[l] = n
  BY DEF Ending
<1>3. l \in Nat \ {0}
  BY <1>2
<1>4. l <= Len(key) /\ SubSeq(dir, 1, l) = SubSeq(key, 1, l) /\ dir # key
  BY DEF IsStrictPrefix, IsPrefix
<1>5. SubSeq(dir, 1, l) = [i \in 1 .. l |-> dir[i]] /\ SubSeq(key, 1, l) = [i \in 1 .. l |-> key[i]]
  BY <1>3
<1>6. \A i \in 1 .. l : dir[i] = key[i]
  BY <1>4, <1>5
<1>7. key[l] = n
  BY <1>2, <1>3, <1>6
<1>8. l # Len(key)
  <2>1. SUFFICES ASSUME l = Len(key) PROVE FALSE
    OBVIOUS
  <2>2. dir = [i \in 1 .. l |-> dir[i]]
    BY <1>2
  <2>3. key = [i \in 1 .. l |-> key[i]]
    BY <1>1, <2>1 DEF IsList
  <2> QED
    BY <1>4, <1>6, <2>2, <2>3
<1> QED
  BY <1>1, <1>3, <1>4, <1>7, <1>8

\* Each resolver, asked for one name, looks under keys that end with that name;
\* asked for all of a package, in directories that do.
Wanted(imp) == imp.segs[Len(imp.segs)]
Segments(imp) == ToSet(imp.segs) \cup ToSet(Module) \cup UNION {ToSet(root) : root \in Roots}

LEMMA SegmentFacts ==
    ASSUME NEW imp, IsPath(imp.segs)
    PROVE  /\ imp.segs \in Ending(Segments(imp), Wanted(imp)) /\ Wanted(imp) \in Segments(imp) /\ Last(imp.segs) = Wanted(imp)
           /\ imp.segs \in Seq(Segments(imp)) /\ Head(imp.segs) \in Segments(imp)
           /\ Tail(imp.segs) # <<>> => Tail(imp.segs) \in Ending(Segments(imp), Wanted(imp))
           /\ \A root \in Roots : root \in Seq(Segments(imp))
           /\ Len(imp.segs) \in Nat /\ Len(Module) \in Nat
<1> DEFINE U == Segments(imp)  s == imp.segs
<1>1. IsList(s) /\ s # <<>>
  BY DEF IsPath
<1>2. ToSet(s) \subseteq U
  BY DEF Segments
<1>3. s \in Seq(U) /\ Len(s) \in Nat /\ DOMAIN s = 1 .. Len(s)
  BY <1>1, <1>2, ListFacts
<1>4. ASSUME NEW root \in Roots PROVE root \in Seq(U)
  <2>1. PICK i \in DOMAIN SourceRoots : root = SourceRoots[i]
    BY DEF Roots, ToSet
  <2>2. IsList(root)
    BY <2>1, ImportsAssumption
  <2>3. ToSet(root) \subseteq U
    BY DEF Segments
  <2> QED
    BY <2>2, <2>3, ListFacts
<1>5. Len(Module) \in Nat
  BY ImportsAssumption, ListFacts
<1> HIDE DEF U, s
<1> DEFINE n == s[Len(s)]
<1>6. Len(s) \in Nat \ {0}
  BY <1>1, <1>3
<1>7. n \in U /\ Head(s) \in U /\ s \in Ending(U, n)
  BY <1>1, <1>3, <1>6 DEF Ending
<1>8. ASSUME Tail(s) # <<>> PROVE Tail(s) \in Ending(U, n)
  <2> DEFINE t == Tail(s)
  <2>1. t \in Seq(U) /\ Len(t) = Len(s) - 1 /\ \A i \in 1 .. Len(t) : t[i] = s[i + 1]
    BY <1>1, <1>3, <1>6
  <2> HIDE DEF t
  <2>2. t # <<>>
    BY <1>8 DEF t
  <2>3. Len(t) \in Nat \ {0}
    BY <2>1, <2>2
  <2>4. t[Len(t)] = n
    BY <1>6, <2>1, <2>3
  <2> QED
    BY <2>1, <2>2, <2>4 DEF Ending, t
<1>9. Last(s) = n
  BY DEF Last
<1> QED
  BY <1>3, <1>4, <1>5, <1>7, <1>8, <1>9 DEF U, s, Wanted

\* A list of keys of its own.
LEMMA ListOf ==
    ASSUME NEW K, NEW a \in K
    PROVE  /\ <<a>> \in Seq(K) /\ <<a>> # <<>> /\ Head(<<a>>) = a
           /\ \A b \in K : <<a, b>> \in Seq(K) /\ <<a, b>> # <<>> /\ Head(<<a, b>>) = a
  OBVIOUS

LEMMA GoNamed ==
    ASSUME NEW imp, IsImport(imp), NEW files, NEW f \in GoTargets(imp, files)
    PROVE  ~imp.wild /\ \E key \in Ending(Segments(imp), Wanted(imp)) : f \in files /\ key \in Keys(f)
<1> DEFINE U == Segments(imp)  n == Wanted(imp)  s == imp.segs  m == Len(Module)
           rest == SubSeq(s, m + 1, Len(s))
<1>0. IsPath(s)
  BY DEF IsImport
<1>1. /\ s \in Ending(U, n) /\ n \in U /\ Last(s) = n /\ s \in Seq(U) /\ Len(s) \in Nat /\ m \in Nat
  BY <1>0, SegmentFacts
<1>2. imp.style = "path" /\ IsStrictPrefix(Module, s) /\ f \in FirstFound(files, <<rest, <<Last(s)>>>>)
  BY DEF GoTargets
<1>3. ~imp.wild
  BY <1>2 DEF IsImport
<1> HIDE DEF s
<1>4. m < Len(s)
  <2>1. m <= Len(s) /\ SubSeq(Module, 1, m) = SubSeq(s, 1, m) /\ Module # s
    BY <1>2 DEF IsStrictPrefix, IsPrefix
  <2>2. SUFFICES ASSUME m = Len(s) PROVE FALSE
    BY <1>1, <2>1
  <2>3. Module = [i \in 1 .. m |-> Module[i]] /\ s = [i \in 1 .. m |-> s[i]]
    BY <1>1, <2>2, ImportsAssumption DEF IsList
  <2>4. SubSeq(Module, 1, m) = [i \in 1 .. m |-> Module[i]] /\ SubSeq(s, 1, m) = [i \in 1 .. m |-> s[i]]
    BY <1>1
  <2> QED
    BY <2>1, <2>3, <2>4
<1> HIDE DEF m
<1>5. rest \in Ending(U, n)
  <2>1. s # <<>> /\ s[Len(s)] = n
    BY <1>1 DEF Ending
  <2> DEFINE l == Len(s) - m
  <2>2. l \in Nat \ {0} /\ m + 1 \in 1 .. Len(s)
    BY <1>1, <1>4
  <2>3. rest \in Seq(U) /\ Len(rest) = l /\ \A i \in 1 .. l : rest[i] = s[m + i]
    BY <1>1, <2>2
  <2> HIDE DEF rest
  <2>4. l \in 1 .. l /\ m + l = Len(s)
    BY <1>1, <2>2
  <2>5. rest # <<>> /\ rest[Len(rest)] = n
    BY <2>1, <2>2, <2>3, <2>4
  <2> QED
    BY <2>3, <2>5 DEF Ending
<1>6. <<Last(s)>> \in Ending(U, n)
  BY <1>1, EndingFacts
<1> HIDE DEF rest, U, n
<1>7. <<rest, <<Last(s)>>>> \in Seq(Ending(U, n))
  BY <1>5, <1>6, ListOf
<1> QED
  BY <1>2, <1>3, <1>7, FoundFacts DEF U, n

\* What an import names, by a key or from below a directory.
NamedBy(f, imp, files) ==
    /\ f \in files
    /\ IF imp.wild THEN \E dir \in Ending(Segments(imp), Wanted(imp)) : \E key \in Keys(f) : IsStrictPrefix(dir, key)
       ELSE \E key \in Ending(Segments(imp), Wanted(imp)) : key \in Keys(f)

\* One place or two under each root.
LEMMA PlacesFacts ==
    ASSUME NEW imp, IsPath(imp.segs), NEW root \in Roots
    PROVE  LET K == Ending(Segments(imp), Wanted(imp))  m == <<Head(imp.segs)>>
           IN  /\ <<root \o imp.segs, Append(root, Last(imp.segs))>> \in Seq(K)
               /\ <<root \o imp.segs>> \in Seq(K)
               /\ <<Append(root, Last(imp.segs)), Append(m \o root, Last(imp.segs))>> \in Seq(K)
               /\ (IF Tail(imp.segs) = <<>> THEN <<>> ELSE <<m \o root \o Tail(imp.segs)>>) \in Seq(K)
               /\ <<imp.segs>> \in Seq(K) /\ <<<<Last(imp.segs)>>>> \in Seq(K)
<1> DEFINE U == Segments(imp)  n == Wanted(imp)  K == Ending(U, n)  s == imp.segs  m == <<Head(s)>>
<1>1. /\ s \in K /\ n \in U /\ Last(s) = n /\ Head(s) \in U /\ root \in Seq(U)
      /\ Tail(s) # <<>> => Tail(s) \in K
  BY SegmentFacts
<1> HIDE DEF U, n, s
<1>2. m \in Seq(U)
  BY <1>1
<1>3. m \o root \in Seq(U)
  BY <1>1, <1>2, ConcatFacts
<1> HIDE DEF m
<1>4. /\ root \o s \in K /\ Append(root, Last(s)) \in K /\ <<Last(s)>> \in K /\ Append(m \o root, Last(s)) \in K
      /\ Tail(s) # <<>> => m \o root \o Tail(s) \in K
  BY <1>1, <1>3, EndingFacts
<1> HIDE DEF K
<1>5. /\ <<root \o s, Append(root, Last(s))>> \in Seq(K) /\ <<root \o s>> \in Seq(K)
      /\ <<Append(root, Last(s)), Append(m \o root, Last(s))>> \in Seq(K)
      /\ <<s>> \in Seq(K) /\ <<<<Last(s)>>>> \in Seq(K)
  BY <1>1, <1>4, ListOf
<1>6. (IF Tail(s) = <<>> THEN <<>> ELSE <<m \o root \o Tail(s)>>) \in Seq(K)
  <2>1. CASE Tail(s) = <<>>
    BY <2>1
  <2>2. CASE Tail(s) # <<>>
    BY <2>2, <1>4, ListOf
  <2> QED
    BY <2>1, <2>2
<1> QED
  BY <1>5, <1>6 DEF K, m, U, n, s

LEMMA JavaNamed ==
    ASSUME NEW imp, IsImport(imp), NEW files, NEW f \in JavaTargets(imp, files)
    PROVE  NamedBy(f, imp, files)
<1> DEFINE K == Ending(Segments(imp), Wanted(imp))  s == imp.segs
           places == [root \in Roots |-> <<root \o s, Append(root, Last(s))>>]
           packages == [root \in Roots |-> <<root \o s>>]
<1>0. IsPath(s)
  BY DEF IsImport
<1>1. /\ \A root \in Roots : places[root] \in Seq(K) /\ packages[root] \in Seq(K)
      /\ <<s>> \in Seq(K)
  <2>1. ASSUME NEW root \in Roots PROVE places[root] \in Seq(K) /\ packages[root] \in Seq(K)
    <3>1. places[root] = <<root \o s, Append(root, Last(s))>> /\ packages[root] = <<root \o s>>
      OBVIOUS
    <3> HIDE DEF places, packages
    <3> QED
      BY <1>0, <3>1, PlacesFacts
  <2>2. s \in K
    BY <1>0, SegmentFacts
  <2> QED
    BY <2>1, <2>2, ListOf
<1>2. \/ imp.wild /\ f \in FirstBelow(files, <<s>> \o UnderRoots(packages))
      \/ ~imp.wild /\ f \in FirstFound(files, <<s>> \o UnderRoots(places))
  BY DEF JavaTargets
<1> HIDE DEF places, packages, K
<1>3. UnderRoots(packages) \in Seq(K) /\ UnderRoots(places) \in Seq(K)
  BY <1>1, UnderRootsFacts
<1>4. <<s>> \o UnderRoots(packages) \in Seq(K) /\ <<s>> \o UnderRoots(places) \in Seq(K)
  BY <1>1, <1>3, ConcatFacts
<1>5. CASE imp.wild
  <2>1. f \in FirstBelow(files, <<s>> \o UnderRoots(packages))
    BY <1>2, <1>5
  <2>2. \E dir \in K : f \in files /\ \E key \in Keys(f) : IsStrictPrefix(dir, key)
    BY <1>4, <2>1, BelowFacts
  <2> QED
    BY <1>5, <2>2 DEF NamedBy, K
<1>6. CASE ~imp.wild
  <2>1. f \in FirstFound(files, <<s>> \o UnderRoots(places))
    BY <1>2, <1>6
  <2>2. \E key \in K : f \in files /\ key \in Keys(f)
    BY <1>4, <2>1, FoundFacts
  <2> QED
    BY <1>6, <2>2 DEF NamedBy, K
<1> QED
  BY <1>5, <1>6

LEMMA GradleNamed ==
    ASSUME NEW imp, IsImport(imp), NEW files, NEW f \in GradleTargets(imp, files)
    PROVE  NamedBy(f, imp, files)
<1> DEFINE K == Ending(Segments(imp), Wanted(imp))  s == imp.segs  m == <<Head(s)>>  within == Tail(s)
           inModule == [root \in Roots |-> IF within = <<>> THEN <<>> ELSE <<m \o root \o within>>]
           besides == [root \in Roots |-> <<root \o s>>]
           byName == [root \in Roots |-> <<Append(root, Last(s)), Append(m \o root, Last(s))>>]
<1>0. IsPath(s)
  BY DEF IsImport
<1>1. ASSUME NEW root \in Roots PROVE inModule[root] \in Seq(K) /\ besides[root] \in Seq(K) /\ byName[root] \in Seq(K)
  <2>1. /\ inModule[root] = (IF within = <<>> THEN <<>> ELSE <<m \o root \o within>>) /\ besides[root] = <<root \o s>>
        /\ byName[root] = <<Append(root, Last(s)), Append(m \o root, Last(s))>>
    OBVIOUS
  <2> HIDE DEF inModule, besides, byName
  <2> QED
    BY <1>0, <2>1, PlacesFacts
<1>2. <<s>> \in Seq(K) /\ <<<<Last(s)>>>> \in Seq(K)
  <2>1. s \in K /\ Last(s) = Wanted(imp) /\ Wanted(imp) \in Segments(imp)
    BY <1>0, SegmentFacts
  <2>2. <<Last(s)>> \in K
    BY <2>1, EndingFacts
  <2> QED
    BY <2>1, <2>2, ListOf
<1>3. \/ imp.wild /\ f \in FirstBelow(files, <<s>> \o UnderRoots(inModule) \o UnderRoots(besides))
      \/ ~imp.wild /\ f \in FirstFound(files, <<s>> \o UnderRoots(inModule) \o UnderRoots(besides)
                                                    \o <<<<Last(s)>>>> \o UnderRoots(byName))
  BY DEF GradleTargets
<1> HIDE DEF inModule, besides, byName, K
<1> DEFINE A == <<s>>  B == UnderRoots(inModule)  C == UnderRoots(besides)  D == <<<<Last(s)>>>>  E == UnderRoots(byName)
<1>4. A \in Seq(K) /\ B \in Seq(K) /\ C \in Seq(K) /\ D \in Seq(K) /\ E \in Seq(K)
  BY <1>1, <1>2, UnderRootsFacts
<1> HIDE DEF A, B, C, D, E
<1>5. A \o B \o C \in Seq(K) /\ A \o B \o C \o D \o E \in Seq(K)
  BY <1>4, ConcatFacts
<1>6. CASE imp.wild
  <2>1. f \in FirstBelow(files, A \o B \o C)
    BY <1>3, <1>6 DEF A, B, C
  <2> DEFINE dirs == A \o B \o C
  <2>2. dirs \in Seq(K) /\ f \in FirstBelow(files, dirs)
    BY <1>5, <2>1
  <2> HIDE DEF dirs
  <2>3. \E dir \in K : f \in files /\ \E key \in Keys(f) : IsStrictPrefix(dir, key)
    BY <2>2, BelowFacts
  <2> QED
    BY <1>6, <2>3 DEF NamedBy, K
<1>7. CASE ~imp.wild
  <2>1. f \in FirstFound(files, A \o B \o C \o D \o E)
    BY <1>3, <1>7 DEF A, B, C, D, E
  <2> DEFINE keys == A \o B \o C \o D \o E
  <2>2. keys \in Seq(K) /\ f \in FirstFound(files, keys)
    BY <1>5, <2>1
  <2> HIDE DEF keys, K
  <2>3. \E key \in K : f \in files /\ key \in Keys(f)
    <3>1. \A g \in FirstFound(files, keys) : \E key \in K : g \in files /\ key \in Keys(g)
      BY <2>2, FoundFacts
    <3> QED
      BY <2>2, <3>1
  <2> QED
    BY <1>7, <2>3 DEF NamedBy, K
<1> QED
  BY <1>6, <1>7

LEMMA HeuristicNamed ==
    ASSUME NEW imp, IsImport(imp), NEW files, NEW f \in HeuristicTargets(imp, files)
    PROVE  NamedBy(f, imp, files)
<1> DEFINE K == Ending(Segments(imp), Wanted(imp))  s == imp.segs
<1>1. s \in K /\ Last(s) = Wanted(imp) /\ Wanted(imp) \in Segments(imp)
  BY SegmentFacts DEF IsImport
<1>2. <<Last(s)>> \in K
  BY <1>1, EndingFacts
<1>3. ~imp.wild /\ f \in FirstFound(files, <<s, <<Last(s)>>>>)
  BY DEF HeuristicTargets
<1> HIDE DEF K
<1>4. <<s, <<Last(s)>>>> \in Seq(K)
  BY <1>1, <1>2, ListOf
<1> DEFINE keys == <<s, <<Last(s)>>>>
<1>5. \E key \in K : f \in files /\ key \in Keys(f)
  <2>1. keys \in Seq(K) /\ f \in FirstFound(files, keys)
    BY <1>3, <1>4
  <2> HIDE DEF keys
  <2> QED
    BY <2>1, FoundFacts
<1> QED
  BY <1>3, <1>5 DEF NamedBy, K

\* CompositeResolver gives what the first one finds that finds anything.
LEMMA ResolveFacts ==
    ASSUME NEW imp, NEW files
    PROVE  /\ \A f \in ResolveImport(imp, files) : \/ f \in GoTargets(imp, files) \/ f \in JavaTargets(imp, files)
                                                   \/ f \in GradleTargets(imp, files) \/ f \in HeuristicTargets(imp, files)
           /\ \A F : /\ F # {} /\ GoTargets(imp, files) = {} /\ GradleTargets(imp, files) = {}
                     /\ JavaTargets(imp, files) \in {{}, F} /\ HeuristicTargets(imp, files) = F
                     => ResolveImport(imp, files) = F
<1> DEFINE a == GoTargets(imp, files)  b == JavaTargets(imp, files)  c == GradleTargets(imp, files)  d == HeuristicTargets(imp, files)
           found == <<a, b, c, d>>
           hits == {i \in DOMAIN found : found[i] # {}}
           k == CHOOSE i \in hits : \A j \in hits : i <= j
<1>1. ResolveImport(imp, files) = IF hits = {} THEN {} ELSE found[k]
  BY DEF ResolveImport
<1> HIDE DEF a, b, c, d
<1>2. DOMAIN found = 1 .. 4 /\ found[1] = a /\ found[2] = b /\ found[3] = c /\ found[4] = d
  OBVIOUS
<1>3. hits \in SUBSET Nat
  BY <1>2
<1> HIDE DEF found
<1>4. hits # {} => k \in hits
  <2> DEFINE kk == k
  <2>1. kk = CHOOSE i \in hits : \A j \in hits : i <= j
    OBVIOUS
  <2> HIDE DEF kk, hits
  <2>2. hits # {} => kk \in hits
    BY <1>3, <2>1, LeastChosen
  <2> QED
    BY <2>2 DEF kk
<1> HIDE DEF k
<1>5. k \in hits => k \in 1 .. 4 /\ found[k] # {} /\ found[k] \in {a, b, c, d}
  BY <1>2
<1>6. ASSUME NEW f \in ResolveImport(imp, files) PROVE f \in a \/ f \in b \/ f \in c \/ f \in d
  BY <1>1, <1>4, <1>5, <1>6
<1>7. ASSUME NEW F, F # {}, a = {}, c = {}, b \in {{}, F}, d = F PROVE ResolveImport(imp, files) = F
  <2>1. 4 \in hits
    BY <1>2, <1>7
  <2>2. k \in 1 .. 4 /\ found[k] # {} /\ found[k] \in {a, b, c, d}
    BY <1>4, <1>5, <2>1
  <2>3. found[k] = F
    BY <1>7, <2>2
  <2> QED
    BY <1>1, <2>1, <2>3
<1> QED
  BY <1>6, <1>7 DEF a, b, c, d

\* A guess bears the name it was made from.
LEMMA ResolvedNamed ==
    ASSUME NEW imp, IsImport(imp), NEW files, \A f \in files : IsList(f.dir)
    PROVE  TargetsNamed(imp, files)
<1>1. ASSUME NEW f \in ResolveImport(imp, files)
      PROVE  IF imp.wild THEN Last(imp.segs) \in ToSet(f.dir) ELSE Last(imp.segs) \in {f.stem, f.name}
  <2>1. NamedBy(f, imp, files)
    <3>1. CASE f \in GoTargets(imp, files)
      BY <3>1, GoNamed DEF NamedBy
    <3> QED
      BY <3>1, JavaNamed, GradleNamed, HeuristicNamed, ResolveFacts
  <2>2. Last(imp.segs) = Wanted(imp)
    BY SegmentFacts DEF IsImport
  <2>3. f \in files /\ IsList(f.dir)
    BY <2>1 DEF NamedBy
  <2>4. CASE imp.wild
    <3>1. PICK dir \in Ending(Segments(imp), Wanted(imp)) : \E key \in Keys(f) : IsStrictPrefix(dir, key)
      BY <2>1, <2>4 DEF NamedBy
    <3>2. Wanted(imp) \in ToSet(f.dir)
      BY <2>3, <3>1, BelowNamed
    <3> QED
      BY <2>2, <2>4, <3>2
  <2>5. CASE ~imp.wild
    <3>1. PICK key \in Ending(Segments(imp), Wanted(imp)) : key \in Keys(f)
      BY <2>1, <2>5 DEF NamedBy
    <3>2. key[Len(key)] \in {f.stem, f.name}
      BY <2>3, <3>1, KeyFacts
    <3>3. key[Len(key)] = Wanted(imp)
      BY DEF Ending
    <3> QED
      BY <2>2, <2>5, <3>2, <3>3
  <2> QED
    BY <2>4, <2>5
<1> QED
  BY <1>1 DEF TargetsNamed

\* What an import spells is what it resolves to.
LEMMA ResolvedSpelled ==
    ASSUME NEW imp, IsImport(imp), NEW files
    PROVE  SpelledOut(imp, files)
<1> DEFINE s == imp.segs  F == Found(files, s)  K == Ending(Segments(imp), Wanted(imp))
           places == [root \in Roots |-> <<root \o s, Append(root, Last(s))>>]
<1> SUFFICES ASSUME ~imp.wild, imp.style # "gradle", ~(Module # <<>> /\ IsStrictPrefix(Module, s)), F # {}
             PROVE  ResolveImport(imp, files) = F
  BY DEF SpelledOut
<1>0. IsPath(s)
  BY DEF IsImport
<1>1. GoTargets(imp, files) = {} /\ GradleTargets(imp, files) = {}
  BY DEF GoTargets, GradleTargets
<1>2. s \in K /\ <<Last(s)>> \in K
  <2>1. s \in K /\ Last(s) = Wanted(imp) /\ Wanted(imp) \in Segments(imp)
    BY <1>0, SegmentFacts
  <2> QED
    BY <2>1, EndingFacts
<1>3. UnderRoots(places) \in Seq(K)
  <2>1. ASSUME NEW root \in Roots PROVE places[root] \in Seq(K)
    <3>1. places[root] = <<root \o s, Append(root, Last(s))>>
      OBVIOUS
    <3> HIDE DEF places
    <3> QED
      BY <1>0, <3>1, PlacesFacts
  <2> HIDE DEF places, K
  <2> QED
    BY <2>1, UnderRootsFacts
<1>4. JavaTargets(imp, files) = {} \/ JavaTargets(imp, files) = FirstFound(files, <<s>> \o UnderRoots(places))
  BY DEF JavaTargets
<1>5. HeuristicTargets(imp, files) = FirstFound(files, <<s, <<Last(s)>>>>)
  BY DEF HeuristicTargets
<1> HIDE DEF K, places
<1>6. <<s>> \in Seq(K) /\ <<s>> # <<>> /\ Head(<<s>>) = s /\ <<s, <<Last(s)>>>> \in Seq(K) /\ <<s, <<Last(s)>>>> # <<>> /\ Head(<<s, <<Last(s)>>>>) = s
  BY <1>2, ListOf
<1>7. LET keys == <<s>> \o UnderRoots(places) IN keys \in Seq(K) /\ keys # <<>> /\ Head(keys) = s
  BY <1>3, <1>6, ConcatFacts
<1>8. FirstFound(files, <<s>> \o UnderRoots(places)) = F /\ FirstFound(files, <<s, <<Last(s)>>>>) = F
  BY <1>6, <1>7, FoundFacts
<1> HIDE DEF F
<1> QED
  BY <1>1, <1>4, <1>5, <1>8, ResolveFacts

-----------------------------------------------------------------------------
(* The methods with most callers                                           *)

\* From any item on there is a first one with most callers.
LEMMA MostExists ==
    ASSUME NEW a \in Nat, NEW b \in Nat, a <= b, NEW c, \A j \in a .. b : c[j] \in Nat
    PROVE  \E j \in a .. b : (\A k \in a .. b : c[j] >= c[k]) /\ \A k \in a .. j - 1 : c[k] < c[j]
<1> DEFINE Most(n) == \E j \in a .. a + n : (\A k \in a .. a + n : c[j] >= c[k]) /\ \A k \in a .. j - 1 : c[k] < c[j]
           S == {n \in 0 .. b - a : Most(n)}
<1>1. 0 \in S
  OBVIOUS
<1>2. ASSUME NEW n \in 0 .. (b - a) - 1, n \in S PROVE n + 1 \in S
  <2>1. PICK j \in a .. a + n : (\A k \in a .. a + n : c[j] >= c[k]) /\ \A k \in a .. j - 1 : c[k] < c[j]
    BY <1>2
  <2> DEFINE m == a + (n + 1)
  <2>2. /\ m \in a .. b /\ c[m] \in Nat /\ c[j] \in Nat /\ j \in a .. m /\ n + 1 \in 0 .. b - a
        /\ \A k : k \in a .. m <=> k \in a .. a + n \/ k = m
        /\ m - 1 = a + n
    OBVIOUS
  <2>3. \A k \in a .. a + n : c[k] \in Nat
    OBVIOUS
  <2> HIDE DEF m
  <2>4. CASE c[m] > c[j]
    <3>1. \A k \in a .. a + n : c[k] < c[m]
      BY <2>1, <2>2, <2>3, <2>4
    <3>2. (\A k \in a .. m : c[m] >= c[k]) /\ \A k \in a .. m - 1 : c[k] < c[m]
      BY <2>2, <3>1, <2>3
    <3>3. m \in a .. m
      BY <2>2
    <3>4. Most(n + 1)
      BY <3>2, <3>3 DEF m
    <3> QED
      BY <2>2, <3>4
  <2>5. CASE ~(c[m] > c[j])
    <3>1. \A k \in a .. m : c[j] >= c[k]
      BY <2>1, <2>2, <2>5
    <3>2. Most(n + 1)
      BY <2>1, <2>2, <3>1 DEF m
    <3> QED
      BY <2>2, <3>2
  <2> QED
    BY <2>4, <2>5
<1>3. b - a \in Nat
  OBVIOUS
<1>4. b - a \in S
  <2> HIDE DEF S
  <2> QED
    BY <1>1, <1>2, <1>3, UpTo
<1>5. a + (b - a) = b
  OBVIOUS
<1> QED
  BY <1>4, <1>5

\* One round of the selection changes two places.
Swapped(s, t, N, i, m) ==
    /\ m \in i .. N /\ \A k \in i .. N : s[m].callers >= s[k].callers
    /\ t = [k \in 1 .. N |-> IF k = i THEN s[m] ELSE IF k = m THEN s[i] ELSE s[k]]

LEMMA SelectedFacts ==
    ASSUME NEW N \in Nat, NEW E, \A e \in E : e.callers \in Nat, NEW s \in [1 .. N -> E], NEW i \in 1 .. N
    PROVE  Selected(s, i) \in [1 .. N -> E] /\ \E m : Swapped(s, Selected(s, i), N, i, m)
<1> DEFINE m == MostCallers(s, i)
           c == [k \in 1 .. N |-> s[k].callers]
           most(j) == (\A k \in i .. N : s[j].callers >= s[k].callers) /\ \A k \in i .. j - 1 : s[k].callers < s[j].callers
<1>1. DOMAIN s = 1 .. N /\ Len(s) = N
  BY MapFacts
<1>2. m = CHOOSE j \in i .. N : most(j)
  BY <1>1 DEF MostCallers
<1>3. \A k \in i .. N : c[k] = s[k].callers /\ c[k] \in Nat
  OBVIOUS
<1>4. \E j \in i .. N : (\A k \in i .. N : c[j] >= c[k]) /\ \A k \in i .. j - 1 : c[k] < c[j]
  <2>1. i \in Nat /\ i <= N /\ \A k \in i .. N : c[k] \in Nat
    BY <1>3
  <2> HIDE DEF c, m
  <2> QED
    BY <2>1, MostExists
<1>5. \E j \in i .. N : most(j)
  <2>1. \A j \in i .. N : \A k \in i .. j - 1 : k \in i .. N
    OBVIOUS
  <2> HIDE DEF c
  <2> QED
    BY <1>3, <1>4, <2>1
<1>6. m \in i .. N /\ most(m)
  <2> DEFINE mm == m
  <2> HIDE DEF most, mm
  <2>1. mm = CHOOSE j \in i .. N : most(j)
    BY <1>2 DEF mm
  <2>2. mm \in i .. N /\ most(mm)
    BY <1>5, <2>1
  <2> QED
    BY <2>2 DEF mm
<1>7. Selected(s, i) = [k \in 1 .. N |-> IF k = i THEN s[m] ELSE IF k = m THEN s[i] ELSE s[k]]
  BY <1>1 DEF Selected
<1> HIDE DEF m
<1>8. Swapped(s, Selected(s, i), N, i, m)
  BY <1>6, <1>7 DEF Swapped
<1>9. m \in 1 .. N
  BY <1>6
<1>10. Selected(s, i) \in [1 .. N -> E]
  BY <1>7, <1>9
<1> QED
  BY <1>8, <1>10

\* sortByCallers, round by round.
IsSorting(f, items, N, V) ==
    /\ f \in [0 .. N -> V] /\ f[0] = items /\ SortByCallers(items) = f[N]
    /\ \A n \in 1 .. N : f[n] = Selected(f[n - 1], n)

LEMMA SortTaken ==
    ASSUME NEW N \in Nat, NEW E, \A e \in E : e.callers \in Nat, NEW items \in [1 .. N -> E]
    PROVE  \E f : IsSorting(f, items, N, [1 .. N -> E])
<1> DEFINE V == [1 .. N -> E]
           step == [n \in 1 .. N |-> [v \in V |-> Selected(v, n)]]
           Is(f) == f = [n \in 0 .. N |-> IF n = 0 THEN items ELSE Selected(f[n - 1], n)]
           taken == CHOOSE f : Is(f)
<1>1. Len(items) = N
  <2>1. DOMAIN items = 1 .. N
    OBVIOUS
  <2> QED
    BY <2>1, MapFacts
<1>2. SortByCallers(items) = taken[N]
  BY <1>1 DEF SortByCallers
<1>3. \A v \in V : \A n \in 1 .. N : Selected(v, n) \in V
  BY SelectedFacts
<1> HIDE DEF V
<1>4. \A n \in 1 .. N : \A v \in V : step[n][v] = Selected(v, n)
  OBVIOUS
<1>5. items \in V
  BY DEF V
<1> HIDE DEF step
<1>6. PICK g : IsLoop(N, V, items, step, g)
  <2>1. KeepsTo(N, V, step)
    BY <1>3, <1>4 DEF KeepsTo
  <2> QED
    BY <1>5, <2>1, RoundsTyped
<1>7. Is(g) /\ g \in [0 .. N -> V]
  <2>0. g \in [0 .. N -> V] /\ g[0] = items /\ \A i \in 1 .. N : g[i] = step[i][g[i - 1]]
    BY <1>6 DEF IsLoop
  <2>1. ASSUME NEW n \in 0 .. N PROVE g[n] = IF n = 0 THEN items ELSE Selected(g[n - 1], n)
    <3>1. n # 0 => n \in 1 .. N /\ g[n - 1] \in V
      BY <2>0
    <3> QED
      BY <1>4, <2>0, <3>1
  <2>2. g = [n \in 0 .. N |-> g[n]]
    BY <2>0
  <2> QED
    BY <2>0, <2>1, <2>2
<1>8. Is(taken)
  <2> HIDE DEF Is
  <2> QED
    BY <1>7
<1> HIDE DEF taken
<1>9. \A n \in 0 .. N : taken[n] = IF n = 0 THEN items ELSE Selected(taken[n - 1], n)
  BY <1>8, Zenon
<1>10. DOMAIN taken = 0 .. N /\ taken = [n \in 0 .. N |-> taken[n]]
  BY <1>8
<1> HIDE DEF Is
<1>11. 0 \in 0 .. N /\ \A n \in 1 .. N : n \in 0 .. N /\ n # 0
  OBVIOUS
<1>12. taken[0] = items /\ \A n \in 1 .. N : taken[n] = Selected(taken[n - 1], n)
  BY <1>9, <1>11
<1>13. taken \in [0 .. N -> V]
  <2> DEFINE S == {n \in 0 .. N : taken[n] \in V}
  <2>1. 0 \in S
    BY <1>5, <1>11, <1>12
  <2>2. ASSUME NEW n \in 0 .. N - 1, n \in S PROVE n + 1 \in S
    <3>1. n + 1 \in 1 .. N /\ n + 1 \in 0 .. N /\ (n + 1) - 1 = n
      OBVIOUS
    <3>2. taken[n + 1] = Selected(taken[n], n + 1) /\ taken[n] \in V
      BY <1>12, <2>2, <3>1
    <3> QED
      BY <1>3, <3>1, <3>2
  <2>3. 0 .. N \subseteq S
    <3> HIDE DEF S
    <3> QED
      BY <2>1, <2>2, UpTo
  <2> QED
    BY <1>10, <2>3
<1>14. IsSorting(taken, items, N, V)
  BY <1>2, <1>12, <1>13 DEF IsSorting
<1> QED
  BY <1>14 DEF V

\* What the selection keeps: the items, each once, and what it has put in order.
Ranked(s, N, n) == \A k \in 1 .. n : \A l \in k .. N : s[k].callers >= s[l].callers
Shuffled(s, t, N) ==
    /\ \A i, j \in 1 .. N : t[i] = t[j] => i = j
    /\ \A i \in 1 .. N : \E j \in 1 .. N : t[j] = s[i]

LEMMA SwapFacts ==
    ASSUME NEW N \in Nat, NEW E, \A e \in E : e.callers \in Nat, NEW r, NEW s \in [1 .. N -> E], Shuffled(r, s, N),
           NEW n \in 1 .. N, Ranked(s, N, n - 1), NEW m, NEW t, Swapped(s, t, N, n, m)
    PROVE  Shuffled(r, t, N) /\ Ranked(t, N, n)
<1>1. /\ m \in n .. N /\ m \in 1 .. N /\ n \in 1 .. N /\ N \in Nat
      /\ \A k \in n .. N : s[m].callers >= s[k].callers
      /\ t = [k \in 1 .. N |-> IF k = n THEN s[m] ELSE IF k = m THEN s[n] ELSE s[k]]
  BY DEF Swapped
<1>2. t[n] = s[m] /\ t[m] = s[n] /\ \A k \in 1 .. N : k # n /\ k # m => t[k] = s[k]
  BY <1>1
<1>3. \A k \in 1 .. N : s[k].callers \in Nat
  OBVIOUS
<1>4. \A i, j \in 1 .. N : s[i] = s[j] => i = j
  BY DEF Shuffled
<1>5. ASSUME NEW i \in 1 .. N, NEW j \in 1 .. N, t[i] = t[j] PROVE i = j
  <2> DEFINE p(x) == IF x = n THEN m ELSE IF x = m THEN n ELSE x
  <2>1. \A x \in 1 .. N : p(x) \in 1 .. N /\ t[x] = s[p(x)]
    BY <1>1, <1>2
  <2>2. p(i) = p(j)
    BY <1>4, <1>5, <2>1
  <2> QED
    BY <2>2
<1>6. ASSUME NEW i \in 1 .. N PROVE \E j \in 1 .. N : t[j] = r[i]
  <2>1. PICK j \in 1 .. N : s[j] = r[i]
    BY DEF Shuffled
  <2>2. CASE j = n
    BY <1>1, <1>2, <2>1, <2>2
  <2>3. CASE j = m
    BY <1>1, <1>2, <2>1, <2>3
  <2>4. CASE j # n /\ j # m
    BY <1>2, <2>1, <2>4
  <2> QED
    BY <2>2, <2>3, <2>4
<1>7. Ranked(t, N, n)
  <2>1. SUFFICES ASSUME NEW k \in 1 .. n, NEW l \in k .. N PROVE t[k].callers >= t[l].callers
    BY DEF Ranked
  <2>2. k \in 1 .. N /\ l \in 1 .. N /\ k <= l
    BY <1>1
  <2>3. CASE k = n
    <3>1. t[k] = s[m]
      BY <1>2, <2>3
    <3>2. \E x \in n .. N : t[l] = s[x]
      BY <1>1, <1>2, <2>2, <2>3
    <3> QED
      BY <1>1, <3>1, <3>2
  <2>4. CASE k < n
    <3>1. t[k] = s[k] /\ k \in 1 .. n - 1
      BY <1>1, <1>2, <2>2, <2>4
    <3>2. \E x \in k .. N : t[l] = s[x]
      BY <1>1, <1>2, <2>2, <2>4
    <3> QED
      BY <3>1, <3>2 DEF Ranked
  <2> QED
    BY <1>1, <2>3, <2>4
<1> QED
  BY <1>5, <1>6, <1>7 DEF Shuffled

LEMMA SortFacts ==
    ASSUME NEW N \in Nat, NEW E, \A e \in E : e.callers \in Nat, NEW items \in [1 .. N -> E], Shuffled(items, items, N)
    PROVE  LET s == SortByCallers(items) IN s \in [1 .. N -> E] /\ Shuffled(items, s, N) /\ Ranked(s, N, N)
<1>0. PICK f : IsSorting(f, items, N, [1 .. N -> E])
  BY SortTaken
<1>1. /\ f \in [0 .. N -> [1 .. N -> E]] /\ f[0] = items /\ SortByCallers(items) = f[N]
      /\ \A n \in 1 .. N : f[n] = Selected(f[n - 1], n)
  BY <1>0 DEF IsSorting
<1> DEFINE S == {n \in 0 .. N : Shuffled(items, f[n], N) /\ Ranked(f[n], N, n)}
<1>2. 0 \in S
  <2>1. Ranked(items, N, 0)
    BY DEF Ranked
  <2> QED
    BY <1>1, <2>1
<1>3. ASSUME NEW n \in 0 .. N - 1, n \in S PROVE n + 1 \in S
  <2>1. n + 1 \in 1 .. N /\ n + 1 \in 0 .. N /\ (n + 1) - 1 = n /\ n \in 0 .. N
    OBVIOUS
  <2> DEFINE s == f[n]  t == f[n + 1]
  <2>2. t = Selected(s, n + 1) /\ s \in [1 .. N -> E] /\ Shuffled(items, s, N) /\ Ranked(s, N, n)
    BY <1>1, <1>3, <2>1
  <2> HIDE DEF s, t
  <2>3. PICK m : Swapped(s, t, N, n + 1, m)
    BY <2>1, <2>2, SelectedFacts
  <2>4. Ranked(s, N, (n + 1) - 1)
    BY <2>1, <2>2
  <2>5. Shuffled(items, t, N) /\ Ranked(t, N, n + 1)
    BY <2>1, <2>2, <2>3, <2>4, SwapFacts
  <2> QED
    BY <2>1, <2>5 DEF t
<1>4. N \in S
  <2> HIDE DEF S
  <2>1. 0 .. N \subseteq S
    BY <1>2, <1>3, UpTo
  <2> QED
    BY <2>1
<1> QED
  BY <1>1, <1>4

\* Nothing drops out of the list for what has fewer callers.
LEMMA MostAreListed ==
    ASSUME NEW nodes, AreNodes(nodes), NEW limit \in Nat
    PROVE  HottestListed(nodes, limit)
<1> DEFINE N == Len(nodes)  E == ToSet(nodes)  s == SortByCallers(nodes)
           l == IF N < limit THEN N ELSE limit
           hot == SubSeq(s, 1, l)
<1>1. N \in Nat /\ DOMAIN nodes = 1 .. N /\ nodes \in [1 .. N -> E]
  <2>1. N \in Nat /\ DOMAIN nodes = 1 .. N /\ nodes = [i \in 1 .. N |-> nodes[i]]
    BY ListFacts DEF AreNodes, IsList
  <2> QED
    BY <2>1 DEF ToSet
<1>2. \A e \in E : e.callers \in Nat
  BY DEF AreNodes, ToSet
<1>3. \A x : x \in E <=> \E i \in 1 .. N : nodes[i] = x
  BY <1>1 DEF ToSet
<1>4. Shuffled(nodes, nodes, N)
  BY <1>1 DEF AreNodes, Shuffled
<1> HIDE DEF N, E
<1>5. s \in [1 .. N -> E] /\ Shuffled(nodes, s, N) /\ Ranked(s, N, N)
  BY <1>1, <1>2, <1>4, SortFacts
<1>6. Len(s) = N /\ DOMAIN s = 1 .. N /\ s \in Seq(E)
  <2> HIDE DEF s
  <2>1. DOMAIN s = 1 .. N /\ s = [i \in 1 .. N |-> s[i]] /\ \A i \in 1 .. N : s[i] \in E
    BY <1>5
  <2> QED
    BY <1>1, <2>1, MapFacts
<1>7. Summary({}, nodes, limit).hot = hot
  BY <1>6 DEF Summary
<1> HIDE DEF s
<1>8. l \in 0 .. N /\ l <= limit /\ l \in Nat
  BY <1>1
<1>9. hot \in Seq(E) /\ Len(hot) = l /\ DOMAIN hot = 1 .. l /\ \A i \in 1 .. l : hot[i] = s[i]
  BY <1>6, <1>8
<1> HIDE DEF l, hot
<1>10. Distinct(hot)
  <2>1. \A i \in 1 .. l : i \in 1 .. N
    BY <1>1, <1>8
  <2>2. \A i, j \in 1 .. N : s[i] = s[j] => i = j
    BY <1>5 DEF Shuffled
  <2> QED
    BY <1>9, <2>1, <2>2 DEF Distinct
<1>11. Cardinality(ToSet(hot)) = l
  BY <1>9, <1>10, DistinctCounted
<1>12. ASSUME NEW n \in E PROVE n \in ToSet(hot) \/ \A h \in ToSet(hot) : h.callers >= n.callers
  <2>1. PICK j \in 1 .. N : s[j] = n
    <3>1. PICK i \in 1 .. N : nodes[i] = n
      BY <1>3
    <3> QED
      BY <1>5, <3>1 DEF Shuffled
  <2>2. CASE j <= l
    <3>1. j \in 1 .. l
      BY <1>8, <2>2
    <3> QED
      BY <1>9, <2>1, <3>1 DEF ToSet
  <2>3. CASE j > l
    <3>1. SUFFICES ASSUME NEW h \in ToSet(hot) PROVE h.callers >= n.callers
      OBVIOUS
    <3>2. PICK k \in 1 .. l : h = s[k]
      BY <1>9 DEF ToSet
    <3>3. k \in 1 .. N /\ j \in k .. N
      BY <1>1, <1>8, <2>3
    <3> QED
      BY <1>5, <2>1, <3>2, <3>3 DEF Ranked
  <2> QED
    BY <1>8, <2>2, <2>3
<1> QED
  BY <1>7, <1>9, <1>11, <1>12 DEF HottestListed, l, N, E

-----------------------------------------------------------------------------
(* The hierarchy of classes                                                *)

IsChild(h, a, b) == b \in DOMAIN h /\ a \in h[b].children
IsParent(h, a, b) == a \in DOMAIN h /\ b \in h[a].parents
RequestNames(classes, n, a, b) == b # "" /\ \E i \in 1 .. n : classes[i].name = a /\ b \in ToSet(classes[i].parents)

\* A class adds itself and its parents, and what ties it to them.
Adds(h, k, name, named) ==
    /\ DOMAIN k = DOMAIN h \cup {name} \cup named
    /\ \A a, b : IsChild(k, a, b) <=> IsChild(h, a, b) \/ (a = name /\ b \in named)
    /\ \A a, b : IsParent(k, a, b) <=> IsParent(h, a, b) \/ (a = name /\ b \in named)

LEMMA ClassAdded ==
    ASSUME NEW h, NEW c, NEW named, named = ToSet(c.parents) \ {""}
    PROVE  Adds(h, AddClass(h, c), c.name, named)
<1> DEFINE k == AddClass(h, c)
           D == DOMAIN h \cup {c.name} \cup named
<1>1. k = [n \in D |-> [parents |-> Node(h, n).parents \cup (IF n = c.name THEN named ELSE {}),
                        children |-> Node(h, n).children \cup (IF n \in named THEN {c.name} ELSE {})]]
  BY DEF AddClass
<1> HIDE DEF k
<1>2. /\ DOMAIN k = D
      /\ \A n \in D : /\ k[n].parents = Node(h, n).parents \cup (IF n = c.name THEN named ELSE {})
                      /\ k[n].children = Node(h, n).children \cup (IF n \in named THEN {c.name} ELSE {})
  BY <1>1
<1>3. /\ \A n \in DOMAIN h : Node(h, n) = h[n]
      /\ \A n : n \notin DOMAIN h => Node(h, n).parents = {} /\ Node(h, n).children = {}
  BY DEF Node
<1>4. ASSUME NEW a, NEW b PROVE IsChild(k, a, b) <=> IsChild(h, a, b) \/ (a = c.name /\ b \in named)
  <2>1. b \in D => (a \in k[b].children <=> a \in Node(h, b).children \/ (b \in named /\ a = c.name))
    <3>1. SUFFICES ASSUME b \in D PROVE a \in k[b].children <=> a \in Node(h, b).children \/ (b \in named /\ a = c.name)
      OBVIOUS
    <3>2. k[b].children = Node(h, b).children \cup (IF b \in named THEN {c.name} ELSE {})
      BY <1>2, <3>1
    <3> QED
      BY <3>2
  <2>2. a \in Node(h, b).children <=> IsChild(h, a, b)
    BY <1>3 DEF IsChild
  <2>3. (b \in named => b \in D) /\ (IsChild(h, a, b) => b \in D)
    BY DEF IsChild
  <2>4. IsChild(k, a, b) <=> b \in D /\ a \in k[b].children
    BY <1>2 DEF IsChild
  <2> QED
    BY <2>1, <2>2, <2>3, <2>4
<1>5. ASSUME NEW a, NEW b PROVE IsParent(k, a, b) <=> IsParent(h, a, b) \/ (a = c.name /\ b \in named)
  <2>1. a \in D => (b \in k[a].parents <=> b \in Node(h, a).parents \/ (a = c.name /\ b \in named))
    BY <1>2
  <2>2. b \in Node(h, a).parents <=> IsParent(h, a, b)
    BY <1>3 DEF IsParent
  <2>3. (a = c.name => a \in D) /\ (IsParent(h, a, b) => a \in D)
    BY DEF IsParent
  <2>4. IsParent(k, a, b) <=> a \in D /\ b \in k[a].parents
    BY <1>2 DEF IsParent
  <2> QED
    BY <2>1, <2>2, <2>3, <2>4
<1> QED
  BY <1>2, <1>4, <1>5 DEF k, Adds

\* BuildClassHierarchy, class after class.
HotNodes(A) == UNION {[D -> [parents : SUBSET A, children : SUBSET A]] : D \in SUBSET A}
Mentioned(classes) == {classes[i].name : i \in DOMAIN classes} \cup UNION {ToSet(classes[i].parents) : i \in DOMAIN classes}

LEMMA AddedTyped ==
    ASSUME NEW A, NEW h \in HotNodes(A), NEW c, c.name \in A, ToSet(c.parents) \subseteq A
    PROVE  AddClass(h, c) \in HotNodes(A)
<1> DEFINE named == ToSet(c.parents) \ {""}
           D == DOMAIN h \cup {c.name} \cup named
           R == [parents : SUBSET A, children : SUBSET A]
           p == [n \in D |-> Node(h, n).parents \cup (IF n = c.name THEN named ELSE {})]
           q == [n \in D |-> Node(h, n).children \cup (IF n \in named THEN {c.name} ELSE {})]
<1>1. DOMAIN h \subseteq A /\ \A n \in DOMAIN h : h[n] \in R
  BY DEF HotNodes
<1>2. \A n : Node(h, n).parents \subseteq A /\ Node(h, n).children \subseteq A
  BY <1>1 DEF Node
<1>3. AddClass(h, c) = [n \in D |-> [parents |-> p[n], children |-> q[n]]]
  BY DEF AddClass
<1>4. D \in SUBSET A /\ \A n \in D : p[n] \subseteq A /\ q[n] \subseteq A
  BY <1>1, <1>2
<1> HIDE DEF D, p, q
<1>5. [n \in D |-> [parents |-> p[n], children |-> q[n]]] \in [D -> R]
  BY <1>4
<1> QED
  BY <1>3, <1>4, <1>5 DEF HotNodes

IsBuilding(f, classes, N) == /\ f[0] = <<>> /\ Hierarchy(classes) = f[N]
                             /\ \A n \in 1 .. N : f[n] = AddClass(f[n - 1], classes[n])

LEMMA HierarchyTaken ==
    ASSUME NEW classes, AreClasses(classes)
    PROVE  \E f : IsBuilding(f, classes, Len(classes))
<1> DEFINE A == Mentioned(classes)
           N == Len(classes)
           V == HotNodes(A)
           step == [n \in 1 .. N |-> [v \in V |-> AddClass(v, classes[n])]]
           Is(f) == f = [n \in 0 .. N |-> IF n = 0 THEN <<>> ELSE AddClass(f[n - 1], classes[n])]
           taken == CHOOSE f : Is(f)
<1>1. N \in Nat /\ DOMAIN classes = 1 .. N
  BY ListFacts DEF AreClasses
<1>2. Hierarchy(classes) = taken[N]
  BY DEF Hierarchy
<1>3. \A v \in V : \A n \in 1 .. N : AddClass(v, classes[n]) \in V
  <2>1. \A n \in 1 .. N : classes[n].name \in A /\ ToSet(classes[n].parents) \subseteq A
    BY <1>1 DEF Mentioned
  <2> HIDE DEF A
  <2> QED
    BY <2>1, AddedTyped
<1>4. <<>> \in V
  <2>1. <<>> \in [{} -> [parents : SUBSET A, children : SUBSET A]]
    OBVIOUS
  <2> QED
    BY <2>1 DEF HotNodes
<1> HIDE DEF V, N
<1>5. \A n \in 1 .. N : \A v \in V : step[n][v] = AddClass(v, classes[n])
  OBVIOUS
<1> HIDE DEF step
<1>6. PICK g : IsLoop(N, V, <<>>, step, g)
  <2>1. KeepsTo(N, V, step)
    BY <1>3, <1>5 DEF KeepsTo
  <2> QED
    BY <1>1, <1>4, <2>1, RoundsTyped
<1>7. Is(g)
  <2>0. g \in [0 .. N -> V] /\ g[0] = <<>> /\ \A i \in 1 .. N : g[i] = step[i][g[i - 1]]
    BY <1>6 DEF IsLoop
  <2>1. ASSUME NEW n \in 0 .. N PROVE g[n] = IF n = 0 THEN <<>> ELSE AddClass(g[n - 1], classes[n])
    <3>1. n # 0 => n \in 1 .. N /\ g[n - 1] \in V
      BY <1>1, <2>0
    <3> QED
      BY <1>5, <2>0, <3>1
  <2>2. g = [n \in 0 .. N |-> g[n]]
    BY <2>0
  <2> QED
    BY <2>1, <2>2
<1>8. Is(taken)
  <2> HIDE DEF Is
  <2> QED
    BY <1>7
<1> HIDE DEF taken
<1>9. \A n \in 0 .. N : taken[n] = IF n = 0 THEN <<>> ELSE AddClass(taken[n - 1], classes[n])
  BY <1>8, Zenon
<1> HIDE DEF Is
<1>10. 0 \in 0 .. N /\ \A n \in 1 .. N : n \in 0 .. N /\ n # 0
  BY <1>1
<1>11. taken[0] = <<>> /\ \A n \in 1 .. N : taken[n] = AddClass(taken[n - 1], classes[n])
  BY <1>9, <1>10
<1>12. IsBuilding(taken, classes, N)
  BY <1>2, <1>11 DEF IsBuilding
<1> QED
  BY <1>12 DEF N

\* What the first classes have built.
Built(h, classes, n) ==
    /\ "" \notin DOMAIN h /\ \A i \in 1 .. n : classes[i].name \in DOMAIN h
    /\ \A a, b : /\ IsChild(h, a, b) <=> RequestNames(classes, n, a, b)
                 /\ IsParent(h, a, b) <=> RequestNames(classes, n, a, b)
                 /\ RequestNames(classes, n, a, b) => a \in DOMAIN h /\ b \in DOMAIN h

LEMMA KinAgree ==
    ASSUME NEW classes, AreClasses(classes)
    PROVE  KinMatches(classes)
<1> DEFINE N == Len(classes)  h == Hierarchy(classes)
<1>0. N \in Nat
  BY ListFacts DEF AreClasses
<1>1. DOMAIN classes = 1 .. N /\ \A i \in 1 .. N : classes[i].name # ""
  BY ListFacts DEF AreClasses
<1>2. PICK f : IsBuilding(f, classes, N)
  BY HierarchyTaken
<1>3. f[0] = <<>> /\ h = f[N] /\ \A n \in 1 .. N : f[n] = AddClass(f[n - 1], classes[n])
  BY <1>2 DEF IsBuilding
<1> HIDE DEF N, h
<1> DEFINE S == {n \in 0 .. N : Built(f[n], classes, n)}
<1>4. 0 \in S
  <2>1. DOMAIN f[0] = {}
    BY <1>3
  <2>2. \A a, b : ~IsChild(f[0], a, b) /\ ~IsParent(f[0], a, b) /\ ~RequestNames(classes, 0, a, b)
    BY <2>1 DEF IsChild, IsParent, RequestNames
  <2>3. Built(f[0], classes, 0)
    BY <2>1, <2>2 DEF Built
  <2> QED
    BY <1>0, <2>3
<1>5. ASSUME NEW n \in 0 .. N - 1, n \in S PROVE n + 1 \in S
  <2>1. n + 1 \in 1 .. N /\ n + 1 \in 0 .. N /\ (n + 1) - 1 = n /\ \A i : i \in 1 .. n + 1 <=> i \in 1 .. n \/ i = n + 1
    BY <1>0
  <2> DEFINE v == f[n]  w == f[n + 1]  c == classes[n + 1]  named == ToSet(c.parents) \ {""}
  <2>2. w = AddClass(v, c) /\ Built(v, classes, n) /\ c.name # ""
    BY <1>1, <1>3, <1>5, <2>1
  <2>3. \A a, b : RequestNames(classes, n + 1, a, b) <=> RequestNames(classes, n, a, b) \/ (a = c.name /\ b \in named)
    BY <2>1 DEF RequestNames
  <2> HIDE DEF v, w, c
  <2>0. named = ToSet(c.parents) \ {""}
    OBVIOUS
  <2> HIDE DEF named
  <2>4. /\ DOMAIN w = DOMAIN v \cup {c.name} \cup named
        /\ \A a, b : IsChild(w, a, b) <=> IsChild(v, a, b) \/ (a = c.name /\ b \in named)
        /\ \A a, b : IsParent(w, a, b) <=> IsParent(v, a, b) \/ (a = c.name /\ b \in named)
    <3>1. Adds(v, AddClass(v, c), c.name, named)
      BY <2>0, ClassAdded
    <3> QED
      BY <2>2, <3>1 DEF Adds
  <2>5. "" \notin named
    BY <2>0
  <2>6. "" \notin DOMAIN w /\ \A i \in 1 .. n : classes[i].name \in DOMAIN w
    BY <2>2, <2>4, <2>5 DEF Built
  <2>7. \A i \in 1 .. n + 1 : classes[i].name \in DOMAIN w
    BY <2>1, <2>4, <2>6 DEF c
  <2>8. ASSUME NEW a, NEW b
        PROVE  /\ IsChild(w, a, b) <=> RequestNames(classes, n + 1, a, b)
               /\ IsParent(w, a, b) <=> RequestNames(classes, n + 1, a, b)
               /\ RequestNames(classes, n + 1, a, b) => a \in DOMAIN w /\ b \in DOMAIN w
    <3>1. /\ IsChild(v, a, b) <=> RequestNames(classes, n, a, b)
          /\ IsParent(v, a, b) <=> RequestNames(classes, n, a, b)
          /\ RequestNames(classes, n, a, b) => a \in DOMAIN v /\ b \in DOMAIN v
      BY <2>2 DEF Built
    <3> QED
      BY <2>3, <2>4, <3>1
  <2>9. Built(w, classes, n + 1)
    BY <2>6, <2>7, <2>8 DEF Built
  <2> QED
    BY <2>1, <2>9 DEF w
<1>6. Built(h, classes, N)
  <2> HIDE DEF S
  <2>1. 0 .. N \subseteq S
    BY <1>0, <1>4, <1>5, UpTo
  <2>2. N \in S
    BY <1>0, <2>1
  <2> QED
    BY <1>3, <2>2 DEF S
<1>7. \A i \in 1 .. N : classes[i].name \in DOMAIN h
  BY <1>6 DEF Built
<1>8. ASSUME NEW b \in DOMAIN h PROVE h[b].parents \cup h[b].children \subseteq DOMAIN h
  <2>1. \A a \in h[b].children : a \in DOMAIN h
    BY <1>6 DEF Built, IsChild
  <2>2. \A a \in h[b].parents : a \in DOMAIN h
    BY <1>6 DEF Built, IsParent
  <2> QED
    BY <2>1, <2>2
<1>9. ASSUME NEW a \in DOMAIN h, NEW b \in DOMAIN h
      PROVE  /\ a \in h[b].children <=> \E i \in 1 .. N : classes[i].name = a /\ b \in ToSet(classes[i].parents)
             /\ b \in h[a].parents <=> a \in h[b].children
  <2>1. (a \in h[b].children <=> RequestNames(classes, N, a, b)) /\ (b \in h[a].parents <=> RequestNames(classes, N, a, b)) /\ b # ""
    BY <1>6 DEF Built, IsChild, IsParent
  <2> QED
    BY <2>1 DEF RequestNames
<1> QED
  BY <1>1, <1>7, <1>8, <1>9 DEF KinMatches, h

-----------------------------------------------------------------------------
(* A state is one rule with an input of its types.                         *)

Fitting == Fits(rule, input)

LEMMA StaysFitting == RulesSpec => []Fitting
<1>1. RulesInit => Fitting
  BY RulesAssumption DEF RulesInit, Fitting
<1>2. Fitting /\ [RulesNext]_<<rule, input, seen>> => Fitting'
  BY DEF Fitting, RulesNext, Look
<1> QED
  BY <1>1, <1>2, PTL DEF RulesSpec

\* TaggingSound, for every scan, whatever the model answers: the budget of a scan
\* is spent and no more, and the model only adds (enhanceTagsWithAI, mergeUnique).
THEOREM TaggingStaysSound == RulesSpec => []TaggingSound
<1>1. Fitting => TaggingSound
  BY BudgetSpent, TagsGrow DEF Fitting, Fits, TaggingSound, BudgetKept, EnhancementAdds
<1> QED
  BY <1>1, StaysFitting, PTL

\* SettingsHold, for every file, environment, base and overlay: the JSON form
\* says what the YAML form says, the environment has the last word, and a tenant
\* or an overlay keeps settings sound and adds nothing the second time
\* (applyToConfig, LoadFromEnv, ToConfig, Merge, Validate).
THEOREM SettingsStayHold == RulesSpec => []SettingsHold
<1>1. Fitting => SettingsHold
  BY FormsAlike, EnvironmentLast, OverlaysKeepValid, TenantsOwn
     DEF Fitting, Fits, SettingsHold, FileFormsAgree, EnvironmentHolds, OverlaysValid, TenantsTake
<1> QED
  BY <1>1, StaysFitting, PTL

\* RequestsAnswered, for every store, request and settings: a tool and a route with
\* the same arguments answer alike when no number, mode or flag is written as only
\* one of them reads it, nobody is answered from the store of
\* another tenant, every name has one answer of its own, and every frame its
\* answer in order (handleToolCall, serviceForRequest, querySymbols, serveStdio).
THEOREM RequestsStayAnswered == RulesSpec => []RequestsAnswered
<1>1. Fitting => RequestsAnswered
  BY ToolsAgree, OwnTenantAnswers, NamesAreAnswered, FramesAreAnswered
     DEF Fitting, Fits, RequestsAnswered, ToolsAsRoutes, OwnTenant, NamesAnswered, EveryFrame
<1> QED
  BY <1>1, StaysFitting, PTL

\* TestsTold, for every store, profile and coverage: tests found by their name are
\* listed, profiles add up, and what counts as covered was run
\* (FindTestLinks, ParseGoCoverProfile).
THEOREM TestsStayTold == RulesSpec => []TestsTold
<1>1. Fitting => TestsTold
  BY NamedAreListed, ProfilesAdd, CoveredRan
     DEF Fitting, Fits, TestsTold, NamedTestsListed, ProfilesMerge, CoverageWasRun
<1> QED
  BY <1>1, StaysFitting, PTL

\* QueriesAgree, for every store, disk, cache and set of documents: a context is
\* shown within the file as it is, tags are told alike from both ends, and a
\* search loses no name (getContextModeUncached, SearchByTags, GetTags,
\* SearchWithOptions).
THEOREM QueriesStayAgreed == RulesSpec => []QueriesAgree
<1>1. Fitting => QueriesAgree
  <2>1. Fitting => ContextWithinFile
    BY ShownInside DEF Fitting, Fits, ContextWithinFile
  <2>2. Fitting => TagsAgree
    BY TagsFind DEF Fitting, Fits, TagsAgree
  <2>3. Fitting => SearchKeeps
    BY SearchKeepsAll DEF Fitting, Fits, SearchKeeps
  <2> QED
    BY <2>1, <2>2, <2>3 DEF QueriesAgree
<1> QED
  BY <1>1, StaysFitting, PTL

\* ProjectGraphsExact, for every set of files, import, list of methods and list of
\* classes: what an import spells is what it resolves to, what it resolves to bears
\* its name, no method drops out of the hot ones for another with fewer callers,
\* and both directions of the hierarchy agree (CompositeResolver.Resolve, Analyze,
\* BuildClassHierarchy).
THEOREM ProjectGraphsStayExact == RulesSpec => []ProjectGraphsExact
<1>1. Fitting => ProjectGraphsExact
  <2>1. Fitting => ImportsSpelledOut /\ ImportsNamed
    BY ResolvedSpelled, ResolvedNamed DEF Fitting, Fits, ImportsSpelledOut, ImportsNamed
  <2>2. Fitting => HotListed
    BY MostAreListed DEF Fitting, Fits, HotListed
  <2>3. Fitting => HierarchyMatches
    BY KinAgree DEF Fitting, Fits, HierarchyMatches
  <2> QED
    BY <2>1, <2>2, <2>3 DEF ProjectGraphsExact
<1> QED
  BY <1>1, StaysFitting, PTL
=============================================================================
