SPECIFICATION MCSpec
CONSTANTS
    Paths = {p1, p2}
    Texts = {t1, t2}
    MaxId = 2
    Threshold = 2
    MaxRuns = 2
    MaxTasks = 2
    MaxFaults = 1
    Unknown = Unknown
    Torn = Torn
    TestNames <- TestLike
    SourceName <- SourceNames
    Mentions <- Matching
    Many = 3
    Few = 2
    Gone = Gone
    Nothing = Nothing
    Tenants = {"t", "u"}
    Default = "t"
    Unset = Unset
    Junk = Junk
    Blank <- Spaces
    Module <- ProjectModule
    SourceRoots <- SourceDirs
    StdPrefixes <- Libraries
    GradleModules = {"core"}
    LayerOf <- Layers
    SuffixLayer <- ClassSuffixes
    NoBusiness = {"", "src", "core", "a.go"}
    TechOf <- Techs
    RiskOf <- Risks
    DefaultConfig <- Initial
    Inputs <- SmallInputs
SYMMETRY AnyOrder
INVARIANTS IndexCurrent LagBounded WeightsSound TestsTold QueriesAgree RequestsAnswered ProjectGraphsExact TaggingSound SettingsHold
CHECK_DEADLOCK FALSE
