SPECIFICATION StoresSpec
CONSTANTS
    p1 = p1  p2 = p2
    h1 = h1  h2 = h2
    A = A  B = B  foo = foo  k1 = k1  i1 = i1
    Paths = {p1, p2}
    Hashes = {h1, h2}
    ClassNames = {A, B}
    MethodNames = {foo}
    Calls = {k1}
    Imports = {i1}
    NoHash = NoHash
    NoFile = NoFile
    NoDoc = NoDoc
    Tags = {legacy}
    Taggers = {t1}
    Workers = {w1, w2}
    w1 = w1
    Docs <- MCDocs
    Batches <- MCBatches
    MaxID = 6
    a = a  b = b  default = default
    d1 = d1  d2 = d2  db = db
    c1 = c1  c2 = c2
    Ids = {a, b, default}
    DefaultID = default
    Dirs = {d1, d2, db}
    DataDir = d1
    OwnDir <- OwnDirs
    Exclusive = {d1, d2}
    Keys = {c1, c2}
    Bases <- Configurations
    MayFail = TRUE
    NoDir = NoDir
    NoTenant = NoTenant
    MaxBuilt = 6
INVARIANTS IdentifiersSound UpsertUndisturbed InstancesOwned TableSound
PROPERTIES TagsStay ImplementsCodeStore ImplementsTenantRouting InstancesReplaced
CHECK_DEADLOCK FALSE
CONSTRAINT TagsOnFewRows
