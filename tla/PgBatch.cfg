CONSTANTS
    Queries = {q1, q2}
    MaxChanges = 3
    v = v
    w = w
    File1 = File1
    Procs = {v, w}
    Files = {File1, File2}
    MaxEdits = 1
    MaxSessions = 2
    Workers = {v, w}
    Paths = {File1}
    Docs <- PgDocs
    Batches <- PgBatches
    Tags = {"t"}
    MaxTx = 3
    NoOne = NoOne
    Writers = {w}
    Sources = {"one", "two"}
    Symbols = {"A", "B", "A.m", "B.n"}
    IRs <- KvIRs
    IRBatches <- KvBatches
    Leftovers <- KvLeftovers
    NoSource = NoSource
    MaxWrites = 2
    NoHash = NoHash
    Nobody = Nobody
    Unreadable = Unreadable
SPECIFICATION Spec
PROPERTIES BatchReplacesFile
CHECK_DEADLOCK FALSE
