SPECIFICATION QueriesSpec
CONSTANTS
    p1 = p1  p2 = p2
    h1 = h1  h2 = h2  h3 = h3
    A = A  B = B  foo = foo  bar = bar  k1 = k1  i1 = i1
    Paths = {p1, p2}
    Hashes = {h1, h2, h3}
    ClassNames = {A, B}
    MethodNames = {foo, bar}
    Calls = {k1}
    Imports = {i1}
    NoHash = NoHash
    NoFile = NoFile
    NoDoc = NoDoc
    NoTx = NoTx
    Docs <- SqliteDocs
    Batches <- SqliteBatches
    MaxID = 5
    Names <- MCNames
    Cases <- MCCases
    Contents <- MCContents
    RecursiveLimit = 10
    None = None
INVARIANTS RowsSound GraphsSound AnswersExact PathIsShortest QuietQueryNamesItsNode
PROPERTIES ImplementsDurableStore
CHECK_DEADLOCK FALSE
