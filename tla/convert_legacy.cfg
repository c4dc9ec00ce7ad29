SPECIFICATION Spec
CONSTANTS
    parent = parent
    child = child
    other = other
    p1 = p1
    p2 = p2
    k = k
    o = o
    s1 = s1
    s2 = s2
    d1 = d1
    d2 = d2
    NoTable = NoTable
    NoChunk = NoChunk
    NoFile = NoFile
    NoDest = NoDest
    Table = {parent, child, other}
    Chunk = {p1, k, o}
    Dest = {d1, d2}
    Position <- MCPosition
    SchemaOf <- MCTwoSchemas
    Parent <- MCNoParent
    TableOf <- MCTableOf
    Rows <- MCChildEmpty
    Unsupported = {other}
    Legacy = TRUE
    BatchSize = 2
    StageCap = 2
    Faults = {"crash", "oracle_error", "import_error", "commit_error", "export_error"}
INVARIANTS
    ReimportIsIdempotent
    ReportIsDurable
    IInv
PROPERTIES
    FinishAccountsForAll
    ImplementsResumable
