SPECIFICATION FairSpec
CONSTANTS
    parent = parent
    child = child
    other = other
    p1 = p1
    p2 = p2
    k = k
    o = o
    s1 = s1
    s2 = s2
    d1 = d1
    d2 = d2
    NoTable = NoTable
    NoChunk = NoChunk
    NoFile = NoFile
    NoDest = NoDest
    Table = {parent, child, other}
    Chunk = {p1, k, o}
    Dest = {d1}
    Position <- MCPosition
    SchemaOf <- MCOneSchema
    Parent <- MCParent
    TableOf <- MCTableOf
    Rows <- MCRows
    Unsupported = {}
    Legacy = FALSE
    BatchSize = 2
    StageCap = 2
    Faults = {"absent_tables", "crash", "export_error"}
INVARIANTS
    RunsGoOn
PROPERTIES
    FinishAccountsForAll
    RunsGetShorter
    RunTerminates
