SPECIFICATION Spec
CONSTANTS
    parent = parent
    child = child
    other = other
    p1 = p1
    p2 = p2
    k = k
    o = o
    s1 = s1
    s2 = s2
    d1 = d1
    d2 = d2
    NoTable = NoTable
    NoChunk = NoChunk
    NoFile = NoFile
    NoDest = NoDest
    Table = {parent, child}
    Chunk = {p1, p2, k}
    Dest = {d1}
    Position <- MCPosition
    SchemaOf <- MCOneSchema
    Parent <- MCParent
    TableOf <- MCTableOf
    Rows <- MCRows
    Unsupported = {}
    Legacy = FALSE
    BatchSize = 2
    StageCap = 2
    Faults = {"export_error"}
PROPERTIES
    ReportReflectsFailures
