SPECIFICATION Spec
CONSTANTS
    a = a
    b = b
    e = e
    p = p
    q = q
    NoChunk = NoChunk
    Chunk = {a, b, e}
    Rows <- MCRows
    BatchSize = 2
    Path <- MCPath
    MaxLosses = 2
INVARIANTS
    TypeOK
    ReturnedExportIsWhole
    CompletedIsBacked
PROPERTIES
    ImplementsRecoverable
    ProcessGetsShorter
