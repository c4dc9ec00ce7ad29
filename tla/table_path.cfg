SPECIFICATION Spec
CONSTANTS
    parts = parts
    whole = whole
    p1 = p1
    p2 = p2
    w = w
    a = a
    b = b
    m = m
    NoTable = NoTable
    NoFile = NoFile
    Table = {parts, whole}
    Chunk = {p1, p2, w}
    ChunksOf <- MCChunksOf
    Partitioned = {parts}
    Referenced = {whole}
    Rows <- MCRows
    Tablespace = {a, b, m}
    MixedCase = {m}
    Needs <- MCNeeds
    Listed = {b}
    ToolCodes = {959, 1950, 31693, 39083}
    Faults = {"crash", "oracle_error", "import_error", "export_error"}
INVARIANTS
    TypeOK
    CompletedExact
    EveryRetryIsPaidFor
PROPERTIES
    ReturnsWholeTable
    CallsGetShorter
    ImplementsResumable
