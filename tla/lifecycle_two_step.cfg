SPECIFICATION Spec
CONSTANTS
    n1 = n1
    n2 = n2
    i1 = i1
    i2 = i2
    a = a
    b = b
    t1 = t1
    t2 = t2
    NoName = NoName
    NoImage = NoImage
    NoSchema = NoSchema
    NoSession = NoSession
    Torn = Torn
    Name = {n1, n2}
    Image = {i1, i2}
    Schema = {a, b}
    Tablespace = {t1, t2}
    Needs <- MCNeeds
    Listed = {}
    Legacy = FALSE
    Commands = {"inspect", "convert"}
    Faults = {"crash", "tool_error", "ready_error", "vanish", "docker_error"}
SYMMETRY Containers
INVARIANTS
    TypeOK
    SessionTellsTruth
    CachesAreTrue
    InspectStartsFresh
