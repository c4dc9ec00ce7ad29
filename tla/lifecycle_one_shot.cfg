SPECIFICATION Spec
CONSTANTS
    n1 = n1
    n2 = n2
    i1 = i1
    i2 = i2
    a = a
    b = b
    t1 = t1
    t2 = t2
    NoName = NoName
    NoImage = NoImage
    NoSchema = NoSchema
    NoSession = NoSession
    Torn = Torn
    Name = {n1, n2}
    Image = {i1, i2}
    Schema = {a, b}
    Tablespace = {t1, t2}
    Needs <- MCNeeds
    Listed = {t1}
    Legacy = TRUE
    Commands = {"inspect", "convert", "run"}
    Faults = {"tool_error", "ready_error", "vanish", "file_error"}
SYMMETRY Containers
PROPERTIES
    NoContainerLost
