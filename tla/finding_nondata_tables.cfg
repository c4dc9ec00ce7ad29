SPECIFICATION Spec
CONSTANTS
    mv = mv
    fact = fact
    feed = feed
    Obj = Obj
    trg = trg
    fk = fk
    pol = pol
    pkg = pkg
    mvp = mvp
    fun = fun
    mvfun = mvfun
    txt = txt
    key = key
    NoFunction = NoFunction
    NoMview = NoMview
    Table = {mv, fact, feed, Obj}
    Dump <- MCDump
    Mview = {mv}
    Trigger = {trg}
    ForeignKey = {fk}
    Policy = {pol, pkg, mvp}
    ByteColumn = {txt, key}
    PolicyFunction = {fun, mvfun}
    FunctionOf <- MCFunctionOf
    On <- MCOn
    Unmodifiable = {key}
    Undisableable = {fk}
    Config <- MCConfig
    Upper <- MCUpper
    MaxMissed = 2
    Faults = {}
INVARIANTS
    NonDataTablesUnsupported
