CONSTANTS
    User = {u1, u2}
    Priv = {p1, p2}
    NULL = NULL
    UninitRet = {"zero", "error"}
SPECIFICATION Spec
CHECK_DEADLOCK FALSE
INVARIANTS
    CdevBacked
    BoundIsComplete
PROPERTIES
    BoundIsUsable
    WritesEnd
    ModuleCallsEnd
