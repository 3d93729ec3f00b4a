SPECIFICATION Spec
CONSTANTS
    Programs <- MCPrograms
    Scope = {"embedded"}
INVARIANT Compilable
CHECK_DEADLOCK FALSE
