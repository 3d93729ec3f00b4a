SPECIFICATION Spec
CONSTANTS
    Programs <- MCPrograms
    Scope = {"kinds"}
INVARIANT Compilable
CHECK_DEADLOCK FALSE
