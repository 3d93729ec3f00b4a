SPECIFICATION Spec
CONSTANTS
    Programs <- MCPrograms
    Scope = {}
INVARIANTS Compilable AllDefined
CHECK_DEADLOCK FALSE
