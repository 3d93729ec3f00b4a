SPECIFICATION Spec
CONSTANTS
    Programs <- MCPrograms
    Scope = {"qualified"}
INVARIANT Compilable
CHECK_DEADLOCK FALSE
