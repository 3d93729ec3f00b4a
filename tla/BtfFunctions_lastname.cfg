SPECIFICATION Spec
CONSTANTS
    Elfs = {"vmlinux"}
    SymTabs <- LastName
    Fns <- GFns
    Types <- MCTypes
    types__match <- MCMatch
    TrueSignature = {FALSE}
    SkipInconsistent = {TRUE}
    Faults = {}
    MaxFns = 1
INVARIANTS UnambiguousEncoded
CHECK_DEADLOCK FALSE
