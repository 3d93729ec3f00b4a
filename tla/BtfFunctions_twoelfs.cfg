SPECIFICATION Spec
CONSTANTS
    Elfs = {"vmlinux", "module"}
    SymTabs <- TwoElfs
    Fns <- Plain
    Types <- MCTypes
    types__match <- MCMatch
    TrueSignature = {FALSE}
    SkipInconsistent = {TRUE}
    Faults = {}
    MaxFns = 3
INVARIANTS AddedOnce
CHECK_DEADLOCK FALSE
