SPECIFICATION Spec
CONSTANTS
    Elfs = {"vmlinux"}
    SymTabs <- OneElf
    Fns <- MCFns
    Types <- MCTypes
    types__match <- MCMatch
    TrueSignature = {TRUE, FALSE}
    SkipInconsistent = {TRUE, FALSE}
    Faults = {"memory"}
    MaxFns = 3
INVARIANTS TypeOK EncodedTrusted EncodedConsistent AddedOnce EncodedAddress GoodEncoded
CHECK_DEADLOCK FALSE
