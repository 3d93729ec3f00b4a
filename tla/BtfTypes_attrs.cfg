CONSTANTS
    Inputs <- MCInputs
    U32 <- MCU32
    Scope = "annots"
SPECIFICATION Spec
INVARIANT TypeAttrsKept
