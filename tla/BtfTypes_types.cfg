CONSTANTS
    Inputs <- MCInputs
    U32 <- MCU32
    Scope = "all"
SPECIFICATION Spec
INVARIANTS IdsForetold LoadedAsEncoded SuccessMeansWritten
