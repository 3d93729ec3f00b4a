SPECIFICATION Spec
CONSTANTS
    Invocations <- MCInvocations
    Scope = "encode"
INVARIANTS NoDebugInfoOnly
