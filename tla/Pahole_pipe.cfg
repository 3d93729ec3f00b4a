SPECIFICATION Spec
CONSTANTS
    Invocations <- MCInvocations
    Scope = "pipe"
INVARIANTS SeeksWhereAsked
