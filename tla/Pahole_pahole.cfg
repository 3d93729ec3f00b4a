SPECIFICATION Spec
CONSTANTS
    Invocations <- MCInvocations
    Scope = "all"
INVARIANTS PrintedAsAsked UsesWhatIsThere EncodedOnSuccess RecordsExact
