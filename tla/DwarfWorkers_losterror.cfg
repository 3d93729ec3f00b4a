SPECIFICATION Spec
CONSTANTS
    NrJobs = 1
    NrCUs = 2
    Lsk = {"KEEPIT"}
    Faults = {"decode"}
INVARIANTS DecodeErrorReported
CHECK_DEADLOCK FALSE
