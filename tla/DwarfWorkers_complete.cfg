SPECIFICATION Spec
CONSTANTS
    NrJobs = 2
    NrCUs = 5
    Lsk = {"KEEPIT", "DELETE"}
    Faults = {}
INVARIANTS AllStolen StealOneAtATime StealsBeforeDecodes DecodedCusLimit
PROPERTIES Termination
CHECK_DEADLOCK FALSE
