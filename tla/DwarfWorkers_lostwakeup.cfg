SPECIFICATION Spec
CONSTANTS
    NrJobs = 2
    NrCUs = 4
    Lsk = {"KEEPIT", "STOP_LOADING"}
    Faults = {}
PROPERTIES Termination
CHECK_DEADLOCK FALSE
