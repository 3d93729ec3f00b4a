SPECIFICATION Spec
CONSTANTS
    NrJobs = 2
    NrCUs = 4
    Lsk = {"KEEPIT", "DELETE", "STOP_LOADING", "ABORT"}
    Faults = {"calloc", "thread", "nextcu", "offdie", "create_cu", "decode", "spurious"}
INVARIANTS TypeOK CusInFileOrder AbortReported
PROPERTIES ImplementsSerial
CHECK_DEADLOCK FALSE
