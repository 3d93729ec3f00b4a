SPECIFICATION Spec
CONSTANTS
    ArgvLengths = {1, 2}
    FormatPaths <- DwarfOnly
    Lsk = {"KEEPIT", "DELETE", "STOP_LOADING", "ABORT"}
    Faults = {"open", "nodwarf", "types", "decode"}
    TypeUnits = {TRUE, FALSE}
    Merging = {FALSE}
    MaxModules = 2
    MaxUnits = 1
    HashBits = 0
    MaxHashBits = 0
INVARIANTS TypeOK TypeCuAlive ListLive DeletedNotListed AllFreed ErrNamesFile
PROPERTIES AbortIsFinal
CHECK_DEADLOCK FALSE
