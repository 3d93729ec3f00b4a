SPECIFICATION Spec
CONSTANTS
    ArgvLengths = {1}
    FormatPaths <- DwarfOnly
    Lsk = {"ABORT"}
    Faults = {}
    TypeUnits = {FALSE}
    Merging = {TRUE}
    MaxModules = 1
    MaxUnits = 1
    HashBits = 0
    MaxHashBits = 0
INVARIANTS ListLive
CHECK_DEADLOCK FALSE
