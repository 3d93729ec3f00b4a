SPECIFICATION Spec
CONSTANTS
    ArgvLengths = {1}
    FormatPaths <- DwarfOnly
    Lsk = {"DELETE"}
    Faults = {}
    TypeUnits = {TRUE}
    Merging = {TRUE}
    MaxModules = 1
    MaxUnits = 1
    HashBits = 0
    MaxHashBits = 0
INVARIANTS LookupInTable
CHECK_DEADLOCK FALSE
