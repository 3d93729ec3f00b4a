SPECIFICATION Spec
CONSTANTS
    ArgvLengths = {0, 1}
    FormatPaths <- AnyFormat
    Lsk = {"KEEPIT"}
    Faults = {"open", "nodwarf", "types", "decode", "memory", "btf", "ctf"}
    TypeUnits = {TRUE, FALSE}
    Merging = {TRUE, FALSE}
    MaxModules = 2
    MaxUnits = 2
    HashBits = 0
    MaxHashBits = 13
PROPERTIES Termination
CHECK_DEADLOCK FALSE
