SPECIFICATION Spec
CONSTANTS
    AddrSize = 8
    CachelineSize = 64
    Decls <- MCDecls
    MaxMembers = 4
    Tails = {0, 3}
    Formats = {"dwarf2le", "dwarf2be", "dwarf4", "btf"}
INVARIANTS LoadedWhereItIs PrintedAsLaidOut Reorganized
CHECK_DEADLOCK FALSE
