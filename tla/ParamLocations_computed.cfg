SPECIFICATION Spec
CONSTANTS
    Machines = {"x86_64", "aarch64", "s390"}
    Compilers = {"gcc", "clang"}
    Sources <- MCSources
    MaxParams = 2
    Leads = {4, 5, 7}
INVARIANTS ComputedDescribed
CHECK_DEADLOCK FALSE
