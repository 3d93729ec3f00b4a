SPECIFICATION Spec
CONSTANTS
    Files <- AllFiles
    MaxDepth = 3
INVARIANTS ReferencesHold ImportedOnce
CHECK_DEADLOCK FALSE
