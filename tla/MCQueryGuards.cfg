\* Every document of the instance, against a limit of two levels.
SPECIFICATION Spec
CONSTANTS
    MaxDepth = 2
    Documents <- MCDocuments
CHECK_DEADLOCK FALSE
INVARIANTS
    DepthLimitExact
    WalkIsLinear
