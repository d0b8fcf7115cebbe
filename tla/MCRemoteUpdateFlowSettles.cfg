SPECIFICATION FairSpec
CONSTANTS
    Flows = {f1, f2}
    NoFlow = NoFlow
    Plans = {"no"}
    RestoreProves = TRUE
    MaxOps = 4
    MaxFaults = 1
    MaxReconnects = 0
CHECK_DEADLOCK FALSE
PROPERTY InterruptedActivationSettles
