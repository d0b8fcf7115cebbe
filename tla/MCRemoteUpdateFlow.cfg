SPECIFICATION FairSpec
CONSTANTS
    Flows = {f1, f2}
    NoFlow = NoFlow
    Plans = {"no"}
    RestoreProves = TRUE
    MaxOps = 5
    MaxFaults = 1
    MaxReconnects = 1
CHECK_DEADLOCK FALSE
INVARIANTS
    UpdateInv
    InFlightIsRecorded
    OpenIsRecorded
    SelectionIsReversible
    AnchorWhileSelected
    UnsettledIsAddressable
    SourceKeptBeforeActivation
PROPERTIES
    ImplementsManagedUpdate
    UnknownSettles
