SPECIFICATION FairSpec
CONSTANTS
    Statuses = {"open", "started"}
    MaxRevision = 2
    MaxIntents = 2
    MaxCalls = 2
    MaxFaults = 2
    MaxEvents = 1
INVARIANTS IntentsInv UndoIsExact OfferIsItsOwn
PROPERTIES ImplementsIntentLedger IntentsSettle
CHECK_DEADLOCK FALSE
