SPECIFICATION FairSpec
CONSTANTS
    Hosts = {"h1", "h2"}
    Pinning = {"h1"}
    Pids <- SharedPids
    Runs = {w1, w2}
    NoRun = NoRun
    NoReceipt = NoReceipt
    Legacy = Legacy
    MaxStarts = 2
    MaxFaults = 1
INVARIANTS
    OwnerInv
    ConfirmedIsGone
    SignalsItsOwn
PROPERTIES
    ImplementsOneOwner
    AbandonedIsCleared
