SPECIFICATION Spec
CONSTANTS
    Procs = {p1, p2}
    NoProc = NoProc
    Docs = {d1, d2}
    ExternalBodies = {good, bad}
    Malformed = {bad}
    Inadmissible = {}
    Absent = Absent
    RawRace = FALSE
    ScanRace = TRUE
    MaxCommits = 2
    MaxEdits = 1
    MaxFaults = 1
SYMMETRY StoreSymmetry
INVARIANTS NoHalfCommit SavedIsAccepted CommitEventCeiling CommitInv
PROPERTIES GenerationAdvances ReadSeesOneVersion CommitPreservesForeign ImplementsAtomicStore
