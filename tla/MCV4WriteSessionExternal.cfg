SPECIFICATION FairSpec
CONSTANTS
    Procs = {p1}
    NoProc = NoProc
    Artifacts = {a1, a2}
    Ledger = Ledger
    ExternalBodies = {foreign}
    Absent = Absent
    Torn = Torn
    RawRace = FALSE
    MaxCommits = 1
    MaxEdits = 2
    MaxFaults = 2
INVARIANTS NoPartialGeneration
PROPERTIES ForeignPreserved RecoveryCompletes
