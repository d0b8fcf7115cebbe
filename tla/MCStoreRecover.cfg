SPECIFICATION Spec
CONSTANTS
    Procs = {p1}
    NoProc = NoProc
    Docs = {d1, d2}
    ExternalBodies = {good}
    Malformed = {}
    Inadmissible = {}
    Absent = Absent
    RawRace = FALSE
    ScanRace = FALSE
    MaxCommits = 1
    MaxEdits = 1
    MaxFaults = 1
PROPERTIES RecoveryPreservesForeign
