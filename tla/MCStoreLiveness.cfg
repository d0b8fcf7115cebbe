SPECIFICATION FairSpec
CONSTANTS
    Procs = {p1}
    NoProc = NoProc
    Docs = {d1, d2}
    ExternalBodies = {good, odd}
    Malformed = {}
    Inadmissible = {odd}
    Absent = Absent
    RawRace = TRUE
    ScanRace = TRUE
    MaxCommits = 1
    MaxEdits = 2
    MaxFaults = 1
PROPERTIES TransactionsEnd RecoveryCompletes
