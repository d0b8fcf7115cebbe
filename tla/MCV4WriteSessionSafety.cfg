SPECIFICATION Spec
CONSTANTS
    Procs = {p1, p2}
    NoProc = NoProc
    Artifacts = {a1, a2}
    Ledger = Ledger
    ExternalBodies = {foreign}
    Absent = Absent
    Torn = Torn
    RawRace = TRUE
    MaxCommits = 2
    MaxEdits = 0
    MaxFaults = 1
SYMMETRY SessionSymmetry
INVARIANTS
    WriteSessionInv
    LedgerIsExact
    ReplaysFromItsLedger
    LedgerExpectedInForce
    RecoveryUnambiguous
    NoResidue
    ReportedIsInForce
PROPERTIES
    ImplementsAtomicAuthority
