SPECIFICATION Spec
CONSTANTS
    c1 = c1
    c2 = c2
    NoKey = NoKey
    Calls = {c1, c2}
    AdapterOf <- MCCrew
    Apps = {a1, a2}
    Key = Key
    Threads = TRUE
    MaxFaults = 1
SYMMETRY MCCrewSymmetry
CHECK_DEADLOCK FALSE
INVARIANTS
    TypeOK
    CorrectionsRooted
    FailuresCorrected
