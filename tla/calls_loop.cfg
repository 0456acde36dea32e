SPECIFICATION Spec
CONSTANTS
    c1 = c1
    c2 = c2
    NoKey = NoKey
    Calls = {c1, c2}
    AdapterOf <- MCWrappers
    Apps = {a1, a2}
    Key = Key
    Threads = FALSE
    MaxFaults = 1
SYMMETRY MCAppSymmetry
CHECK_DEADLOCK FALSE
INVARIANTS
    ToolsRecorded
    FailuresCorrected
    NoDuplicates
