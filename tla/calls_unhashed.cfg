SPECIFICATION Spec
CONSTANTS
    c1 = c1
    c2 = c2
    NoKey = NoKey
    Calls = {c1, c2}
    AdapterOf <- MCWrappers
    Apps = {}
    Key = Key
    Threads = FALSE
    MaxFaults = 0
SYMMETRY MCAppSymmetry
CHECK_DEADLOCK FALSE
INVARIANTS
    ResultsHashed
