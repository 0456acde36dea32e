SPECIFICATION Spec
CONSTANTS
    w1 = w1
    w2 = w2
    small = small
    large = large
    Writers = {w1, w2}
    NoRecord = NoRecord
    Records <- MCRecords
    IdOf <- MCIdOf
    Large <- MCLarge
    MaxOpen = 2
    MaxCalls = 2
    MaxTears = 1
    MaxLosses = 0
SYMMETRY MCSymmetry
INVARIANTS
    AckedReadable

