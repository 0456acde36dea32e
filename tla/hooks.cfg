SPECIFICATION Spec
CONSTANTS
    c1 = c1
    c2 = c2
    shell = shell
    Calls = {c1, c2}
    ToolOf <- MCOneTool
    Flags = {f1}
    Others = {}
    NoKey = NoKey
    None = None
    NoFile = NoFile
    Empty = Empty
    Garbled = Garbled
    Pathless <- MCPathless
    MaxOpen = 2
    MaxCrashes = 1
SYMMETRY MCOneToolSymmetry
CHECK_DEADLOCK FALSE
INVARIANTS
    TypeOK
    OneKey
    CorrectionsRooted
    BranchesVerify
    ReceiptLeft
    ErrorsCorrected
PROPERTIES
    KeyStays
