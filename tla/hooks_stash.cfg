SPECIFICATION Spec
CONSTANTS
    c1 = c1
    c2 = c2
    shell = shell
    Calls = {c1, c2}
    ToolOf <- MCOneTool
    Flags = {}
    Others = {}
    NoKey = NoKey
    None = None
    NoFile = NoFile
    Empty = Empty
    Garbled = Garbled
    Pathless = {}
    MaxOpen = 1
    MaxCrashes = 0
SYMMETRY MCOneToolSymmetry
CHECK_DEADLOCK FALSE
PROPERTIES
    StashDelivered
