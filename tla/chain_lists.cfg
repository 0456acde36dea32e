SPECIFICATION Spec
CONSTANTS
    Signers = {alice, bob}
    Pinned = alice
    Stranger = stranger
    Ids = {i1, i2, i3}
    Bodies = {b1}
    NoKey = NoKey
    Respellings = {padded}
    MaxMade = 3
    MaxAltered = 1
    MaxLength = 3
SYMMETRY MCSymmetry
CHECK_DEADLOCK FALSE
INVARIANTS
    AcceptedExactly
    CheckpointExact
    OrderDetermined
    VerifiersAgree
    IndependentExtent
