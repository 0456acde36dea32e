SPECIFICATION FairSpec
CONSTANTS
    c1 = c1
    c2 = c2
    i1 = i1
    i2 = i2
    b1 = b1
    b2 = b2
    Forged = Forged
    None = None
    Consumers = {c1, c2}
    Ids = {i1}
    Bodies = {b1, b2}
    Signed <- MCSignedOneId
    MaxCrashes = 1
    MaxFailures = 1
    MaxMutations = 1
INVARIANTS
    StoredTrusted
    AtMostOnce
    StrandedByCrash
PROPERTIES
    RefusalJustified
    CallEnds
    LockFreed
    ImplementsAdmission
