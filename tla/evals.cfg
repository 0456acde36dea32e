SPECIFICATION Spec
CONSTANTS
    e1 = e1
    e2 = e2
    s1 = s1
    c1 = c1
    c2 = c2
    m1 = m1
    m2 = m2
    p1 = p1
    p2 = p2
    Evals = {e1, e2}
    Samples = {s1}
    Scorers = {c1, c2}
    Agents = {m1, m2, p1, p2}
    ModelOf <- MCModelOf
    PointerTo <- MCPointerTo
    Gates <- MCGates
    Seeds = {"unset", "blank", "bad", "good"}
    MaxChanges = 1
    MaxGates = 1
SYMMETRY MCSymmetry
CHECK_DEADLOCK FALSE
INVARIANTS
    TypeOK
    OnePerSample
    NothingSilent
    ErrorsOnce
    AgentIsModel
    GateFaithful
