SPECIFICATION Spec
CONSTANTS
    P = 3
    EMin <- MCEMin
    EMax = 5
    Frac = 4
    Width = 7
    Plain = 2
    Small <- MCSmall
    AppInts <- MCAppInts
    MaxHops = 2
CHECK_DEADLOCK FALSE
INVARIANTS
    SignatureBindsNumber
    SpellingsAgree
    NoSilentRounding
    IndependentIsStricter
