SPECIFICATION Spec
CONSTANTS
    c1 = c1
    c2 = c2
    c3 = c3
    a1 = a1
    a2 = a2
    Callers <- MCCallers
    Items <- MCItems
    MaxTries = 3
    MaxExpiries = 1
    MaxFaults = 1
SYMMETRY Symmetry
INVARIANTS
    RevisionIdentifiesValue
    LostTurnsHaveCauses
PROPERTIES
    ImplementsPendingSet
CHECK_DEADLOCK FALSE
