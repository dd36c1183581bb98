SPECIFICATION Spec
CONSTANTS
    Claims <- MCClaims
    Resolvers = {r1, r2}
    MaxMemories = 3
    MaxConflicts = 2
    MaxFaults = 1
SYMMETRY Symmetry
INVARIANTS
    TypeOK
    ContradictionFiled
    ClosedIsDecided
    OpenConflictsDisjoint
    SurvivorUnlessStale
CHECK_DEADLOCK FALSE
