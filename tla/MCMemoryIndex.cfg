SPECIFICATION Spec
CONSTANTS
    Memories = {m1, m2}
    Tasks = {t1, t2}
    MaxSeq = 4
    MaxRestarts = 1
    MaxFaults = 1
SYMMETRY Symmetry
INVARIANTS
    TypeOK
    SeqNamesOneMemory
    RetiredNotFound
    StoredIsFound
    RebuildRepairs
CHECK_DEADLOCK FALSE
