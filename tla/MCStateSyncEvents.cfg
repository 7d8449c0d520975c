CONSTANTS
    w1 = w1
    w2 = w2
    p1 = p1
    p2 = p2
    Tables <- MCTables
    Writers <- MCWriters
    Polls <- MCPolls
    PerPage = 15
    MaxTime = 1
    MaxWrites = 2
    MaxEvents = 1
    Never <- MCNever
SPECIFICATION Spec
SYMMETRY Symmetry
INVARIANTS
    EveryEventIsAnnounced
