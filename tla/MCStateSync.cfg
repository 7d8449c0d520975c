CONSTANTS
    w1 = w1
    w2 = w2
    p1 = p1
    p2 = p2
    Tables <- MCTables
    Writers <- MCWriters
    Polls <- MCPolls
    PerPage = 1
    MaxTime = 2
    MaxWrites = 2
    MaxEvents = 2
    Never <- MCNever
SPECIFICATION Spec
SYMMETRY Symmetry
INVARIANTS
    UpdatesAreSeen
