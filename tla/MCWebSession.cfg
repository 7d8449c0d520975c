SPECIFICATION Spec
CONSTANTS
    ada = ada
    bob = bob
    guest = guest
    r1 = r1
    r2 = r2
    Users <- MCUsers
    NewUsers <- MCNewUsers
    Guest = guest
    Requests <- MCRequests
    MaxLogins = 2
INVARIANTS
    AppIsUpdated
    OneLoop
    OwnData
PROPERTY
    LossIsNoticed
