CONSTANTS
    u1 = u1
    u2 = u2
    p1 = p1
    p2 = p2
    i1 = i1
    Users = {u1, u2}
    Founder = u1
    Procs = {p1, p2}
    InvIds = {i1}
    MaxRows = 2
SPECIFICATION Spec
INVARIANT TablesOK
PROPERTY SettledForGood
PROPERTY OwnersComeFromOwners
PROPERTY OwnerlessIsForever
CHECK_DEADLOCK FALSE
SYMMETRY RequestSymmetry
