CONSTANTS
    u1 = u1
    u2 = u2
    u3 = u3
    p1 = p1
    i1 = i1
    i2 = i2
    Users = {u1, u2, u3}
    Founder = u1
    Procs = {p1}
    InvIds = {i1, i2}
    MaxRows = 3
SPECIFICATION Spec
INVARIANT AtLeastOneOwner
INVARIANT MembershipJustified
PROPERTY InvitationsHold
PROPERTY ActsAtOnce
