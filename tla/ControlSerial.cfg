\* Three users, two seats, two workspaces, and three rows among two invitations
\* and two transfers; one request at a time.
CONSTANTS
    u1 = u1
    u2 = u2
    u3 = u3
    w1 = w1
    w2 = w2
    i1 = i1
    i2 = i2
    t1 = t1
    t2 = t2
    c1 = c1
    Users = {u1, u2, u3}
    Workspaces = {w1, w2}
    Founder = u1
    Home = w1
    Invites = {i1, i2}
    Transfers = {t1, t2}
    MaxRows = 3
    Slots = {c1}
    Seats = 2
SPECIFICATION Spec
SYMMETRY RowSymmetry
INVARIANTS
    TypeOK
    OneOwner
    OwnerIsAnOwner
    OneIsPending
    SettledOneWay
    SomeWorkspaceStays
    SeatsHold
