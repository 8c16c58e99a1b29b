\* The same organization with two requests at a time.  Two archivals can leave it
\* without a workspace, and nobody can act then: hence CHECK_DEADLOCK FALSE.
CONSTANTS
    u1 = u1
    u2 = u2
    u3 = u3
    w1 = w1
    w2 = w2
    i1 = i1
    i2 = i2
    t1 = t1
    t2 = t2
    c1 = c1
    c2 = c2
    Users = {u1, u2, u3}
    Workspaces = {w1, w2}
    Founder = u1
    Home = w1
    Invites = {i1, i2}
    Transfers = {t1, t2}
    MaxRows = 4
    Slots = {c1, c2}
    Seats = 3
SPECIFICATION Spec
INVARIANT
    OneOwner
CHECK_DEADLOCK FALSE
