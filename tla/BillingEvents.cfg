CONSTANTS
    k1 = k1
    k2 = k2
    starter = starter
    premium = premium
    d1 = d1
    h1 = h1
    h2 = h2
    Subs = {k1, k2}
    Plans = {starter, premium}
    Clerks = {d1}
    Hooks = {h1, h2}
    MaxNow = 1
    MaxEvents = 5
SPECIFICATION Spec
SYMMETRY BillingSymmetry
CONSTRAINT OverlapBound
INVARIANTS
    TypeOK
    AccessIsReported
    AgreesWhenSettled
PROPERTIES
    EventsCountOnce
    OlderIgnored
