\* One email key (one answer of its provider may be lost), a note, a business fact
\* and a claim check; two requests at a time; one execution per period and two
\* periods.
\* A subscription that lapses in the last period, with every row in its final
\* state, has no step left: hence CHECK_DEADLOCK FALSE.
CONSTANTS
    e = e
    n = n
    x = x
    g = g
    c1 = c1
    c2 = c2
    Emails = {e}
    Direct = {n}
    Facts = {x}
    Checks = {g}
    Slots = {c1, c2}
    Limit = 1
    MaxPeriod = 2
    MaxLost = 1
SPECIFICATION Spec
SYMMETRY SlotSymmetry
INVARIANTS
    TypeOK
    ResentOnlyIfUnheard
    CompletedIsSent
PROPERTIES
    QuotaHolds
    SendsOnce
CHECK_DEADLOCK FALSE
