SPECIFICATION LifeSpec
CONSTANTS
    u1 = u1  u2 = u2  k1 = k1  k2 = k2
    Users = {u1}
    Seats = {s1, s2}
    Orders = {k1}
    Buyer <- BuyerOne
    Workers = {p1, p2}
    Desks = {d1, d2}
    Nobody = Nobody
    NoOrder = NoOrder
    HoldTTL = 1
    OrderTTL = 1
    MaxHolds = 1
    MaxTime = 2
    Method <- AllStripe
    CronRuns = FALSE
    Crashes = TRUE
    Declines = FALSE
    Doors = TRUE
SYMMETRY Symmetry
INVARIANTS
    LifeTypeOK
    AdmittedOnce
    NoSecondTicket
    SoldSeatHasTicket
    RefundedHasNoActive
CHECK_DEADLOCK FALSE
