SPECIFICATION LifeSpec
CONSTANTS
    u1 = u1  u2 = u2  k1 = k1  k2 = k2
    Users = {u1}
    Seats = {s1}
    Orders = {k1, k2}
    Buyer <- BuyerSame
    Workers = {p1}
    Desks = {d1}
    Nobody = Nobody
    NoOrder = NoOrder
    HoldTTL = 1
    OrderTTL = 1
    MaxHolds = 2
    MaxTime = 2
    Method <- AllStripe
    CronRuns = FALSE
    Crashes = FALSE
    Declines = FALSE
    Doors = TRUE
INVARIANTS
    SeatSoldOnce
CHECK_DEADLOCK FALSE
