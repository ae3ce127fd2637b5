SPECIFICATION Spec
CONSTANTS
    u1 = u1  u2 = u2  k1 = k1  k2 = k2
    Users = {u1, u2}
    Seats = {s1}
    Orders = {k1, k2}
    Buyer <- BuyerEach
    Workers = {p1, p2}
    Nobody = Nobody
    NoOrder = NoOrder
    HoldTTL = 1
    OrderTTL = 1
    MaxHolds = 2
    MaxTime = 3
    Method <- StripeAndFake
    CronRuns = TRUE
    Crashes = TRUE
    Declines = TRUE
SYMMETRY Symmetry
INVARIANT OneActiveTicket
INVARIANT TicketComesFromHold
INVARIANT IssuedOnlyAfterCharge
CHECK_DEADLOCK FALSE
