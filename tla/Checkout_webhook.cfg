SPECIFICATION FairSpec
CONSTANTS
    u1 = u1  u2 = u2  k1 = k1  k2 = k2
    Users = {u1}
    Seats = {s1}
    Orders = {k1, k2}
    Buyer <- BuyerSame
    Workers = {p1}
    Nobody = Nobody
    NoOrder = NoOrder
    HoldTTL = 1
    OrderTTL = 1
    MaxHolds = 1
    MaxTime = 3
    Method <- StripeAndFake
    CronRuns = TRUE
    Crashes = TRUE
    Declines = TRUE
INVARIANTS
    PaidOrderHasTicket
PROPERTIES
    WebhookSettles
CHECK_DEADLOCK FALSE
