SPECIFICATION ClockSpec
CONSTANTS
    Users = {u1}
    Seats = {s1, s2}
    Requests = {p1, p2}
    Nobody = Nobody
    HoldTTL = 1
    MaxHolds = 2
    MaxTime = 3
    MaxSeatsPerHold = 1
    Crashes = TRUE
    CronRuns = FALSE
PROPERTIES
    HoldLimit
    MapShowsSeatFreeAgain
CHECK_DEADLOCK FALSE
