SPECIFICATION Spec
CONSTANTS
    Users = {u1, u2}
    Seats = {s1, s2}
    Requests = {p1, p2}
    Nobody = Nobody
    HoldTTL = 1
    MaxHolds = 2
    MaxTime = 3
    MaxSeatsPerHold = 2
    Crashes = TRUE
    CronRuns = TRUE
SYMMETRY Symmetry
INVARIANTS
    TypeOK
    OneUnreleasedHold
    LapsedSeatIsReclaimable
    RetryConflictIsReal
PROPERTIES
    ReservationSpec
    OnlyOwnerEndsActiveHold
CHECK_DEADLOCK FALSE
