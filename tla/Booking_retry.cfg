SPECIFICATION Spec
CONSTANTS
  Seats = {s1, s2}
  MaxSeats = 2
  MaxChanges = 1
  MaxFeed = 2
  MaxDrops = 1
  MaxOrders = 2
  MaxVisits = 1
  MaxReloads = 1
  Faults = TRUE
CHECK_DEADLOCK FALSE
INVARIANT RetryKeepsSeats
