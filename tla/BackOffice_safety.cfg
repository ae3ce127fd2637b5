SPECIFICATION Spec
CONSTANTS
  Parts = {"wizard", "desk", "cover", "share", "gate", "lookup", "browse"}
  Slots = {s1, s2}
  Sessions = {std, vip}
  DefaultSession = std
  MaxEvents = 3
  MaxEdits = 3
  WizardFaults = TRUE
  Tabs = {h1, h2}
  Customers = {c1, c2}
  Prices = {2, 3}
  MaxDeskOps = 3
  CoverTabs = {h1, h2}
  MaxCovers = 3
  Owners = {h1, h2}
  MaxTokens = 2
  MaxAsks = 3
  GateTickets = {t1}
  GatePages = {p1, p2}
  MaxScans = 2
  Clients = {h1, h2}
  Venue = h1
  Cities = {"SP", "RJ"}
  MaxActs = 4
INVARIANT BackOfficeTypeOK
INVARIANT SubmissionIsFaithful
INVARIANT RefundIsCharge
INVARIANT BuyersHaveEvent
INVARIANT CoverAgrees
INVARIANT LinksAreTrue
INVARIANT RefundNoticeIsTrue
INVARIANT LookupsAreUsable
INVARIANT ScreensAreTrue
PROPERTY CancelledIsFinal
CHECK_DEADLOCK FALSE
