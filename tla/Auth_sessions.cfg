SPECIFICATION Spec
CONSTANTS
  Tabs = {t1, t2}
  Browsers = {b1, b2}
  Calls = {seats}
  MaxTokens = 3
  MaxReloads = 1
  Faults = TRUE
INVARIANT AuthTypeOK
INVARIANT ReuseIsExplained
INVARIANT TokensMatchTabs
INVARIANT WaitersGoOn
PROPERTY LoadingEnds
CHECK_DEADLOCK FALSE
