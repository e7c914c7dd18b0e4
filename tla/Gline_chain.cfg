SPECIFICATION Spec
CONSTANTS
  a = a
  b = b
  c = c
  None = None
  Servers <- Chain
  Via <- ChainVia
  Targets = {a, c}
  Homes = {c}
  Opers = {a}
  Services = {c}
  Reasons = {"r1"}
  Terms = {1}
  LongTerms = {3}
  MaxExpire = 2
  OneMonth = 3
  Start = 2
  MaxNow = 3
  MaxOps = 3
  MaxConnects = 1
  Fragile <- Uplink
  MaxBreaks = 1
INVARIANTS BannedAreGone QuietMeansAgreed
PROPERTIES LastmodGrows LocalStateHolds
CHECK_DEADLOCK FALSE
