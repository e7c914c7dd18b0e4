SPECIFICATION FairSpec
CONSTANTS
  a = a
  b = b
  c = c
  n1 = n1
  n2 = n2
  h1 = h1
  h2 = h2
  Servers <- Pair
  Via <- PairVia
  Capacity = 3
  Nicks = {n1, n2}
  Hosts = {h1, h2}
  Ghosting = FALSE
  MaxTs = 2
  MaxOps = 3
  MaxConnects = 2
  MaxBreaks = 1
INVARIANTS QuietMeansAgreed
PROPERTY Drains
CHECK_DEADLOCK FALSE
