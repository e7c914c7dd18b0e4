SPECIFICATION Spec
CONSTANTS
  a = a
  b = b
  c = c
  n1 = n1
  n2 = n2
  h1 = h1
  h2 = h2
  Servers <- Chain
  Via <- ChainVia
  Capacity = 1
  Nicks = {n1, n2}
  Hosts = {h1}
  Ghosting = TRUE
  MaxTs = 1
  MaxOps = 3
  MaxConnects = 2
  MaxBreaks = 1
INVARIANTS NickIsUnique NoOrphan
SYMMETRY Symmetric
CHECK_DEADLOCK FALSE
