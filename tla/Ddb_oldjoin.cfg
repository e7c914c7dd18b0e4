SPECIFICATION Spec
CONSTANTS
  h = h
  a = a
  l = l
  Servers <- PairServers
  Hubs = {h, a}
  ServicesHub = h
  Topology <- PairTopology
  Keys = {"k1"}
  PackKeys = {}
  Masks <- AllServers
  LineLen = 2
  MaxId = 3
  MaxConnects = 3
  MaxFaults = 0
INVARIANT OldJoinMeansCorrupt
CHECK_DEADLOCK FALSE
