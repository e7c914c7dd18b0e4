SPECIFICATION Spec
CONSTANTS
  h = h
  a = a
  l = l
  Servers <- ChainServers
  Hubs <- ChainServers
  ServicesHub = h
  Topology <- ChainTopology
  Keys = {"k1"}
  PackKeys = {}
  Masks <- AllServers
  LineLen = 2
  MaxId = 3
  MaxConnects = 3
  MaxFaults = 1
INVARIANTS QuietMeansSynced QuietMeansWhole
CHECK_DEADLOCK FALSE
