SPECIFICATION FairSpec
CONSTANTS
  h = h
  a = a
  l = l
  Servers <- PairServers
  Hubs = {h}
  ServicesHub = h
  Topology <- PairTopology
  Keys = {"k1"}
  PackKeys = {"*"}
  Masks <- TwoMasks
  LineLen = 2
  MaxId = 3
  MaxConnects = 2
  MaxFaults = 1
INVARIANTS SortedDisk MemoryIsReplay HashesMatchFile
PROPERTY Drains
CHECK_DEADLOCK FALSE
