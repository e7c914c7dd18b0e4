SPECIFICATION Spec
INVARIANT ConnectedIsCount
CHECK_DEADLOCK FALSE
CONSTANTS
  Clients = {c1, c2}
  Addrs = {a1}
  V6 = {}
  ClockMod = 16
  Boot = 0
  ConnectedMod = 8
  AttemptsMod = 8
  Attempts48Mod = 8
  CLONE_LIMIT = 3
  CLONE_PERIOD = 2
  CLONE_LIMIT_48 = 4
  CLONE_PERIOD_48 = 1
  CLONE_DELAY = 1
  Expiry = 4
  AcceptFails = TRUE
  Bursts = FALSE
  Iauth = FALSE
  MaxTime = 9
  MaxTries = 4
  c1 = c1
  c2 = c2
  a1 = a1
