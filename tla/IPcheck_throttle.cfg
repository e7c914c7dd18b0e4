SPECIFICATION Spec
INVARIANT StreakIsRemembered
INVARIANT ConnectedIsCount
PROPERTY NoFastClones
SYMMETRY Symmetry
CHECK_DEADLOCK FALSE
CONSTANTS
  Clients = {c1, c2}
  Addrs = {a1, a2}
  V6 = {a2}
  ClockMod = 6
  Boot = 4
  ConnectedMod = 8
  AttemptsMod = 5
  Attempts48Mod = 4
  CLONE_LIMIT = 3
  CLONE_PERIOD = 1
  CLONE_LIMIT_48 = 4
  CLONE_PERIOD_48 = 1
  CLONE_DELAY = 0
  Expiry = 2
  AcceptFails = FALSE
  Bursts = TRUE
  Iauth = TRUE
  MaxTime = 4
  MaxTries = 5
  c1 = c1
  c2 = c2
  a1 = a1
  a2 = a2
