SPECIFICATION MCSpec
CONSTANTS
  a1 = a1
  a2 = a2
  b1 = b1
  b2 = b2
  h1 = h1
  h2 = h2
  i1 = i1
  i2 = i2
  n1 = n1
  n2 = n2
  t1 = t1
  t2 = t2
  t3 = t3
  u1 = u1
  u2 = u2
  Scheduler = {a1, a2}
  NoScheduler = NoScheduler
  Torrent = {t1, t2, t3}
  Unreachable = {}
  Capacity = 2
  Overrun = FALSE
  Admin = FALSE
  Troubles = {}
INVARIANTS
  SettingsKept
  OutsideTruthful
  RecoverySafe
  WithinSlots
PROPERTIES
  NothingOverwritten
SYMMETRY Symmetry
CHECK_DEADLOCK FALSE
