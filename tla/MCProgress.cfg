SPECIFICATION MCSpec
CONSTANTS
  j1 = j1
  j2 = j2
  s1 = s1
  w1 = w1
  timer = timer
  deploy = deploy
  NoJob = NoJob
  NoWorker = NoWorker
  a = a
  b = b
  r = r
  f1 = f1
  a1 = a1
  a2 = a2
  a3 = a3
  u1 = u1
  NoUpload = NoUpload
  File = {f1}
  Archive = {a1}
  User = {u1}
  Owner <- LeaseAsks
  Admin = {}
  LeaseTime = 2
  Margin = 1
  Limits = {1}
  PerUser = 1
  Global = 3
  MaxRestarts = 1
INVARIANTS
  SelectionFair
  DeletionsSafe
  TransfersExact
PROPERTIES
  NobodyStarves
  WorkEnds
  KeepsPromised
  LeasesEnd
  WaitsEnd
CHECK_DEADLOCK FALSE
