SPECIFICATION Spec
CONSTANTS
  User = {1, 2, 3}
  Torrent = {1, 2, 3}
  Owners <- OwnersApart
  Size <- SizeApart
  Small = 1
  Medium = 2
  Slots = 1
  PerUser = 1
  Quantum = 1
  DeficitCap = 4
  AgingMax = 0
  ControlSet = 2
  Stallable = {}
  CyclesPerTurn = 2
PROPERTY NobodyStarves
CHECK_DEADLOCK FALSE
