SPECIFICATION MCSpec
CONSTANTS
  u1 = u1
  u2 = u2
  t1 = t1
  t2 = t2
  a = a
  b = b
  s1 = s1
  s2 = s2
  c1 = c1
  j1 = j1
  p1 = p1
  p2 = p2
  Tx = {a, b}
  NoTx = NoTx
  UserOrder <- Users
  TorrentOrder <- Torrents
  Size <- Sizes
  Capacity = 2
  UserMax = 2
  MaxActive = 1
  AdminBatch = 1
  ReconcileBatch = 2
INVARIANTS
  ContentsExact
  StorageKept
  CirclesBatched
  ManifestServed
SYMMETRY Symmetry
CHECK_DEADLOCK FALSE
