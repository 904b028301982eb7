SPECIFICATION MCSpec
CONSTANTS
  a1 = a1
  a2 = a2
  b1 = b1
  b2 = b2
  c1 = c1
  c2 = c2
  f1 = f1
  k1 = k1
  k2 = k2
  l1 = l1
  m1 = m1
  m2 = m2
  n1 = n1
  n2 = n2
  p1 = p1
  q1 = q1
  q2 = q2
  q3 = q3
  r1 = r1
  u3 = u3
  NoMember = NoMember
  NoUpload = NoUpload
  Request = {a1, a2}
  Session = {1}
  Client = {1}
  MaxAttempts = 2
  Window = 1
  LockTime = 1
  LinkTime = 1
  Cooldown = 1
  MaxPasswords = 2
  MaxTokens = 2
INVARIANTS
  ClientsServed
  CredentialsSafe
PROPERTIES
  ResetOnce
  NothingTakenBack
SYMMETRY Symmetry
CHECK_DEADLOCK FALSE
