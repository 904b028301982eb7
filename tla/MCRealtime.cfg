SPECIFICATION MCSpec
CONSTANTS
  k1 = k1
  k2 = k2
  l1 = l1
  p1 = p1
  s1 = s1
  s2 = s2
  s3 = s3
  t1 = t1
  t2 = t2
  t3 = t3
  u1 = u1
  u2 = u2
  Requests = 4
  MaxAge = 2
  Ttl = 2
  Crashes = 2
INVARIANTS
  RestartedOnce
PROPERTIES
  EventsArrive
  PausesEnd
  LimitPaced
CHECK_DEADLOCK FALSE
