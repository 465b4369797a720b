SPECIFICATION Spec
CONSTANTS
  Key = {k1, k2}
  Request = {q1, q2, q3}
  Max = 3
  Cooldown = 2
  Retention = 2
  Capacity = 1
  None = None
  NoEvent = NoEvent
  User = {u1, u2}
  Calls = 2
  Window = 2
  Buckets = 1
  MaxCount = 3
  Base = 2
  Places = 2
  Event = {e1, e2, e3, e4}
  Writer = {w1, w2}
  Grant = {g1}
  Keep = 2
  TTL = 2
  MaxTime = 7
SYMMETRY Symmetry
INVARIANTS TypeOK GuessesBounded AboveCapacityIsYoung BurstBounded ExpiryWithinSecond TrailBounded
PROPERTIES CooldownFixed WindowFixed RetentionKeepsNewest
CHECK_DEADLOCK FALSE
