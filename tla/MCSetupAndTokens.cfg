SPECIFICATION MCSpec
CONSTANTS
  t1 = t1
  t2 = t2
  k1 = k1
  k2 = k2
  None = None
  Task <- MCTask
  User <- MCUser
  Origin <- MCOrigin
  Identity <- MCIdentity
  SameDirectory = TRUE
  token = token
  ra = ra
  rb = rb
  UserToken = {token}
  Resource = {ra, rb}
  Namespace <- MCNamespace
  Expiry <- MCExpiry
  Actions <- MCActions
  Peer = {p1}
  Slot <- MCTask
  Ttl = 3
  Margin = 1
  Timeout = 1
  MaxTime = 4
  MaxKeys = 2
SYMMETRY MCSymmetry
INVARIANTS
  CreatedIsComplete
  RetryOutcome
  SentUnexpired
  ExecutedWasAuthorized
CHECK_DEADLOCK FALSE
