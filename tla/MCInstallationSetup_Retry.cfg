SPECIFICATION Spec
CONSTANTS
  t1 = t1
  t2 = t2
  k1 = k1
  k2 = k2
  None = None
  Task <- MCTask
  User <- MCUser
  Origin <- MCOrigin
  Identity <- MCIdentity
  SameDirectory = TRUE
SYMMETRY Interchangeable
INVARIANTS
  RefusedIsComplete
CHECK_DEADLOCK FALSE
