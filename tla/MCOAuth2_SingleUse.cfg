SPECIFICATION MCSpec
CONSTANTS
  User = {alice}
  Client = {app}
  Uri = {r1, r2}
  Scope = {read}
  Task = {t1, t2}
  read = read
  Registration <- MCRegistration
  None = None
  MaxConsents = 1
  MaxCodes = 1
  MaxRotations = 1
  Node = {r1, r2}
  Job = {t1, t2}
  NoValue = NoValue
  MaxSecond = 2
  MaxChanges = 1
SYMMETRY MCSymmetry
INVARIANTS
  SingleUse
