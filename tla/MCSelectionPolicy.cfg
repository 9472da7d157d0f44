SPECIFICATION Spec
CONSTANTS
  r1 = r1
  r2 = r2
  d1 = d1
  docs = docs
  photos = photos
  appA = appA
  appB = appB
  database = database
  filesystem = filesystem
  k1 = k1
  k2 = k2
  Null = Null
  Replica = {r1, r2}
  Device = {d1}
  Resource = {docs, photos}
  Client = {k1}
  AppOf <- MCAppOf
  KindOf <- MCKindOf
  MaxOps = 5
SYMMETRY MCSymmetry
INVARIANTS
  DeselectionWins
  RestrictionWins
  Convergence
