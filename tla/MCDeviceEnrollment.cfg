SPECIFICATION MCSpec
CONSTANTS
  kLocal = kLocal
  k1 = k1
  alice = alice
  bob = bob
  g1 = g1
  g2 = g2
  t1 = t1
  t2 = t2
  None = None
  Empty = Empty
  LocalKey = kLocal
  Key = {kLocal, k1}
  Owner = {alice, bob}
  Grant = {g1, g2}
  Task = {t1, t2}
  Page = {g1, g2}
  Attempt = {alice, bob}
  Flow = {t1, t2}
  NoToken = NoToken
  NoVerifier = NoVerifier
SYMMETRY MCSymmetry
INVARIANTS
  GrantExclusive
  SyncOnlyWithGrantee
  CallbackIsItsOwn
  ClearedStaysCleared
