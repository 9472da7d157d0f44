SPECIFICATION PeerFairSpec
CONSTANTS
  kLocal = kLocal
  k1 = k1
  alice = alice
  g1 = g1
  t1 = t1
  None = None
  Empty = Empty
  LocalKey = kLocal
  Key = {kLocal, k1}
  Owner = {alice}
  Grant = {g1}
  Task = {t1}
PROPERTIES
  AllowlistFollows
