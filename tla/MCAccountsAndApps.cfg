SPECIFICATION MCSpec
SYMMETRY MCSymmetry
CONSTANTS
  a1 = a1
  a2 = a2
  Handle = {h1}
  Address = {a1, a2}
  Contact <- MCContact
  Call = {j1, j2}
  MaxUsers = 2
  MaxCredentials = 3
  MaxContacts = 2
  ClientId = {x, y}
  Uri = {u1, u2}
  Named = {u1}
  Job = {j1, j2}
  MaxClients = 2
  MaxApps = 2
  Closer = {j1, j2}
  MaxPairs = 6
  MaxOpen = 2
  Stream = {s1}
  MaxChunks = 2
  Capacity = 1
  Application = {"management", "other"}
  Management = "management"
  Person = {"owner", "guest"}
  Owner = "owner"
  RoleName <- MCRoleName
  PermissionName <- MCPermissionName
  Request = {j1, j2}
  MaxRows = 5
INVARIANTS
  LoginIsCurrent
  ResetLeavesPassword
  LoneUpsertDecides
  PartsAgree
  MarkerMeansTrusted
  FailureHasCause
  ExitAfterDrain
  BodiesAreWhole
  RegistryDrained
PROPERTIES
  GrantRestsOnRows
CHECK_DEADLOCK FALSE
