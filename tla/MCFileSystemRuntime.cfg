SPECIFICATION MCSpec
CONSTANTS
  Fs = {f1}
  Task = {t1, t2, t3}
  None = None
  Server = {"idp", "management", "storage"}
  HttpRequest = {"q1", "q2"}
  EndpointKey = {"e1", "e2"}
  NoKey = NoKey
  MaxFaults = 3
  Connection = {"c1", "c2"}
  FilePath = {"a", "b"}
  MaxChanges = 3
  StorageNamespace <- MCStorageNamespace
  PolicyPath <- MCPolicyPath
  Unsaved = Unsaved
  Torn = Torn
INVARIANTS
  OneInstance
  KeyLossHasCause
  AnswersAreTrue
  NearestRuleWins
  SavedSurvives
PROPERTIES
  StopsAfterSignal
