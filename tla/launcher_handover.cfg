SPECIFICATION FairSpec
CONSTANTS
  a1 = a1
  a2 = a2
  a3 = a3
  u1 = u1
  u2 = u2
  Addresses = {a1, a2}
  Ports = {1}
  DefaultPort = 1
  Ids = {u1, u2}
  NoId = NoId
  MaxHosts = 1
  Identity <- EachItsOwn
  SavedLists <- OneSaved
  FailureThreshold = 1
  Reports <- FewReports
  SaveMayFail = FALSE
  MaxFound = 1
  MaxRequests = 0
PROPERTY StartHandsOver
