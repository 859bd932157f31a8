SPECIFICATION Spec
CONSTANTS
  a1 = a1
  a2 = a2
  a3 = a3
  u1 = u1
  u2 = u2
  Addresses = {a1}
  Ports = {1, 2, 3}
  DefaultPort = 1
  Ids = {u1, u2}
  NoId = NoId
  MaxHosts = 2
  Identity <- TwoWays
  SavedLists <- TwoPorts
  FailureThreshold = 3
  Reports <- NoneReady
  SaveMayFail = FALSE
  MaxFound = 1
  MaxRequests = 0
INVARIANTS OneConversation ShownIsTrue ClosedClean NoTwins
PROPERTY SelectionFollows
