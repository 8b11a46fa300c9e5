SPECIFICATION OrderlySpec
CONSTANTS
  a1 = a1
  a2 = a2
  p1 = p1
  p2 = p2
  pold = pold
  r1 = r1
  r2 = r2
  s1 = s1
  u1 = u1
  u2 = u2
  g1 = g1
  j1 = j1
  j2 = j2
  j3 = j3
  garbage = garbage
  empty = empty
  NULL = NULL
  NoId = NoId
  NotObject = NotObject
  NotArray = NotArray
  Untold = Untold
  Agent = {a1, a2}
  App = {p1, p2}
  pold_unique_bus = pold
  Path = {"/"}
  Request = {r1}
  PolicyId <- MCPolicyId
  TypeOf <- MCTypeOf
  SelinuxId <- MCSelinuxId
  UserId <- MCUserId
  GroupId <- MCGroupId
  ValidId = {s1, u1, u2, g1}
  Json = {j1, j2, j3}
  DefaultId = g1
  DefaultJson = j3
  InitialFiles <- MCInitialFiles
  Responses <- MCGoodResponses
  Text <- MCText
  Prefixed <- MCPrefixFree
  SenderRead <- MCSenderIntact
  FreedAppRead = {"nothing"}
  MaxInbox = 2
  MaxWatches = 1
  MaxSignals = 1
INVARIANTS RecordIsWhatAgentKnows DepartedForgotten
PROPERTIES UpdateReachesAll ImplementsDistribution
SYMMETRY MCSymmetry
CHECK_DEADLOCK FALSE
