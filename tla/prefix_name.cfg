SPECIFICATION Spec
CONSTANTS
  a1 = a1
  a2 = a2
  p1 = p1
  p2 = p2
  pold = pold
  r1 = r1
  r2 = r2
  s1 = s1
  u1 = u1
  u2 = u2
  g1 = g1
  j1 = j1
  j2 = j2
  j3 = j3
  garbage = garbage
  empty = empty
  NULL = NULL
  NoId = NoId
  NotObject = NotObject
  NotArray = NotArray
  Untold = Untold
  Agent = {a1, a2}
  App = {p1}
  pold_unique_bus = pold
  Path = {"/"}
  Request = {r1}
  PolicyId <- MCPolicyId
  TypeOf <- MCTypeOf
  SelinuxId <- MCSelinuxId
  UserId <- MCUserId
  GroupId <- MCGroupId
  ValidId = {s1, u1, u2, g1}
  Json = {j1, j2, j3}
  DefaultId = NoId
  DefaultJson = j3
  InitialFiles <- MCInitialFiles
  Responses <- MCWithdrawal
  Text <- MCText
  Prefixed <- MCPrefixed
  SenderRead <- MCSenderIntact
  FreedAppRead = {"nothing", "crash"}
  MaxInbox = 1
  MaxWatches = 1
  MaxSignals = 0
PROPERTY OtherAppsKept
CHECK_DEADLOCK FALSE
