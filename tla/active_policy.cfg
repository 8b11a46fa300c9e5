SPECIFICATION MCSpec
CONSTANTS
  s1 = s1
  s2 = s2
  u1 = u1
  g1 = g1
  x1 = x1
  w1 = w1
  w2 = w2
  r1 = r1
  PolicyId <- MCPolicyId
  TypeOf <- MCTypeOf
  Json = {j1}
  NULL = NULL
  MaxIds = 3
  IntBits = 3
  Aborted = Aborted
  Nothing = Nothing
INVARIANTS BestSoFar HighestPriorityWins DocumentArrives
CHECK_DEADLOCK FALSE
