SPECIFICATION FairSpec
CONSTANTS
  s1 = s1
  u1 = u1
  j1 = j1
  j2 = j2
  j3 = j3
  j4 = j4
  NULL = NULL
  NoId = NoId
  NotObject = NotObject
  NotArray = NotArray
  PolicyId = {s1, u1}
  Json = {j1, j2, j3, j4}
  TypeOf <- MCTypeOf
  Answer <- MCAnswer
  Newest = 6
  MaxFiles = 2
  MaxFaults = 2
INVARIANTS TypeOK OneVersion LoadsWholeAnswer
PROPERTIES Converges
CHECK_DEADLOCK FALSE
