SPECIFICATION FairSpec
CONSTANTS
  n = n
  u = u
  v = v
  t = t
  NULL = NULL
  Nobody = Nobody
  Garbage = Garbage
  Bus = Bus
  OwnerChanged = OwnerChanged
  Name = {n}
  Unique = {u}
  Topic = {OwnerChanged, t}
  Serviceable = {n, u}
  SignalRules <- MCSignalRules
  MaxRules = 2
  MaxId = 3
  MaxInbox = 2
INVARIANTS TypeOK ListsExact DeliveredOnce KnowsPresence DepartureReported
PROPERTY LearnsPresence
CHECK_DEADLOCK FALSE
