SPECIFICATION MCSpec
CONSTANTS
  a = a
  NULL = NULL
  Self = Self
  App = {a}
  MaxEvents = 4
  MaxStarts = 3
  MaxPolicies = 2
  MaxFaults = 1
CONSTRAINT FewFaults
INVARIANTS TypeOK NeverRegistersTwice AgentKnown PathKnown  NothingWaits
CHECK_DEADLOCK FALSE
