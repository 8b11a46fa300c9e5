SPECIFICATION Spec
CONSTANTS
  root = root
  a = a
  b = b
  i1 = i1
  i2 = i2
  i3 = i3
  NULL = NULL
  Path = {root, a, b}
  Root = root
  Above <- MCAbove
  Interface = {i1, i2, i3}
  Propertied = {i1}
  Experimental = {i3}
  Offered <- MCOffered
  Introspectable = Introspectable
  Properties = Properties
  ObjectManager = ObjectManager
INVARIANTS TypeOK TreeExact KnowsInterfaces ManagedExact ChangesTold SignalsInOrder IntrospectFresh
CHECK_DEADLOCK FALSE
