SPECIFICATION Spec
CONSTANTS
  a = a
  b = b
  NoBucket = NoBucket
  Clients <- MCClients
  PerMinute = 2
  Minute = 3
  PRUNE_THRESHOLD = 1
  IDLE_SECONDS = 3
  MaxTime = 7
SYMMETRY Addresses
INVARIANTS
  TypeOK
  WithinRate
  RetryExact
PROPERTIES
  ImplementsEager
