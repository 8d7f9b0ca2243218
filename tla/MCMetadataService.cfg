\* overlapping requests, a clear at any moment, one failed request
SPECIFICATION Spec
CONSTANTS
  Resources = {1, 2, 3}
  ValidatorOf <- MCValidatorOf
  Asks <- MCAsks
  a = a
  b = b
  Callers = {a, b}
  BatchSize = 2
  Ttl = 1
  MaxTime = 3
  MaxFaults = 1
  MaxClears = 1
SYMMETRY Symmetric
INVARIANTS
  CachedComplete
  AnswersAgree
  FreshAfterClear
CHECK_DEADLOCK FALSE
