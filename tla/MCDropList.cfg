SPECIFICATION MCSpec
CONSTANTS
  Keys = {k1, k2, k3, k4}
  MAX_COUNT = 2
  LIST_LIMIT = 2
  MaxAdded = 5
INVARIANTS TypeOK KeysDistinct CountsPerKey
CHECK_DEADLOCK FALSE
