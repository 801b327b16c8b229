SPECIFICATION Spec
CONSTANTS
  UINT32_MAX = 15
  LONG_MAX = 70
  UINT64_MAX = 127
  BUN_HEADER_SIZE = 8
  BUN_ASSET_RECORD_SIZE = 4
  BUN_MAGIC = 7
  MAX_ERRORS = 1
  BUFFER_SIZE = 4
  MaxOpens = 2
  Files <- ApiFiles
  Stops <- ApiStops
INVARIANTS
  NoDangling
  OnlyReopenLeaks
  AcceptMeansValid
  ObedientExact
  ApiInvariant
PROPERTIES
  NeverBetter
