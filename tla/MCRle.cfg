SPECIFICATION Spec
CONSTANTS
  UINT32_MAX = 3
  LONG_MAX = 20
  UINT64_MAX = 204
  BUN_HEADER_SIZE = 1
  BUN_ASSET_RECORD_SIZE = 1
  BUN_MAGIC = 0
  MAX_ERRORS = 1
  BUFFER_SIZE = 4
  DeclaredSizes = {0, 1, 2, 4, 201, 204}
  Payloads <- AllPayloads
  Sizes <- AllSizes
INVARIANTS
  PairInBuffer
  Accounting
  OneStep
  FirstZero
  RleInvariant
PROPERTIES
  Termination
