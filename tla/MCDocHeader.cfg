SPECIFICATION Spec
CONSTANTS
  UINT32_MAX = 15
  LONG_MAX = 511
  UINT64_MAX = 1023
  BUN_HEADER_SIZE = 60
  BUN_ASSET_RECORD_SIZE = 48
  BUN_MAGIC = 7
  MAX_ERRORS = 30
  BUFFER_SIZE = 4
  NAME_SNIPPET_BYTES = 3
  PAYLOAD_SNIPPET_BYTES = 3
  ArgCounts = {2}
  Files <- FaultFiles
  Faults = {"fseek"}
PROPERTIES
  HeaderResultDocumented
