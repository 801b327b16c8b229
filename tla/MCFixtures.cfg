SPECIFICATION Spec
CONSTANTS
  UINT32_MAX = 16777215
  LONG_MAX = 536870911
  UINT64_MAX = 1073741823
  BUN_HEADER_SIZE = 60
  BUN_ASSET_RECORD_SIZE = 48
  BUN_MAGIC = 3165781
  MAX_ERRORS = 100
  BUFFER_SIZE = 4096
  NAME_SNIPPET_BYTES = 60
  PAYLOAD_SNIPPET_BYTES = 64
  ArgCounts = {2}
  Files <- WrittenFiles
  Faults = {}
INVARIANTS
  Expected
  AsWritten
  OwnBytes
  FromDisk
