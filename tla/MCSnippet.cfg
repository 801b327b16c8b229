SPECIFICATION Spec
CONSTANTS
  UINT32_MAX = 15
  LONG_MAX = 511
  UINT64_MAX = 1023
  BUN_HEADER_SIZE = 60
  BUN_ASSET_RECORD_SIZE = 48
  BUN_MAGIC = 7
  MAX_ERRORS = 1
  BUFFER_SIZE = 4
  NAME_SNIPPET_BYTES = 3
  PAYLOAD_SNIPPET_BYTES = 5
  SNIFF_BYTES = 5
  LINE_BYTES = 2
  U8_MAX = 3
  Shows <- AllShows
INVARIANTS
  Faithful
  DecodedSoFar
  TextClean
  SnippetInvariant
PROPERTIES
  Termination
