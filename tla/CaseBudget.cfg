SPECIFICATION Spec
CONSTANTS
  MAX_JSON_BYTES = 1048576
  MAX_JSON_TEXT_BYTES = 1048576
  MAX_CANONICAL_BYTES = 1048576
  MAX_EXPANDED_JSON_NODES = 16384
  MAX_JSON_DEPTH = 32
  MAX_OBJECT_ITEMS = 512
  MAX_ARRAY_ITEMS = 256
  MAX_VARIANT_ITEMS = 255
  MAX_STRING_CHARS = 4096
  MaxId = 128
INVARIANTS
  OneDomain
  LoadedCaseSpeaks
