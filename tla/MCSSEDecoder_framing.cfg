SPECIFICATION DecoderSpec
CONSTANTS
  MaxLength = 6
INVARIANTS
  DecodesPrefix
