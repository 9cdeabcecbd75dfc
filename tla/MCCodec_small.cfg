\* Bytes of 13 values: 3 + 2 * (3 + 2).  A usize is below 169.
\* The decoder stops at the end of the input.
CONSTANTS
  SINGLE = 3
  SHORT = 3
  LONG = 2
  LENGTH = 2
  L2_SIGNED_TX = 4
  L2_BATCH = 3
  MAX_BATCH_DEPTH = 2
  ADDRESS = 1
  INTEGER = 1
  SCALAR = 2
  VWIDTH = 2
  SELECTOR = 2
  TYPES = 2
  Inputs <- MCInputs
SPECIFICATION FairCodecSpec
CHECK_DEADLOCK FALSE
INVARIANTS
  SlicesInBounds
  PackedIsFound
  SignedIsRecovered
PROPERTIES
  ScanDecides
  DecodeEnds
