SPECIFICATION Spec
CONSTANTS
  Names = {a, Dash}
  Dash = Dash
  CommandLines <- MCCommandLines
  Byte = {1, 2, 3, 4, 5}
  Contents <- MCContents
  BufferSize = 2
  Digest <- MCDigest
  Partial = TRUE
  MaxArguments = 2
INVARIANTS
  ZeroMeansWritten
CHECK_DEADLOCK FALSE
