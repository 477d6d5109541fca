SPECIFICATION FairSpec
CONSTANTS
  Names = {a, b, Dash}
  Dash = Dash
  CommandLines <- MCCommandLines
  Byte = {1, 2, 3, 4, 5}
  Contents <- MCContents
  BufferSize = 2
  Digest <- MCDigest
  Partial = TRUE
  MaxArguments = 3
INVARIANTS
  TypeOK
  LinesAreForWholeFiles
  ContextIsFresh
  StatusTells
  OnlyUnreadableStayOpen
  ClosedStdinIsNamedAgain
PROPERTIES
  Terminates
CHECK_DEADLOCK FALSE
