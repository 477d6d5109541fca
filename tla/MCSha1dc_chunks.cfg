SPECIFICATION Spec
CONSTANTS
  B = 4
  L = 2
  M = 64
  UCharMod = 8
  BitsPerByte = 3
  Byte <- MCByte
  PadByte = 4
  LengthField <- MCLengthField
  Uninit = Uninit
  CV <- MCCV
  IV = 2
  Compress <- MCCompress
  Digest <- MCDigest
  NDV = 3
  Ubc <- MCUbc
  TwinIn <- MCTwinIn
  TwinOut <- MCTwinOut
  Chunks <- MCChunks
  Handlers = {h1}
  Closures = {c1}
  NoHandler = NoHandler
  NoResult = NoResult
  DO_SAFE_HASH_DEFAULT = TRUE
  ALLOW_UNALIGNED_ACCESS = TRUE
  ClientByte = {1, 5}
  MaxChunk = 9
  MaxMessage = 9
  MaxMessages = 1
  Setters = {}
INVARIANTS
  TypeOK
  BlockIsNextOfStream
  CopiesInBounds
  FinishIsPadded
  SafeHashIsSha1WithoutCollision
  StreamAccounted
CHECK_DEADLOCK FALSE
