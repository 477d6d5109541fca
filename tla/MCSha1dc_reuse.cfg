SPECIFICATION Spec
CONSTANTS
  B = 4
  L = 1
  M = 8
  UCharMod = 8
  BitsPerByte = 3
  Byte <- MCByte
  PadByte = 4
  LengthField <- MCLengthField
  Uninit = Uninit
  CV <- MCCV
  IV = 2
  Compress <- MCCompress
  Digest <- MCDigest
  NDV = 3
  Ubc <- MCUbc
  TwinIn <- MCTwinIn
  TwinOut <- MCTwinOut
  Chunks <- MCChunks
  Handlers = {h1}
  Closures = {c1}
  NoHandler = NoHandler
  NoResult = NoResult
  DO_SAFE_HASH_DEFAULT = TRUE
  ALLOW_UNALIGNED_ACCESS = FALSE
  ClientByte = {5}
  MaxChunk = 9
  MaxMessage = 12
  MaxMessages = 3
  Setters = {"do_safe_hash", "detect_coll", "detect_reduced_round_coll", "callback"}
INVARIANTS
  UnprocessedIsBuffered
  FinishIsPadded
PROPERTIES
  ImplementsSafeSha1
CHECK_DEADLOCK FALSE
