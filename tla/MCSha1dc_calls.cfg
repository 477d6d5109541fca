SPECIFICATION FairSpec
CONSTANTS
  B = 4
  L = 2
  M = 64
  UCharMod = 8
  BitsPerByte = 3
  Byte <- MCByte
  PadByte = 4
  LengthField <- MCLengthField
  Uninit = Uninit
  CV <- MCCV
  IV = 2
  Compress <- MCCompress
  Digest <- MCDigest
  NDV = 3
  Ubc <- MCUbc
  TwinIn <- MCTwinIn
  TwinOut <- MCTwinOut
  Chunks <- MCChunks
  Handlers = {h1}
  Closures = {c1}
  NoHandler = NoHandler
  NoResult = NoResult
  DO_SAFE_HASH_DEFAULT = TRUE
  ALLOW_UNALIGNED_ACCESS = TRUE
  ClientByte = {1, 5}
  MaxChunk = 5
  MaxMessage = 5
  MaxMessages = 1
  Setters = {"do_safe_hash", "use_ubc", "detect_coll", "detect_reduced_round_coll", "callback"}
INVARIANTS
  EachBlockReportedOnce
PROPERTIES
  ImplementsSafeSha1
  CallsReturn
CHECK_DEADLOCK FALSE
