SPECIFICATION FairSpec
CONSTANTS
  WordBits <- MCWordBits
  WordMod <- MCWordMod
  rotate_left <- MCrotate_left
  Xor <- MCXor
  fk <- MCfk
  Steps = 20
  IV <- MCIV
  DO_SAFE_HASH_DEFAULT = TRUE
  Blocks <- MCBlocks
  NDV = 4
  message_mask <- MCmessage_mask
  test_state <- MCtest_state
  need_state <- MCneed_state
  n_needed_states = 2
  Ubc <- MCUbc
  Settings <- MCSettings
  MaxBlocks = 2
INVARIANTS
  TypeOK
  SavedStatesAreThisBlocks
  RecompressionIsCompression
  ReportsAreCollisions
PROPERTIES
  ProcessImplementsSafeSha1
  ProcessReturns
CHECK_DEADLOCK FALSE
