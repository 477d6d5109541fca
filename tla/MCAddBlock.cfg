SPECIFICATION Spec
CONSTANTS
  WordBits <- MCWordBits
  WordMod <- MCWordMod
  rotate_left <- MCrotate_left
  Xor <- MCXor
  fk <- MCfk
  Steps = 80
  Inputs <- MCInputs
  need_state <- MCall
  n_needed_states = 61
  Unwritten = Unwritten
INVARIANTS
  TypeOK
  OutputIsSha1
  NeededStatesAreSaved
  UnreachableIsNotReached
CHECK_DEADLOCK FALSE
