SPECIFICATION Spec
CONSTANTS
  WordBits = 4
  ByteBits = 1
  UCharMod = 8
  RoundConstant <- MCRoundConstant
INVARIANTS
  LoopsStayInBounds
  BytesAreBigEndian
  RotationsMoveEveryBit
  RoundFunctionsAreSha1s
CHECK_DEADLOCK FALSE
