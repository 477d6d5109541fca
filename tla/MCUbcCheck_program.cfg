SPECIFICATION Spec
CONSTANTS
  n_disturbance_vectors = 32
  N = 156
  ubc <- TheUbcs
  as <- TheAs
  bs <- TheBs
  ms <- TheMs
  ns <- TheNs
  cs <- sha1dc_avx512_v64ubc_cs
  dvmasks <- TheMasks
  Messages <- MCProgramMessages
  UNROLLING_LOOPS = TRUE
INVARIANTS
  TypeOK
  Progress
  MaskIsWhatConditionsLeave
  SearchIffVectorsLeft
CHECK_DEADLOCK FALSE
