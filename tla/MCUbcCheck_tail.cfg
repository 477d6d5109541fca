SPECIFICATION Spec
CONSTANTS
  n_disturbance_vectors = 12
  N = 100
  ubc <- MCubc
  as <- MCas
  bs <- MCbs
  ms <- MCms
  ns <- MCns
  cs <- MCcs
  dvmasks <- MCdvmasks
  Messages <- MCMessages
  UNROLLING_LOOPS = FALSE
INVARIANTS
  MaskIsWhatConditionsLeave
  SearchIffVectorsLeft
CHECK_DEADLOCK FALSE
