SPECIFICATION Spec
CONSTANTS
  NULL = NULL
  Declarations <- Declared
  Damaged <- DamagedNames
INVARIANTS
  RoundTrip
  PoolsSuffice
  NameAgrees
CHECK_DEADLOCK FALSE
